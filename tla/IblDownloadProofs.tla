------------------------- MODULE IblDownloadProofs -------------------------
(***************************************************************************)
(* Theorems about IblDownload, for any managers, models, images and files. *)
(*                                                                         *)
(* NoForgottenModel is not inductive: a render decides early, under        *)
(* m_ModelsMutex, that the image is missing, and caches its frame later.   *)
(* JobTracked says that in between the model stays remembered, or its      *)
(* image declined; the GUI thread, which changes both, needs the mutex.    *)
(*                                                                         *)
(* LastReplyCompletes needs the whole way of a prompt: PromptInv says that *)
(* no manager asks for an image twice, so that the prompts in the queue    *)
(* and in the dialogs are all different, and BatchInv that a manager which *)
(* downloads has none left, so that its count is that of its replies.      *)
(***************************************************************************)
EXTENDS IblDownload, FiniteSetTheorems, SequenceTheorems, TLAPS

JobTracked ==
    \A m \in Managers :
        job[m] # Idle /\ ~job[m].ibl =>
            \/ job[m].model \in missing[m]
            \/ image[m][job[m].model] \in declined[m]

IInv == TypeOK /\ JobTracked /\ NoForgottenModel

\* The number of files AnswerYes requests is a number.
LEMMA FilesFinite ==
    ASSUME NEW i \in Images
    PROVE  /\ IsFiniteSet(FilesOf(i)) /\ Cardinality(FilesOf(i)) \in Nat
           /\ IsFiniteSet(FilesOf(i) \ {Shared})
           /\ Cardinality(FilesOf(i) \ {Shared}) \in Nat
<1>1. IsFiniteSet({i} \X Files)
  BY IblAssumption, FS_Singleton, FS_Product
<1>2. IsFiniteSet(FilesOf(i))
  BY <1>1, FS_Singleton, FS_Union DEF FilesOf
<1>3. IsFiniteSet(FilesOf(i) \ {Shared})
  BY <1>2, FS_Subset
<1> QED
  BY <1>2, <1>3, FS_CardinalityType

\* The initial states are well typed and no model has been rendered.
LEMMA InitIInv == Init => IInv
<1> SUFFICES ASSUME Init PROVE IInv
  OBVIOUS
<1>1. TypeOK
  BY DEF Init, TypeOK, Jobs, Waits, Idle, FilesOf, Prompt, Reply
<1>2. JobTracked /\ NoForgottenModel
  BY DEF Init, JobTracked, NoForgottenModel, Idle
<1> QED
  BY <1>1, <1>2 DEF IInv

\* Every action of IblDownload preserves the types.
LEMMA TypeStep == TypeOK /\ [Next]_vars => TypeOK'
<1> SUFFICES ASSUME TypeOK, [Next]_vars PROVE TypeOK'
  OBVIOUS
<1> USE DEF modelVars, promptVars, netVars
<1>1. ASSUME NEW m \in Managers, Open(m) PROVE TypeOK'
  BY <1>1 DEF TypeOK, Open, Waits, Idle
<1>2. ASSUME NEW m \in Managers, Reload(m) PROVE TypeOK'
  BY <1>2 DEF TypeOK, Reload
<1>3. ASSUME NEW m \in Managers, Destroy(m) PROVE TypeOK'
  BY <1>3 DEF TypeOK, Destroy, Free
<1>4. ASSUME NEW m \in Managers, NEW k \in Models, Request(m, k) PROVE TypeOK'
  BY <1>4 DEF TypeOK, Request
<1>5. ASSUME NEW m \in Managers, NEW k \in Models, StartRender(m, k) PROVE TypeOK'
  BY <1>5 DEF TypeOK, StartRender, Free, Jobs, resolveIBLPath
<1>6. ASSUME NEW m \in Managers, scheduleIBLPrompt(m) PROVE TypeOK'
  <2>1. PICK k \in Models, b \in BOOLEAN : job[m] = [pc |-> "post", model |-> k, ibl |-> b]
    BY <1>6 DEF TypeOK, scheduleIBLPrompt, Jobs, Idle
  <2>2. job'[m] \in Jobs
    BY <1>6, <2>1 DEF TypeOK, scheduleIBLPrompt, Jobs
  <2>3. [mgr |-> m, image |-> image[m][k]] \in Prompt
    BY DEF TypeOK, Prompt
  <2>4. queue' \in Seq(Prompt) /\ pendingPrompts' \subseteq Images /\ posted' \in [Images -> Nat]
    BY <1>6, <2>1, <2>3 DEF TypeOK, scheduleIBLPrompt
  <2> QED
    BY <1>6, <2>1, <2>2, <2>4 DEF TypeOK, scheduleIBLPrompt, Idle
<1>7. ASSUME NEW m \in Managers, EndRender(m) PROVE TypeOK'
  <2>1. PICK k \in Models, b \in BOOLEAN : job[m] = [pc |-> "draw", model |-> k, ibl |-> b]
    BY <1>7 DEF TypeOK, EndRender, Jobs, Idle
  <2>2. CASE UNCHANGED <<changed, shown>>
    BY <1>7, <2>2 DEF TypeOK, EndRender, Jobs, Idle
  <2>3. CASE /\ shown' = [shown EXCEPT ![m][k] = IF b THEN "ibl" ELSE "plain"]
             /\ changed' = [changed EXCEPT ![m][k] = FALSE]
    <3>1. changed' \in [Managers -> [Models -> BOOLEAN]]
      BY <2>3 DEF TypeOK
    <3>2. shown' \in [Managers -> [Models -> {"none", "plain", "ibl"}]]
      BY <2>3 DEF TypeOK
    <3> QED
      BY <1>7, <3>1, <3>2 DEF TypeOK, EndRender, Jobs, Idle
  <2> QED
    BY <1>7, <2>1, <2>2, <2>3 DEF EndRender
<1>8. CASE DeliverPrompt
  <2> DEFINE e == Head(queue)
  <2>1. e \in Prompt /\ queue' \in Seq(Prompt)
    BY <1>8 DEF TypeOK, DeliverPrompt
  <2>2. e.mgr \in Managers
    BY <2>1 DEF Prompt
  <2>3. CASE life[e.mgr] = "live" /\ dialogs' = <<e>> \o dialogs
    <3> DEFINE s == <<e>>
    <3>a. s \in Seq(Prompt) /\ Len(s) = 1 /\ s[1] = e /\ dialogs \in Seq(Prompt)
      BY <2>1 DEF TypeOK
    <3>b. dialogs' = s \o dialogs
      BY <2>3
    <3> HIDE DEF s, e
    <3>c. /\ dialogs' \in Seq(Prompt) /\ Len(dialogs') = 1 + Len(dialogs)
          /\ \A n \in 1..Len(dialogs') : dialogs'[n] = IF n <= 1 THEN s[n] ELSE dialogs[n - 1]
      BY <3>a, <3>b, ConcatProperties
    <3>d. ASSUME NEW n \in 1..Len(dialogs')
          PROVE  dialogs'[n] = e \/ \E l \in 1..Len(dialogs) : dialogs'[n] = dialogs[l]
      <4>1. Len(dialogs) \in Nat
        BY <3>a
      <4>2. CASE n = 1
        BY <3>a, <3>c, <4>2
      <4>3. CASE n # 1
        BY <3>c, <4>1, <4>3
      <4> QED
        BY <4>2, <4>3
    <3>1. /\ dialogs' \in Seq(Prompt)
          /\ \A n \in 1..Len(dialogs') :
                dialogs'[n] = e \/ \E l \in 1..Len(dialogs) : dialogs'[n] = dialogs[l]
      BY <3>c, <3>d
    <3> USE DEF e
    <3>2. touched' \subseteq {"prompt", "reply"} \X Managers
      BY <1>8, <2>2 DEF TypeOK, DeliverPrompt
    <3> HIDE DEF e
    <3> QED
      BY <1>8, <2>1, <2>2, <2>3, <3>1, <3>2 DEF TypeOK, DeliverPrompt
  <2>4. CASE dialogs' = dialogs
    BY <1>8, <2>1, <2>2, <2>4 DEF TypeOK, DeliverPrompt
  <2> QED
    BY <1>8, <2>3, <2>4 DEF DeliverPrompt
<1> DEFINE d == Head(dialogs)
<1>a. ASSUME dialogs # <<>>, dialogs' = Tail(dialogs)
      PROVE  /\ d.mgr \in Managers /\ d.image \in Images /\ life[d.mgr] = "live"
             /\ dialogs' \in Seq(Prompt)
             /\ \A n \in 1..Len(dialogs') : dialogs'[n] = dialogs[n + 1] /\ n + 1 \in 1..Len(dialogs)
  <2>1. d \in Prompt /\ d = dialogs[1] /\ 1 \in 1..Len(dialogs)
    BY <1>a DEF TypeOK
  <2>2. d.mgr \in Managers /\ d.image \in Images
    BY <2>1 DEF Prompt
  <2>3. life[d.mgr] = "live"
    BY <2>1, <2>2 DEF TypeOK
  <2>4. /\ dialogs' \in Seq(Prompt)
        /\ \A n \in 1..Len(dialogs') : dialogs'[n] = dialogs[n + 1] /\ n + 1 \in 1..Len(dialogs)
    BY <1>a DEF TypeOK
  <2> QED
    BY <2>2, <2>3, <2>4
<1> HIDE DEF d
<1>9. CASE AnswerNo
  <2>1. gui' = [pc |-> "decline", mgr |-> d.mgr, image |-> d.image]
    BY <1>9 DEF AnswerNo, d
  <2>2. gui' \in Waits /\ gui'.mgr = d.mgr
    BY <1>9, <1>a, <2>1 DEF AnswerNo, Waits
  <2> QED
    BY <1>9, <1>a, <2>2 DEF TypeOK, AnswerNo
<1>10. ASSUME NEW m \in Managers, Decline(m) PROVE TypeOK'
  BY <1>10 DEF TypeOK, Decline, Waits, Idle, WaitingFor
<1>11. CASE AnswerYes
  <2> DEFINE tasks == IF Shared \in disk THEN FilesOf(d.image) \ {Shared} ELSE FilesOf(d.image)
  <2>1. /\ replies' = replies \cup [mgr: {d.mgr}, image: {d.image}, file: tasks]
        /\ pending' = [pending EXCEPT ![d.mgr] = Cardinality(tasks)]
        /\ net' = [net EXCEPT ![d.mgr] = d.image]
    BY <1>11 DEF AnswerYes, d
  <2>2. d.mgr \in Managers /\ d.image \in Images
    BY <1>11, <1>a DEF AnswerYes
  <2>3. tasks \subseteq {Shared} \cup (Images \X Files) /\ Cardinality(tasks) \in Int
    BY <2>2, FilesFinite DEF FilesOf
  <2> HIDE DEF tasks
  <2>4. replies' \subseteq Reply
    BY <2>1, <2>2, <2>3 DEF TypeOK, Reply
  <2>5. pending' \in [Managers -> Int] /\ net' \in [Managers -> Images \cup {None}]
    BY <2>1, <2>2, <2>3 DEF TypeOK
  <2> QED
    BY <1>11, <1>a, <2>4, <2>5 DEF TypeOK, AnswerYes
<1>12. CASE AnswerYesNoDirectory
  BY <1>12, <1>a DEF TypeOK, AnswerYesNoDirectory
<1>13. ASSUME NEW r \in replies, ReplyFinished(r) PROVE TypeOK'
  BY <1>13 DEF TypeOK, ReplyFinished, Reply, Waits, Idle
<1>14. ASSUME NEW r \in replies, ReplyFinishedDead(r) PROVE TypeOK'
  BY <1>14 DEF TypeOK, ReplyFinishedDead, Reply
<1>15. ASSUME NEW m \in Managers, Complete(m) PROVE TypeOK'
  BY <1>15 DEF TypeOK, Complete, Waits, Idle
<1>16. ASSUME NEW m \in Managers, NEW k \in Models, RefreshPixmap(m, k) PROVE TypeOK'
  BY <1>16 DEF TypeOK, RefreshPixmap
<1>17. CASE UNCHANGED vars
  BY <1>17 DEF TypeOK, vars
<1> QED
  BY <1>1, <1>2, <1>3, <1>4, <1>5, <1>6, <1>7, <1>8, <1>9, <1>10, <1>11, <1>12,
     <1>13, <1>14, <1>15, <1>16, <1>17 DEF Next, Gui, User, Worker

\* One step of IblDownload; Worker and GUI actions that touch the models of a
\* manager have a step each.
LEMMA StepIInv == IInv /\ [Next]_vars => IInv'
<1> SUFFICES ASSUME IInv, [Next]_vars PROVE IInv'
  OBVIOUS
<1> USE DEF modelVars, promptVars, netVars
<1>0. TypeOK /\ TypeOK'
  BY TypeStep DEF IInv
<1> DEFINE Good(m) ==
      /\ job'[m] # Idle /\ ~job'[m].ibl =>
            \/ job'[m].model \in missing'[m]
            \/ image'[m][job'[m].model] \in declined'[m]
      /\ \A k \in Models : shown'[m][k] = "plain" =>
            k \in missing'[m] \/ changed'[m][k] \/ image'[m][k] \in declined'[m]
<1> SUFFICES ASSUME NEW q \in Managers PROVE Good(q)
  BY <1>0 DEF IInv, JobTracked, NoForgottenModel
<1>s. ASSUME shown'[q] = shown[q], changed'[q] = changed[q], image'[q] = image[q],
             missing'[q] = missing[q], declined'[q] = declined[q], job'[q] = job[q]
      PROVE  Good(q)
  BY <1>s DEF IInv, JobTracked, NoForgottenModel
<1>f. ASSUME UNCHANGED <<shown, changed, image, missing, declined, job>> PROVE Good(q)
  BY <1>f, <1>s
<1> HIDE DEF Good
<1>1. ASSUME NEW m \in Managers, Open(m) \/ Destroy(m) PROVE Good(q)
  BY <1>1, <1>f DEF Open, Destroy
<1>2. ASSUME NEW m \in Managers, Reload(m) PROVE Good(q)
  <2>1. CASE q # m
    BY <1>0, <1>2, <2>1, <1>s DEF Reload, TypeOK
  <2>2. CASE q = m
    <3>1. job'[q] = Idle /\ \A k \in Models : shown'[q][k] = "none"
      BY <1>0, <1>2, <2>2 DEF Reload, TypeOK, Free
    <3> QED
      BY <3>1 DEF Good
  <2> QED
    BY <2>1, <2>2
<1>3. ASSUME NEW m \in Managers, NEW k \in Models, Request(m, k) \/ RefreshPixmap(m, k)
      PROVE  Good(q)
  BY <1>3, <1>f DEF Request, RefreshPixmap
<1>4. ASSUME NEW m \in Managers, NEW k \in Models, StartRender(m, k) PROVE Good(q)
  <2>1. CASE q # m
    BY <1>0, <1>4, <2>1, <1>s DEF StartRender, TypeOK
  <2>2. CASE q = m
    <3>1. /\ job'[q].model = k /\ job'[q].ibl = resolveIBLPath(image[q][k])
          /\ UNCHANGED <<shown, changed, image, declined>>
      BY <1>0, <1>4, <2>2 DEF StartRender, TypeOK
    <3>2. missing[q] \subseteq missing'[q]
      BY <1>0, <1>4, <2>2 DEF StartRender, TypeOK
    <3>3. ASSUME ~resolveIBLPath(image[q][k]), image[q][k] \notin declined[q]
          PROVE  k \in missing'[q]
      BY <1>0, <1>4, <2>2, <3>3 DEF StartRender, TypeOK
    <3> QED
      BY <3>1, <3>2, <3>3 DEF Good, IInv, NoForgottenModel
  <2> QED
    BY <2>1, <2>2
<1>5. ASSUME NEW m \in Managers, scheduleIBLPrompt(m) PROVE Good(q)
  <2>1. PICK k \in Models, b \in BOOLEAN : job[m] = [pc |-> "post", model |-> k, ibl |-> b]
    BY <1>0, <1>5 DEF TypeOK, scheduleIBLPrompt, Jobs, Idle
  <2>2. job' = [job EXCEPT ![m].pc = "draw"]
    BY <1>5 DEF scheduleIBLPrompt
  <2>3. UNCHANGED <<shown, changed, image, missing, declined>>
    BY <1>5 DEF scheduleIBLPrompt
  <2>4. CASE q # m
    BY <1>0, <2>2, <2>3, <2>4, <1>s DEF TypeOK
  <2>5. CASE q = m
    <3>1. job[q] # Idle /\ job[q].model = k /\ job[q].ibl = b
      BY <2>1, <2>5 DEF Idle
    <3>2. job'[q].model = k /\ job'[q].ibl = b
      BY <1>0, <2>1, <2>2, <2>5 DEF TypeOK
    <3> QED
      BY <2>3, <3>1, <3>2 DEF Good, IInv, JobTracked, NoForgottenModel
  <2> QED
    BY <2>4, <2>5
<1>6. ASSUME NEW m \in Managers, EndRender(m) PROVE Good(q)
  <2>1. PICK k \in Models, b \in BOOLEAN : job[m] = [pc |-> "draw", model |-> k, ibl |-> b]
    BY <1>0, <1>6 DEF TypeOK, EndRender, Jobs, Idle
  <2>2. job' = [job EXCEPT ![m] = Idle] /\ UNCHANGED <<image, missing, declined>>
    BY <1>6 DEF EndRender
  <2>3. CASE q # m
    BY <1>0, <1>6, <2>1, <2>3, <1>s DEF EndRender, TypeOK
  <2>4. CASE q = m
    <3>1. job'[q] = Idle
      BY <1>0, <2>2, <2>4 DEF TypeOK
    <3>2. CASE UNCHANGED <<changed, shown>>
      BY <2>2, <3>1, <3>2 DEF Good, IInv, NoForgottenModel
    <3>3. CASE /\ shown' = [shown EXCEPT ![m][k] = IF b THEN "ibl" ELSE "plain"]
               /\ changed' = [changed EXCEPT ![m][k] = FALSE]
      <4>1. /\ shown'[q][k] = IF b THEN "ibl" ELSE "plain"
            /\ \A l \in Models \ {k} : shown'[q][l] = shown[q][l] /\ changed'[q][l] = changed[q][l]
        BY <1>0, <2>4, <3>3 DEF TypeOK
      <4>2. ~b => k \in missing[q] \/ image[q][k] \in declined[q]
        BY <2>1, <2>4 DEF IInv, JobTracked, Idle
      <4> QED
        BY <2>2, <3>1, <4>1, <4>2 DEF Good, IInv, NoForgottenModel
    <3> QED
      BY <1>6, <2>1, <3>2, <3>3 DEF EndRender
  <2> QED
    BY <2>3, <2>4
<1>7. CASE DeliverPrompt \/ AnswerNo \/ AnswerYes \/ AnswerYesNoDirectory
  BY <1>7, <1>f DEF DeliverPrompt, AnswerNo, AnswerYes, AnswerYesNoDirectory
<1>8. ASSUME NEW m \in Managers, Decline(m) PROVE Good(q)
  <2>1. CASE q # m
    BY <1>0, <1>8, <2>1, <1>s DEF Decline, TypeOK
  <2>2. CASE q = m
    <3>1. job'[q] = Idle /\ UNCHANGED <<shown, changed, image>>
      BY <1>8, <2>2 DEF Decline, Free
    <3>2. /\ declined'[q] = declined[q] \cup {gui.image}
          /\ missing'[q] = missing[q] \ WaitingFor(q, gui.image)
      BY <1>0, <1>8, <2>2 DEF Decline, TypeOK
    <3> QED
      BY <3>1, <3>2 DEF Good, IInv, NoForgottenModel, WaitingFor
  <2> QED
    BY <2>1, <2>2
<1>9. ASSUME NEW r \in replies, ReplyFinished(r) \/ ReplyFinishedDead(r) PROVE Good(q)
  BY <1>9, <1>f DEF ReplyFinished, ReplyFinishedDead
<1>10. ASSUME NEW m \in Managers, Complete(m) PROVE Good(q)
  <2>1. CASE q # m
    BY <1>0, <1>10, <2>1, <1>s DEF Complete, TypeOK
  <2>2. CASE q = m
    <3>1. job'[q] = Idle /\ UNCHANGED <<shown, image, declined>>
      BY <1>10, <2>2 DEF Complete, Free
    <3>2. \A k \in Models : changed'[q][k] = (changed[q][k] \/ k \in missing[q])
      BY <1>0, <1>10, <2>2 DEF Complete, TypeOK
    <3> QED
      BY <3>1, <3>2 DEF Good, IInv, NoForgottenModel
  <2> QED
    BY <2>1, <2>2
<1>11. CASE UNCHANGED vars
  BY <1>11, <1>f DEF vars
<1> QED
  BY <1>1, <1>2, <1>3, <1>4, <1>5, <1>6, <1>7, <1>8, <1>9, <1>10, <1>11
     DEF Next, Gui, User, Worker

\* Every reachable state is well typed; only live managers have timers,
\* requests, renders and prompts that wait for an answer.
THEOREM IblTypes == Spec => []TypeOK
<1>1. Init => TypeOK
  BY InitIInv DEF IInv
<1> QED
  BY <1>1, TypeStep, PTL DEF Spec

\* RenderModel() and the download never lose a model: one whose cached image
\* lacks its IBL is remembered, marked for a re-render, or was declined.
THEOREM NoModelForgotten == Spec => []NoForgottenModel
<1>1. IInv => NoForgottenModel
  BY DEF IInv
<1> QED
  BY InitIInv, StepIInv, <1>1, PTL DEF Spec

-----------------------------------------------------------------------------
(* A batch of downloads completes with its last reply.                     *)

Elements(s) == {s[n] : n \in 1 .. Len(s)}
Distinct(s) == \A a, b \in 1 .. Len(s) : s[a] = s[b] => a = b

\* Posting an event that is not in the queue.
LEMMA AppendDistinct ==
    ASSUME NEW S, NEW s \in Seq(S), NEW e \in S, Distinct(s), e \notin Elements(s)
    PROVE  /\ Distinct(Append(s, e))
           /\ Elements(Append(s, e)) = Elements(s) \cup {e}
<1> DEFINE t == Append(s, e)
<1>1. /\ Len(s) \in Nat /\ Len(t) = Len(s) + 1
      /\ \A n \in 1 .. Len(s) : t[n] = s[n]
      /\ t[Len(s) + 1] = e
  OBVIOUS
<1> HIDE DEF t
<1>2. Elements(t) = Elements(s) \cup {e}
  <2>1. ASSUME NEW x \in Elements(t) PROVE x \in Elements(s) \cup {e}
    <3>1. PICK n \in 1 .. Len(t) : x = t[n]
      BY <2>1 DEF Elements
    <3>2. CASE n = Len(s) + 1
      BY <1>1, <3>1, <3>2
    <3>3. CASE n # Len(s) + 1
      <4>1. n \in 1 .. Len(s)
        BY <1>1, <3>3
      <4> QED BY <1>1, <3>1, <4>1 DEF Elements
    <3> QED BY <3>2, <3>3
  <2>2. ASSUME NEW x \in Elements(s) PROVE x \in Elements(t)
    <3>1. PICK n \in 1 .. Len(s) : x = s[n]
      BY <2>2 DEF Elements
    <3>2. n \in 1 .. Len(t) /\ x = t[n]
      BY <1>1, <3>1
    <3> QED BY <3>2 DEF Elements
  <2>3. e \in Elements(t)
    <3>1. Len(s) + 1 \in 1 .. Len(t)
      BY <1>1
    <3> QED BY <1>1, <3>1 DEF Elements
  <2> QED BY <2>1, <2>2, <2>3
<1>3. \A n \in 1 .. Len(s) : s[n] # e
  BY DEF Elements
<1>4. Distinct(t)
  <2> SUFFICES ASSUME NEW a \in 1 .. Len(t), NEW b \in 1 .. Len(t), t[a] = t[b] PROVE a = b
    BY DEF Distinct
  <2>1. CASE a \in 1 .. Len(s) /\ b \in 1 .. Len(s)
    BY <1>1, <2>1 DEF Distinct
  <2>2. CASE ~(a \in 1 .. Len(s) /\ b \in 1 .. Len(s))
    BY <1>1, <1>3, <2>2
  <2> QED BY <2>1, <2>2
<1> QED BY <1>2, <1>4 DEF t

\* Taking the first event of the queue, or answering the innermost dialog.
LEMMA TailDistinct ==
    ASSUME NEW S, NEW s \in Seq(S), s # <<>>, Distinct(s)
    PROVE  /\ Distinct(Tail(s)) /\ Head(s) \in Elements(s)
           /\ Elements(Tail(s)) = Elements(s) \ {Head(s)}
<1> DEFINE t == Tail(s)
           h == Head(s)
<1>1. /\ Len(s) \in Nat /\ Len(s) >= 1 /\ Len(t) = Len(s) - 1
      /\ \A n \in 1 .. Len(t) : t[n] = s[n + 1]
      /\ h = s[1]
  OBVIOUS
<1> HIDE DEF t, h
<1>2. h \in Elements(s)
  BY <1>1 DEF Elements
<1>3. Distinct(t)
  <2> SUFFICES ASSUME NEW a \in 1 .. Len(t), NEW b \in 1 .. Len(t), t[a] = t[b] PROVE a = b
    BY DEF Distinct
  <2>1. a + 1 \in 1 .. Len(s) /\ b + 1 \in 1 .. Len(s) /\ s[a + 1] = s[b + 1]
    BY <1>1
  <2>2. a + 1 = b + 1
    BY <2>1 DEF Distinct
  <2> QED BY <2>2, <1>1
<1>4. ASSUME NEW x \in Elements(t) PROVE x \in Elements(s) \ {h}
  <2>1. PICK n \in 1 .. Len(t) : x = t[n]
    BY <1>4 DEF Elements
  <2>2. n + 1 \in 1 .. Len(s) /\ x = s[n + 1] /\ n + 1 # 1 /\ 1 \in 1 .. Len(s)
    BY <1>1, <2>1
  <2> QED BY <1>1, <2>2 DEF Elements, Distinct
<1>5. ASSUME NEW x \in Elements(s), x # h PROVE x \in Elements(t)
  <2>1. PICK n \in 1 .. Len(s) : x = s[n]
    BY <1>5 DEF Elements
  <2>2. n - 1 \in 1 .. Len(t) /\ n = (n - 1) + 1
    BY <1>1, <1>5, <2>1
  <2>3. x = t[n - 1]
    BY <1>1, <2>1, <2>2
  <2> QED BY <2>2, <2>3 DEF Elements
<1> QED BY <1>2, <1>3, <1>4, <1>5 DEF t, h

\* Opening a dialog on top of the others.
LEMMA PushDistinct ==
    ASSUME NEW S, NEW s \in Seq(S), NEW e \in S, Distinct(s), e \notin Elements(s)
    PROVE  /\ Distinct(<<e>> \o s)
           /\ Elements(<<e>> \o s) = {e} \cup Elements(s)
<1> DEFINE p == <<e>>
           t == p \o s
<1>1. p \in Seq(S) /\ Len(p) = 1 /\ p[1] = e /\ Len(s) \in Nat
  OBVIOUS
<1> HIDE DEF p
<1>2. /\ Len(t) = 1 + Len(s)
      /\ \A n \in 1 .. Len(t) : t[n] = IF n <= 1 THEN p[n] ELSE s[n - 1]
  BY <1>1, ConcatProperties
<1> HIDE DEF t
<1>3. 1 \in 1 .. Len(t) /\ t[1] = e
  BY <1>1, <1>2
<1>4. \A n \in 1 .. Len(t) : n # 1 => n - 1 \in 1 .. Len(s) /\ t[n] = s[n - 1]
  BY <1>1, <1>2
<1>5. \A n \in 1 .. Len(s) : n + 1 \in 1 .. Len(t) /\ t[n + 1] = s[n] /\ s[n] # e
  <2> SUFFICES ASSUME NEW n \in 1 .. Len(s)
               PROVE  n + 1 \in 1 .. Len(t) /\ t[n + 1] = s[n] /\ s[n] # e
    OBVIOUS
  <2>1. n + 1 \in 1 .. Len(t) /\ n + 1 # 1 /\ (n + 1) - 1 = n
    BY <1>1, <1>2
  <2> QED BY <1>4, <2>1 DEF Elements
<1>6. Elements(t) = {e} \cup Elements(s)
  <2>1. ASSUME NEW x \in Elements(t) PROVE x \in {e} \cup Elements(s)
    BY <1>3, <1>4 DEF Elements
  <2>2. ASSUME NEW x \in {e} \cup Elements(s) PROVE x \in Elements(t)
    BY <1>3, <1>5 DEF Elements
  <2> QED BY <2>1, <2>2
<1>7. Distinct(t)
  <2> SUFFICES ASSUME NEW a \in 1 .. Len(t), NEW b \in 1 .. Len(t), t[a] = t[b] PROVE a = b
    BY DEF Distinct
  <2>1. CASE a = 1 /\ b = 1
    BY <2>1
  <2>2. ASSUME NEW n \in 1 .. Len(t), n # 1 PROVE t[n] # t[1]
    <3>1. n - 1 \in 1 .. Len(s) /\ t[n] = s[n - 1]
      BY <1>4, <2>2
    <3>2. s[n - 1] # e
      BY <3>1 DEF Elements
    <3> QED BY <1>3, <3>1, <3>2
  <2>3. CASE a # 1 /\ b # 1
    <3>1. a - 1 \in 1 .. Len(s) /\ b - 1 \in 1 .. Len(s) /\ s[a - 1] = s[b - 1]
      BY <1>4, <2>3
    <3>2. a - 1 = b - 1
      BY <3>1 DEF Distinct
    <3> QED BY <3>2
  <2> QED BY <1>3, <2>1, <2>2, <2>3
<1> QED BY <1>6, <1>7 DEF t, p

\* The prompts that wait for delivery or for the user's answer.
Waiting == Elements(queue) \cup Elements(dialogs)

\* What the render of m is about to ask for.
Asking(m, i) == job[m].pc = "post" /\ image[m][job[m].model] = i

\* No manager asks for an image twice: its prompt is at one place at most.
PromptInv ==
    /\ Distinct(queue) /\ Distinct(dialogs) /\ Elements(queue) \cap Elements(dialogs) = {}
    /\ \A e \in Waiting : e.image \in pendingPrompts /\ posted[e.image] # 0
    /\ \A m \in Managers, i \in Images : Asking(m, i) => [mgr |-> m, image |-> i] \notin Waiting

RepliesOf(m) == {r \in replies : r.mgr = m}
Downloads(m) == pending[m] # 0 \/ RepliesOf(m) # {}

\* While one image i only was asked for: a manager that downloads has no
\* prompt left, and its count is that of its replies in flight.
NoPromptLeft(m, i) ==
    /\ i \in pendingPrompts /\ ~Asking(m, i)
    /\ \A e \in Waiting : e.mgr # m

Counted(m) ==
    IsFiniteSet(RepliesOf(m)) /\ pending[m] = Cardinality(RepliesOf(m))

BatchInv ==
    \A i \in Images, m \in Managers :
        Alone(i) =>
            /\ Downloads(m) => NoPromptLeft(m, i)
            /\ life[m] # "dead" => Counted(m)
            /\ gui.pc = "complete" /\ gui.mgr = m => RepliesOf(m) = {}

\* The prompts that wait are prompts.
LEMMA WaitingType ==
    ASSUME TypeOK
    PROVE  /\ Elements(queue) \subseteq Prompt /\ Elements(dialogs) \subseteq Prompt
           /\ Waiting \subseteq Prompt
BY DEF TypeOK, Elements, Waiting

\* Every step keeps a manager from asking twice.
LEMMA PromptStep == TypeOK /\ PromptInv /\ [Next]_vars => PromptInv'
<1> SUFFICES ASSUME TypeOK, PromptInv, [Next]_vars PROVE PromptInv'
  OBVIOUS
<1> USE DEF modelVars, promptVars, netVars
<1>q. queue \in Seq(Prompt) /\ dialogs \in Seq(Prompt)
  BY DEF TypeOK
<1>f. ASSUME UNCHANGED <<queue, dialogs, pendingPrompts, posted>>,
             \A m \in Managers, i \in Images : Asking(m, i)' => Asking(m, i)
      PROVE  PromptInv'
  BY <1>f DEF PromptInv, Waiting
<1>w. ASSUME UNCHANGED <<queue, dialogs, pendingPrompts, posted, image, job>> PROVE PromptInv'
  BY <1>w, <1>f DEF Asking
<1>1. ASSUME NEW m \in Managers, Reload(m) \/ EndRender(m) PROVE PromptInv'
  <2>1. /\ \A v \in Managers : v # m => job'[v] = job[v] /\ image'[v] = image[v]
        /\ job'[m] = Idle
    BY <1>1 DEF TypeOK, Reload, EndRender, Free
  <2>2. \A v \in Managers, i \in Images : Asking(v, i)' => Asking(v, i)
    BY <2>1 DEF Asking, Idle
  <2> QED BY <1>1, <1>f, <2>2 DEF Reload, EndRender
<1>2. ASSUME NEW m \in Managers, NEW k \in Models, StartRender(m, k) PROVE PromptInv'
  <2>1. /\ UNCHANGED <<queue, dialogs, pendingPrompts, posted, image>>
        /\ \A v \in Managers : v # m => job'[v] = job[v]
        /\ job'[m].pc = "post" => job'[m].model = k /\ image[m][k] \notin pendingPrompts
    BY <1>2 DEF StartRender, TypeOK
  <2>2. ASSUME NEW v \in Managers, NEW i \in Images, Asking(v, i)'
        PROVE  [mgr |-> v, image |-> i] \notin Waiting
    <3>1. CASE v = m
      <4>1. i \notin pendingPrompts
        BY <2>1, <2>2, <3>1 DEF Asking
      <4> QED BY <4>1 DEF PromptInv
    <3>2. CASE v # m
      BY <2>1, <2>2, <3>2 DEF Asking, PromptInv
    <3> QED BY <3>1, <3>2
  <2> QED BY <2>1, <2>2 DEF PromptInv, Waiting
<1>3. ASSUME NEW m \in Managers, scheduleIBLPrompt(m) PROVE PromptInv'
  <2>1. PICK k \in Models, b \in BOOLEAN : job[m] = [pc |-> "post", model |-> k, ibl |-> b]
    BY <1>3 DEF TypeOK, scheduleIBLPrompt, Jobs, Idle
  <2> DEFINE i == image[m][k]
             e == [mgr |-> m, image |-> i]
  <2>2. i \in Images /\ e \in Prompt /\ e \notin Waiting
    <3>1. i \in Images
      BY DEF TypeOK
    <3>2. Asking(m, i)
      BY <2>1 DEF Asking
    <3> QED BY <3>1, <3>2 DEF PromptInv, Prompt
  <2>3. /\ queue' = Append(queue, e) /\ dialogs' = dialogs
        /\ posted' = [posted EXCEPT ![i] = @ + 1]
        /\ pendingPrompts' = pendingPrompts \cup {i}
        /\ job' = [job EXCEPT ![m].pc = "draw"] /\ image' = image
    BY <1>3, <2>1 DEF scheduleIBLPrompt
  <2>e. e.image = i /\ e.mgr = m
    OBVIOUS
  <2> HIDE DEF e
  <2>4. Distinct(queue') /\ Elements(queue') = Elements(queue) \cup {e}
    BY <1>q, <2>2, <2>3, AppendDistinct DEF PromptInv, Waiting
  <2>5. Waiting' = Waiting \cup {e} /\ Elements(queue') \cap Elements(dialogs') = {}
    BY <2>2, <2>3, <2>4 DEF Waiting, PromptInv
  <2>6. \A x \in Waiting' : x.image \in pendingPrompts' /\ posted'[x.image] # 0
    <3> SUFFICES ASSUME NEW x \in Waiting' PROVE x.image \in pendingPrompts' /\ posted'[x.image] # 0
      OBVIOUS
    <3>1. x.image \in Images
      BY <2>2, <2>5, WaitingType DEF Prompt
    <3>2. x.image = i \/ (x.image \in pendingPrompts /\ posted[x.image] # 0)
      BY <2>5, <2>e DEF PromptInv
    <3>3. posted[x.image] \in Nat
      BY <3>1 DEF TypeOK
    <3> HIDE DEF i
    <3> QED BY <2>2, <2>3, <3>1, <3>2, <3>3 DEF TypeOK
  <2>7. ASSUME NEW v \in Managers, NEW j \in Images, Asking(v, j)'
        PROVE  [mgr |-> v, image |-> j] \notin Waiting'
    <3>1. v # m
      BY <2>1, <2>3, <2>7 DEF Asking, TypeOK
    <3>2. Asking(v, j)
      BY <2>3, <2>7, <3>1 DEF Asking, TypeOK
    <3> QED BY <2>5, <2>e, <3>1, <3>2 DEF PromptInv
  <2> QED BY <2>3, <2>4, <2>5, <2>6, <2>7 DEF PromptInv
<1>4. CASE DeliverPrompt
  <2> DEFINE e == Head(queue)
  <2>1. /\ queue # <<>> /\ queue' = Tail(queue)
        /\ dialogs' = dialogs \/ dialogs' = <<e>> \o dialogs
        /\ UNCHANGED <<pendingPrompts, posted, image, job>>
    BY <1>4 DEF DeliverPrompt
  <2>2. Distinct(queue') /\ e \in Elements(queue) /\ Elements(queue') = Elements(queue) \ {e}
    BY <1>q, <2>1, TailDistinct DEF PromptInv
  <2>3. e \in Prompt /\ e \notin Elements(dialogs)
    BY <2>2, WaitingType DEF PromptInv
  <2> HIDE DEF e
  <2>4. Distinct(dialogs') /\ Elements(dialogs') \subseteq Elements(dialogs) \cup {e}
    BY <1>q, <2>1, <2>3, PushDistinct DEF PromptInv
  <2>5. Waiting' \subseteq Waiting /\ Elements(queue') \cap Elements(dialogs') = {}
    BY <2>2, <2>4 DEF Waiting, PromptInv
  <2> QED BY <2>1, <2>2, <2>4, <2>5 DEF PromptInv, Asking
<1>5. CASE AnswerNo \/ AnswerYes \/ AnswerYesNoDirectory
  <2>1. /\ dialogs # <<>> /\ dialogs' = Tail(dialogs)
        /\ UNCHANGED <<queue, pendingPrompts, posted, image, job>>
    BY <1>5 DEF AnswerNo, AnswerYes, AnswerYesNoDirectory
  <2>2. Distinct(dialogs') /\ Elements(dialogs') \subseteq Elements(dialogs)
    BY <1>q, <2>1, TailDistinct DEF PromptInv
  <2>3. Waiting' \subseteq Waiting
    BY <2>1, <2>2 DEF Waiting
  <2> QED BY <2>1, <2>2, <2>3 DEF PromptInv, Asking
<1>6. ASSUME NEW m \in Managers, \/ Open(m) \/ Destroy(m) \/ Decline(m) \/ Complete(m)
                                 \/ \E k \in Models : Request(m, k) \/ RefreshPixmap(m, k)
      PROVE  PromptInv'
  BY <1>6, <1>w DEF Open, Destroy, Decline, Complete, Request, RefreshPixmap
<1>7. CASE \E r \in replies : ReplyFinished(r) \/ ReplyFinishedDead(r)
  BY <1>7, <1>w DEF ReplyFinished, ReplyFinishedDead
<1>8. CASE UNCHANGED vars
  BY <1>8, <1>w DEF vars
<1> QED
  BY <1>1, <1>2, <1>3, <1>4, <1>5, <1>6, <1>7, <1>8 DEF Next, Gui, User, Worker

\* A batch has as many replies as files were requested.
LEMMA BatchSize ==
    ASSUME NEW m, NEW i, NEW T, IsFiniteSet(T)
    PROVE  /\ IsFiniteSet([mgr: {m}, image: {i}, file: T])
           /\ Cardinality([mgr: {m}, image: {i}, file: T]) = Cardinality(T)
<1> DEFINE B == [mgr: {m}, image: {i}, file: T]
           f == [t \in T |-> [mgr |-> m, image |-> i, file |-> t]]
<1>1. f \in [T -> B]
  OBVIOUS
<1>2. \A s, t \in T : f[s] = f[t] => s = t
  <2> SUFFICES ASSUME NEW s \in T, NEW t \in T, f[s] = f[t] PROVE s = t
    OBVIOUS
  <2>1. f[s].file = s /\ f[t].file = t
    OBVIOUS
  <2> HIDE DEF f
  <2> QED BY <2>1
<1>3. \A b \in B : \E t \in T : f[t] = b
  OBVIOUS
<1> HIDE DEF f, B
<1>4. f \in Bijection(T, B)
  BY <1>1, <1>2, <1>3 DEF Bijection, Injection, Surjection, IsInjective
<1>5. ExistsBijection(T, B)
  BY <1>4 DEF ExistsBijection
<1> QED BY <1>5, FS_Bijection DEF B

\* Every step keeps the count of a batch.
LEMMA BatchStep ==
    TypeOK /\ TypeOK' /\ PromptInv /\ BatchInv /\ [Next]_vars => BatchInv'
<1> SUFFICES ASSUME TypeOK, TypeOK', PromptInv, BatchInv, [Next]_vars,
                    NEW i \in Images, NEW m \in Managers, Alone(i)'
             PROVE  /\ Downloads(m)' => NoPromptLeft(m, i)'
                    /\ life'[m] # "dead" => Counted(m)'
                    /\ gui'.pc = "complete" /\ gui'.mgr = m => RepliesOf(m)' = {}
  BY DEF BatchInv
<1> DEFINE Goal == /\ Downloads(m)' => NoPromptLeft(m, i)'
                   /\ life'[m] # "dead" => Counted(m)'
                   /\ gui'.pc = "complete" /\ gui'.mgr = m => RepliesOf(m)' = {}
<1> SUFFICES Goal
  OBVIOUS
<1> USE DEF modelVars, promptVars, netVars
<1>a. Alone(i)
  <2>1. \A j \in Images : posted'[j] = 0 => posted[j] = 0
    <3>1. CASE UNCHANGED posted
      BY <3>1
    <3>2. ASSUME NEW v \in Managers, scheduleIBLPrompt(v)
          PROVE  \A j \in Images : posted'[j] = 0 => posted[j] = 0
      BY <3>2 DEF scheduleIBLPrompt, TypeOK
    <3> QED
      BY <3>1, <3>2
         DEF Next, Gui, User, Worker, Open, Reload, Destroy, Request, StartRender, EndRender,
             DeliverPrompt, AnswerNo, Decline, AnswerYes, AnswerYesNoDirectory,
             ReplyFinished, ReplyFinishedDead, Complete, RefreshPixmap, vars
  <2> QED BY <2>1 DEF Alone
<1>i. /\ Downloads(m) => NoPromptLeft(m, i)
      /\ life[m] # "dead" => Counted(m)
      /\ gui.pc = "complete" /\ gui.mgr = m => RepliesOf(m) = {}
  BY <1>a DEF BatchInv
<1>n. ASSUME NEW e \in Waiting PROVE e.image = i
  <2>1. e.image \in Images /\ posted[e.image] # 0
    BY WaitingType DEF PromptInv, Prompt
  <2> QED BY <2>1, <1>a DEF Alone
\* What is left to show when the replies, their count and the wait of the
\* GUI thread do not change.
<1>k. ASSUME UNCHANGED <<replies, pending, pendingPrompts>>, Waiting' \subseteq Waiting,
             gui' = gui \/ gui'.pc # "complete", life'[m] # "dead" => life[m] # "dead",
             Asking(m, i)' => Asking(m, i) \/ i \notin pendingPrompts
      PROVE  Goal
  <2>1. RepliesOf(m)' = RepliesOf(m) /\ Downloads(m)' = Downloads(m) /\ Counted(m)' = Counted(m)
    BY <1>k DEF RepliesOf, Downloads, Counted
  <2>2. NoPromptLeft(m, i) => NoPromptLeft(m, i)'
    BY <1>k DEF NoPromptLeft
  <2> QED BY <1>i, <1>k, <2>1, <2>2
<1>w. ASSUME UNCHANGED <<queue, dialogs>> PROVE Waiting' = Waiting
  BY <1>w DEF Waiting
<1>l. \A v \in Managers : life[v] # "live" => ~(gui # Idle /\ gui.mgr = v)
  BY DEF TypeOK
<1> HIDE DEF Goal
<1>1. ASSUME NEW v \in Managers, Open(v) \/ Destroy(v) PROVE Goal
  <2>1. life'[m] # "dead" => life[m] # "dead"
    BY <1>1 DEF Open, Destroy, TypeOK
  <2> QED BY <1>1, <1>k, <1>w, <2>1 DEF Open, Destroy, Asking
<1>2. ASSUME NEW v \in Managers, Reload(v) \/ EndRender(v) PROVE Goal
  <2>1. /\ \A u \in Managers : u # v => job'[u] = job[u] /\ image'[u] = image[u]
        /\ job'[v] = Idle
    BY <1>2 DEF TypeOK, Reload, EndRender, Free
  <2>2. Asking(m, i)' => Asking(m, i)
    BY <2>1 DEF Asking, Idle
  <2> QED BY <1>2, <1>k, <1>w, <2>2 DEF Reload, EndRender
<1>3. ASSUME NEW v \in Managers, NEW k \in Models, StartRender(v, k) PROVE Goal
  <2>1. /\ UNCHANGED image
        /\ \A u \in Managers : u # v => job'[u] = job[u]
        /\ job'[v].pc = "post" => job'[v].model = k /\ image[v][k] \notin pendingPrompts
    BY <1>3 DEF StartRender, TypeOK
  <2>2. Asking(m, i)' => Asking(m, i) \/ i \notin pendingPrompts
    BY <2>1 DEF Asking
  <2> QED BY <1>3, <1>k, <1>w, <2>2 DEF StartRender
<1>4. ASSUME NEW v \in Managers, scheduleIBLPrompt(v) PROVE Goal
  <2>1. PICK k \in Models, b \in BOOLEAN : job[v] = [pc |-> "post", model |-> k, ibl |-> b]
    BY <1>4 DEF TypeOK, scheduleIBLPrompt, Jobs, Idle
  <2>2. /\ queue' = Append(queue, [mgr |-> v, image |-> image[v][k]]) /\ dialogs' = dialogs
        /\ posted' = [posted EXCEPT ![image[v][k]] = @ + 1]
        /\ pendingPrompts' = pendingPrompts \cup {image[v][k]}
        /\ job' = [job EXCEPT ![v].pc = "draw"]
        /\ UNCHANGED <<image, life, gui, replies, pending>>
    BY <1>4, <2>1 DEF scheduleIBLPrompt
  <2>3. image[v][k] = i
    <3>1. image[v][k] \in Images /\ posted[image[v][k]] \in Nat
      BY DEF TypeOK
    <3>2. posted'[image[v][k]] # 0
      BY <2>2, <3>1 DEF TypeOK
    <3> QED BY <3>1, <3>2 DEF Alone
  <2>4. Asking(v, i)
    BY <2>1, <2>3 DEF Asking
  <2>5. Waiting' = Waiting \cup {[mgr |-> v, image |-> i]}
    <3>1. [mgr |-> v, image |-> i] \in Prompt /\ [mgr |-> v, image |-> i] \notin Waiting
      BY <2>4 DEF PromptInv, Prompt
    <3>2. queue \in Seq(Prompt)
      BY DEF TypeOK
    <3>3. Elements(queue') = Elements(queue) \cup {[mgr |-> v, image |-> i]}
      BY <2>2, <2>3, <3>1, <3>2, AppendDistinct DEF PromptInv, Waiting
    <3> QED BY <2>2, <3>3 DEF Waiting
  <2>6. RepliesOf(m)' = RepliesOf(m) /\ Downloads(m)' = Downloads(m) /\ Counted(m)' = Counted(m)
    BY <2>2 DEF RepliesOf, Downloads, Counted
  <2>7. Downloads(m) => NoPromptLeft(m, i)'
    <3> SUFFICES ASSUME Downloads(m) PROVE NoPromptLeft(m, i)'
      OBVIOUS
    <3>1. NoPromptLeft(m, i)
      BY <1>i
    <3>2. m # v
      BY <2>4, <3>1 DEF NoPromptLeft
    <3>3. ~Asking(m, i)'
      BY <2>2, <3>1, <3>2 DEF Asking, NoPromptLeft, TypeOK
    <3>4. \A e \in Waiting' : e.mgr # m
      BY <2>5, <3>1, <3>2 DEF NoPromptLeft
    <3> QED BY <2>2, <3>1, <3>3, <3>4 DEF NoPromptLeft
  <2> QED BY <1>i, <2>2, <2>6, <2>7 DEF Goal
<1>5. CASE DeliverPrompt
  <2>1. /\ queue # <<>> /\ queue' = Tail(queue)
        /\ dialogs' = dialogs \/ dialogs' = <<Head(queue)>> \o dialogs
        /\ UNCHANGED <<pendingPrompts, image, job, replies, pending, gui, life>>
    BY <1>5 DEF DeliverPrompt
  <2>q. queue \in Seq(Prompt) /\ dialogs \in Seq(Prompt)
    BY DEF TypeOK
  <2>2. Head(queue) \in Elements(queue) /\ Elements(queue') \subseteq Elements(queue)
    BY <2>q, <2>1, TailDistinct DEF PromptInv
  <2>3. Head(queue) \in Prompt /\ Head(queue) \notin Elements(dialogs)
    BY <2>2, WaitingType DEF PromptInv
  <2>4. Elements(dialogs') \subseteq Elements(dialogs) \cup {Head(queue)}
    <3>1. CASE dialogs' = dialogs
      BY <3>1
    <3>2. CASE dialogs' = <<Head(queue)>> \o dialogs
      BY <2>q, <2>3, <3>2, PushDistinct DEF PromptInv
    <3> QED BY <2>1, <3>1, <3>2
  <2>5. Waiting' \subseteq Waiting
    BY <2>2, <2>4 DEF Waiting
  <2> QED BY <1>k, <2>1, <2>5 DEF Asking
<1> DEFINE d == Head(dialogs)
<1>d. ASSUME dialogs # <<>>, dialogs' = Tail(dialogs), UNCHANGED queue
      PROVE  /\ d \in Prompt /\ d \in Waiting /\ d.mgr \in Managers /\ d.image \in Images
             /\ Waiting' = Waiting \ {d}
  <2>1. /\ d \in Elements(dialogs) /\ Elements(dialogs') = Elements(dialogs) \ {d}
        /\ dialogs \in Seq(Prompt)
    BY <1>d, TailDistinct DEF PromptInv, TypeOK
  <2>2. d \in Prompt /\ d \notin Elements(queue)
    BY <2>1, WaitingType DEF PromptInv
  <2>3. d.mgr \in Managers /\ d.image \in Images
    BY <2>2 DEF Prompt
  <2> QED BY <1>d, <2>1, <2>2, <2>3 DEF Waiting
<1>6. CASE AnswerNo \/ AnswerYesNoDirectory
  <2>1. Waiting' \subseteq Waiting
    BY <1>6, <1>d DEF AnswerNo, AnswerYesNoDirectory
  <2>2. gui' = gui \/ gui'.pc # "complete"
    BY <1>6 DEF AnswerNo, AnswerYesNoDirectory
  <2> QED BY <1>6, <1>k, <2>1, <2>2 DEF AnswerNo, AnswerYesNoDirectory, Asking
<1>7. CASE AnswerYes
  <2> DEFINE tasks == IF Shared \in disk THEN FilesOf(d.image) \ {Shared} ELSE FilesOf(d.image)
             batch == [mgr: {d.mgr}, image: {d.image}, file: tasks]
  <2>1. /\ replies' = replies \cup batch
        /\ pending' = [pending EXCEPT ![d.mgr] = Cardinality(tasks)]
        /\ UNCHANGED <<life, gui, pendingPrompts, image, job>> /\ gui = Idle
    BY <1>7 DEF AnswerYes, d
  <2>2. /\ d \in Prompt /\ d \in Waiting /\ d.mgr \in Managers /\ d.image \in Images
        /\ Waiting' = Waiting \ {d}
    BY <1>7, <1>d DEF AnswerYes
  <2>3. d.image = i
    BY <2>2, <1>n
  <2>4. IsFiniteSet(tasks)
    BY <2>2, FilesFinite
  <2>5. IsFiniteSet(batch) /\ Cardinality(batch) = Cardinality(tasks)
    <3> HIDE DEF tasks, d
    <3>1. /\ IsFiniteSet([mgr: {d.mgr}, image: {d.image}, file: tasks])
          /\ Cardinality([mgr: {d.mgr}, image: {d.image}, file: tasks]) = Cardinality(tasks)
      BY <2>4, BatchSize
    <3> QED BY <3>1
  <2>6. \A r \in batch : r.mgr = d.mgr
    OBVIOUS
  <2>g. gui'.pc # "complete"
    BY <2>1 DEF Idle
  <2> HIDE DEF tasks, batch, d
  <2>7. CASE m # d.mgr
    <3>1. RepliesOf(m)' = RepliesOf(m) /\ pending'[m] = pending[m]
      BY <2>1, <2>2, <2>6, <2>7 DEF RepliesOf, TypeOK
    <3>2. Downloads(m)' = Downloads(m) /\ Counted(m)' = Counted(m)
      BY <3>1 DEF Downloads, Counted
    <3>3. NoPromptLeft(m, i) => NoPromptLeft(m, i)'
      BY <2>1, <2>2 DEF NoPromptLeft, Asking
    <3> QED BY <1>i, <2>1, <2>g, <3>2, <3>3 DEF Goal
  <2>8. CASE m = d.mgr
    <3>1. ~Downloads(m)
      BY <1>i, <2>2, <2>8 DEF NoPromptLeft
    <3>2. RepliesOf(m)' = batch
      BY <2>1, <2>6, <2>8, <3>1 DEF Downloads, RepliesOf
    <3>3. pending'[m] = Cardinality(tasks)
      BY <2>1, <2>8 DEF TypeOK
    <3>4. Counted(m)'
      BY <2>5, <3>2, <3>3 DEF Counted
    <3>5. NoPromptLeft(m, i)'
      <4>1. i \in pendingPrompts
        BY <2>2, <2>3 DEF PromptInv
      <4>2. [mgr |-> m, image |-> i] = d
        BY <2>2, <2>3, <2>8 DEF Prompt
      <4>3. ~Asking(m, i)
        BY <2>2, <4>2 DEF PromptInv
      <4>4. ASSUME NEW e \in Waiting, e.mgr = m PROVE e = d
        <5>1. e \in Prompt /\ e.image = i
          BY <1>n, WaitingType
        <5> QED BY <4>2, <4>4, <5>1 DEF Prompt
      <4> QED BY <2>1, <2>2, <4>1, <4>3, <4>4 DEF NoPromptLeft, Asking
    <3> QED BY <2>g, <3>4, <3>5 DEF Goal
  <2> QED BY <2>7, <2>8
<1>8. ASSUME NEW v \in Managers, Decline(v) PROVE Goal
  BY <1>8, <1>k, <1>w DEF Decline, Asking, Idle
<1>9. ASSUME NEW r \in replies, ReplyFinished(r) PROVE Goal
  <2>1. /\ replies' = replies \ {r} /\ pending' = [pending EXCEPT ![r.mgr] = @ - 1]
        /\ gui' = IF pending[r.mgr] = 1 THEN [pc |-> "complete", mgr |-> r.mgr] ELSE Idle
        /\ life[r.mgr] = "live"
        /\ UNCHANGED <<life, queue, dialogs, pendingPrompts, image, job>>
    BY <1>9 DEF ReplyFinished
  <2>2. r.mgr \in Managers
    BY DEF TypeOK, Reply
  <2>3. NoPromptLeft(m, i) => NoPromptLeft(m, i)'
    BY <2>1, <1>w DEF NoPromptLeft, Asking
  <2>4. CASE m # r.mgr
    <3>1. RepliesOf(m)' = RepliesOf(m) /\ pending'[m] = pending[m]
      BY <2>1, <2>2, <2>4 DEF RepliesOf, TypeOK
    <3>2. Downloads(m)' = Downloads(m) /\ Counted(m)' = Counted(m)
      BY <3>1 DEF Downloads, Counted
    <3>3. ~(gui'.pc = "complete" /\ gui'.mgr = m)
      BY <2>1, <2>4 DEF Idle
    <3> QED BY <1>i, <2>1, <2>3, <3>2, <3>3 DEF Goal
  <2>5. CASE m = r.mgr
    <3>1. r \in RepliesOf(m) /\ RepliesOf(m)' = RepliesOf(m) \ {r}
      BY <2>1, <2>5 DEF RepliesOf
    <3>2. Counted(m) /\ Downloads(m)
      BY <1>i, <2>1, <2>5, <3>1 DEF Downloads
    <3>3. /\ IsFiniteSet(RepliesOf(m) \ {r})
          /\ Cardinality(RepliesOf(m) \ {r}) = Cardinality(RepliesOf(m)) - 1
          /\ Cardinality(RepliesOf(m)) \in Nat
      BY <3>1, <3>2, FS_RemoveElement, FS_CardinalityType DEF Counted
    <3>4. pending'[m] = pending[m] - 1
      BY <2>1, <2>2, <2>5 DEF TypeOK
    <3>5. Counted(m)'
      BY <3>1, <3>2, <3>3, <3>4 DEF Counted
    <3>6. gui'.pc = "complete" => RepliesOf(m)' = {}
      <4>1. gui'.pc = "complete" => pending[m] = 1
        BY <2>1, <2>5 DEF Idle
      <4>2. pending[m] = 1 => Cardinality(RepliesOf(m) \ {r}) = 0
        BY <3>2, <3>3 DEF Counted
      <4> QED BY <3>1, <3>3, <4>1, <4>2, FS_EmptySet
    <3> QED BY <1>i, <2>3, <3>2, <3>5, <3>6 DEF Goal
  <2> QED BY <2>4, <2>5
<1>10. ASSUME NEW r \in replies, ReplyFinishedDead(r) PROVE Goal
  <2>1. /\ replies' = replies \ {r} /\ gui = Idle /\ life[r.mgr] = "dead"
        /\ UNCHANGED <<pending, gui, life, queue, dialogs, pendingPrompts, image, job>>
    BY <1>10 DEF ReplyFinishedDead
  <2>3. NoPromptLeft(m, i) => NoPromptLeft(m, i)'
    BY <2>1, <1>w DEF NoPromptLeft, Asking
  <2>4. RepliesOf(m)' \subseteq RepliesOf(m) /\ (Downloads(m)' => Downloads(m))
    BY <2>1 DEF RepliesOf, Downloads
  <2>5. life[m] # "dead" => Counted(m)'
    <3> SUFFICES ASSUME life[m] # "dead" PROVE Counted(m)'
      OBVIOUS
    <3>1. RepliesOf(m)' = RepliesOf(m)
      BY <2>1 DEF RepliesOf
    <3> QED BY <1>i, <2>1, <3>1 DEF Counted
  <2> QED BY <1>i, <2>1, <2>3, <2>4, <2>5 DEF Goal, Idle
<1>11. ASSUME NEW v \in Managers, Complete(v) PROVE Goal
  <2>1. /\ gui.pc = "complete" /\ gui.mgr = v /\ gui' = Idle
        /\ replies' = {r \in replies : ~(r.mgr = v /\ r.image = net[v])}
        /\ UNCHANGED <<pending, life, queue, dialogs, pendingPrompts, image, job>>
    BY <1>11 DEF Complete
  <2>2. NoPromptLeft(m, i) => NoPromptLeft(m, i)'
    BY <2>1, <1>w DEF NoPromptLeft, Asking
  <2>3. RepliesOf(m)' = RepliesOf(m)
    <3>1. CASE m = v
      BY <1>i, <2>1, <3>1 DEF RepliesOf
    <3>2. CASE m # v
      BY <2>1, <3>2 DEF RepliesOf
    <3> QED BY <3>1, <3>2
  <2>4. Downloads(m)' = Downloads(m) /\ Counted(m)' = Counted(m)
    BY <2>1, <2>3 DEF Downloads, Counted
  <2> QED BY <1>i, <2>1, <2>2, <2>4 DEF Goal, Idle
<1>12. ASSUME NEW v \in Managers, NEW k \in Models, Request(v, k) \/ RefreshPixmap(v, k)
       PROVE  Goal
  BY <1>12, <1>k, <1>w DEF Request, RefreshPixmap, Asking
<1>13. CASE UNCHANGED vars
  BY <1>13, <1>k, <1>w DEF vars, Asking
<1> QED
  BY <1>1, <1>2, <1>3, <1>4, <1>5, <1>6, <1>7, <1>8, <1>9, <1>10, <1>11, <1>12, <1>13
     DEF Next, Gui, User, Worker

\* However many documents ask for one image, whatever they decline, reload or
\* close meanwhile: onIBLDownloadComplete() finds no reply of its batch in
\* flight, so that the network manager it deletes cancels no download.
THEOREM LastReplyIsLast == Spec => []LastReplyCompletes
<1>1. Init => TypeOK /\ PromptInv /\ BatchInv
  <2> SUFFICES ASSUME Init PROVE TypeOK /\ PromptInv /\ BatchInv
    OBVIOUS
  <2>1. TypeOK
    BY InitIInv DEF IInv
  <2>2. Elements(queue) = {} /\ Elements(dialogs) = {} /\ Waiting = {}
    BY DEF Init, Elements, Waiting
  <2>3. PromptInv
    BY <2>2 DEF Init, PromptInv, Distinct
  <2>4. ASSUME NEW m \in Managers PROVE RepliesOf(m) = {} /\ pending[m] = 0
    BY DEF Init, RepliesOf
  <2>5. BatchInv
    BY <2>4, FS_EmptySet DEF BatchInv, Downloads, Counted
  <2> QED BY <2>1, <2>3, <2>5
<1>2. TypeOK /\ PromptInv /\ BatchInv /\ [Next]_vars => (TypeOK /\ PromptInv /\ BatchInv)'
  BY TypeStep, PromptStep, BatchStep
<1>3. TypeOK /\ BatchInv => LastReplyCompletes
  <2> SUFFICES ASSUME TypeOK, BatchInv, NEW i \in Images, Alone(i), gui.pc = "complete",
                      NEW r \in replies
               PROVE  r.mgr # gui.mgr
    BY DEF LastReplyCompletes
  <2>1. r.mgr \in Managers
    BY DEF TypeOK, Reply
  <2> QED BY <2>1 DEF BatchInv, RepliesOf
<1> QED
  BY <1>1, <1>2, <1>3, PTL DEF Spec

-----------------------------------------------------------------------------
(* How often the user is asked when several documents are open.            *)

\* The managers whose worker has found an image not asked for, and is about
\* to ask; each of them passed the test of the static set before anyone
\* inserted the image, and will ask once.
Posting(i) == {m \in Managers : Asking(m, i)}

EachInv ==
    \A i \in Images :
        /\ i \notin pendingPrompts => posted[i] = 0
        /\ posted[i] + Cardinality(Posting(i)) <= Cardinality(Managers)

\* Every step keeps it: once an image is in the set nobody new gets to ask.
LEMMA EachStep ==
    ASSUME IsFiniteSet(Managers)
    PROVE  TypeOK /\ EachInv /\ [Next]_vars => EachInv'
<1> SUFFICES ASSUME TypeOK, EachInv, [Next]_vars, NEW i \in Images
             PROVE  /\ i \notin pendingPrompts' => posted'[i] = 0
                    /\ posted'[i] + Cardinality(Posting(i)') <= Cardinality(Managers)
  BY DEF EachInv
<1> USE DEF modelVars, promptVars, netVars
<1>c. /\ IsFiniteSet(Posting(i)) /\ IsFiniteSet(Posting(i)')
      /\ Cardinality(Posting(i)) \in Nat /\ Cardinality(Posting(i)') \in Nat
      /\ Cardinality(Posting(i)') <= Cardinality(Managers) /\ Cardinality(Managers) \in Nat
  <2>1. Posting(i) \subseteq Managers /\ Posting(i)' \subseteq Managers
    BY DEF Posting
  <2> QED BY <2>1, FS_Subset, FS_CardinalityType
<1>p. posted[i] \in Nat
  BY DEF TypeOK
<1>1. ASSUME UNCHANGED <<posted, pendingPrompts>>,
             i \in pendingPrompts => \A m \in Managers : Asking(m, i)' => Asking(m, i)
      PROVE  /\ i \notin pendingPrompts' => posted'[i] = 0
             /\ posted'[i] + Cardinality(Posting(i)') <= Cardinality(Managers)
  <2>1. CASE i \notin pendingPrompts
    BY <1>1, <1>c, <2>1 DEF EachInv
  <2>2. CASE i \in pendingPrompts
    <3>1. Posting(i)' \subseteq Posting(i)
      BY <1>1, <2>2 DEF Posting
    <3>2. Cardinality(Posting(i)') <= Cardinality(Posting(i))
      BY <3>1, <1>c, FS_Subset
    <3> QED BY <1>1, <1>c, <1>p, <2>2, <3>2 DEF EachInv
  <2> QED BY <2>1, <2>2
<1>2. ASSUME NEW m \in Managers, scheduleIBLPrompt(m)
      PROVE  /\ i \notin pendingPrompts' => posted'[i] = 0
             /\ posted'[i] + Cardinality(Posting(i)') <= Cardinality(Managers)
  <2>1. PICK k \in Models, b \in BOOLEAN : job[m] = [pc |-> "post", model |-> k, ibl |-> b]
    BY <1>2 DEF TypeOK, scheduleIBLPrompt, Jobs, Idle
  <2>2. /\ posted' = [posted EXCEPT ![image[m][k]] = @ + 1]
        /\ pendingPrompts' = pendingPrompts \cup {image[m][k]}
        /\ job' = [job EXCEPT ![m].pc = "draw"] /\ UNCHANGED image
    BY <1>2, <2>1 DEF scheduleIBLPrompt
  <2>3. \A v \in Managers : Asking(v, i)' <=> Asking(v, i) /\ v # m
    BY <2>1, <2>2 DEF Asking, TypeOK
  <2>4. CASE image[m][k] = i
    <3>1. m \in Posting(i) /\ Posting(i)' = Posting(i) \ {m}
      BY <2>1, <2>3, <2>4 DEF Posting, Asking
    <3>2. Cardinality(Posting(i)') = Cardinality(Posting(i)) - 1
      BY <3>1, <1>c, FS_RemoveElement
    <3>3. posted'[i] = posted[i] + 1
      BY <2>2, <2>4 DEF TypeOK
    <3> QED BY <1>c, <1>p, <2>2, <2>4, <3>2, <3>3 DEF EachInv
  <2>5. CASE image[m][k] # i
    <3>1. Posting(i)' \subseteq Posting(i)
      BY <2>3 DEF Posting
    <3>2. Cardinality(Posting(i)') <= Cardinality(Posting(i))
      BY <3>1, <1>c, FS_Subset
    <3>3. posted'[i] = posted[i]
      BY <2>2, <2>5 DEF TypeOK
    <3> QED BY <1>c, <1>p, <2>2, <2>5, <3>2, <3>3 DEF EachInv
  <2> QED BY <2>4, <2>5
<1>3. ASSUME NEW v \in Managers, Reload(v) \/ EndRender(v)
      PROVE  \A m \in Managers : Asking(m, i)' => Asking(m, i)
  <2>1. /\ \A u \in Managers : u # v => job'[u] = job[u] /\ image'[u] = image[u]
        /\ job'[v] = Idle
    BY <1>3 DEF TypeOK, Reload, EndRender, Free
  <2> QED BY <2>1 DEF Asking, Idle
<1>4. ASSUME NEW v \in Managers, NEW k \in Models, StartRender(v, k), i \in pendingPrompts
      PROVE  \A m \in Managers : Asking(m, i)' => Asking(m, i)
  <2>1. /\ UNCHANGED image
        /\ \A u \in Managers : u # v => job'[u] = job[u]
        /\ job'[v].pc = "post" => job'[v].model = k /\ image[v][k] \notin pendingPrompts
    BY <1>4 DEF StartRender, TypeOK
  <2> QED BY <1>4, <2>1 DEF Asking
<1>5. ASSUME UNCHANGED <<posted, pendingPrompts, image, job>>
      PROVE  /\ i \notin pendingPrompts' => posted'[i] = 0
             /\ posted'[i] + Cardinality(Posting(i)') <= Cardinality(Managers)
  BY <1>1, <1>5 DEF Asking
<1>6. CASE \E v \in Managers : \/ Reload(v) \/ EndRender(v)
                               \/ \E k \in Models : StartRender(v, k)
  BY <1>1, <1>3, <1>4, <1>6 DEF Reload, EndRender, StartRender
<1>7. CASE \E m \in Managers : scheduleIBLPrompt(m)
  BY <1>2, <1>7
<1>8. CASE \/ \E m \in Managers : \/ Open(m) \/ Destroy(m) \/ Decline(m) \/ Complete(m)
                                  \/ \E k \in Models : Request(m, k) \/ RefreshPixmap(m, k)
           \/ DeliverPrompt \/ AnswerNo \/ AnswerYes \/ AnswerYesNoDirectory
           \/ \E r \in replies : ReplyFinished(r) \/ ReplyFinishedDead(r)
           \/ UNCHANGED vars
  <2>1. UNCHANGED <<posted, pendingPrompts, image, job>>
    BY <1>8 DEF Open, Destroy, Decline, Complete, Request, RefreshPixmap, DeliverPrompt,
                AnswerNo, AnswerYes, AnswerYesNoDirectory, ReplyFinished, ReplyFinishedDead, vars
  <2> QED BY <1>5, <2>1
<1> QED
  BY <1>6, <1>7, <1>8 DEF Next, Gui, User, Worker

\* scheduleIBLPrompt() tests and inserts in two steps of a lock that is not
\* shared; still the user is asked for an image at most once per document,
\* however often it is rendered, declined, downloaded or reloaded.
THEOREM AskedOncePerManager ==
    ASSUME IsFiniteSet(Managers)
    PROVE  Spec => []AskedByEach
<1>1. Init => TypeOK /\ EachInv
  <2> SUFFICES ASSUME Init PROVE TypeOK /\ EachInv
    OBVIOUS
  <2>1. \A i \in Images : Posting(i) = {}
    BY DEF Init, Posting, Asking, Idle
  <2>2. Cardinality(Managers) \in Nat
    BY FS_CardinalityType
  <2>3. ASSUME NEW i \in Images
        PROVE  posted[i] = 0 /\ posted[i] + Cardinality(Posting(i)) <= Cardinality(Managers)
    <3>1. posted[i] = 0
      BY DEF Init
    <3>2. Cardinality(Posting(i)) = 0
      BY <2>1, FS_EmptySet
    <3> QED BY <2>2, <3>1, <3>2
  <2>4. EachInv
    BY <2>3 DEF EachInv
  <2> QED BY <2>4, InitIInv DEF IInv
<1>2. TypeOK /\ EachInv /\ [Next]_vars => TypeOK' /\ EachInv'
  BY TypeStep, EachStep
<1>3. TypeOK /\ EachInv => AskedByEach
  <2> SUFFICES ASSUME TypeOK, EachInv, NEW i \in Images PROVE posted[i] <= Cardinality(Managers)
    BY DEF AskedByEach
  <2>1. Posting(i) \subseteq Managers
    BY DEF Posting
  <2>2. Cardinality(Posting(i)) \in Nat /\ Cardinality(Managers) \in Nat /\ posted[i] \in Nat
    BY <2>1, FS_Subset, FS_CardinalityType DEF TypeOK
  <2> QED BY <2>2 DEF EachInv
<1> QED
  BY <1>1, <1>2, <1>3, PTL DEF Spec

\* With one document in the process the user is asked for an image at most
\* once.  (With two, both workers may find the static set without the image.)
THEOREM AskedAtMostOnce ==
    ASSUME NEW v, Managers = {v}
    PROVE  Spec => []AskedOnce
<1>1. IsFiniteSet(Managers) /\ Cardinality(Managers) = 1
  BY FS_Singleton
<1>2. Spec => []AskedByEach
  BY <1>1, AskedOncePerManager
<1>3. AskedByEach => AskedOnce
  BY <1>1 DEF AskedByEach, AskedOnce
<1> QED
  BY <1>2, <1>3, PTL
=============================================================================
