------------------------ MODULE PageViewBindingProofs ------------------------
(***************************************************************************)
(* Proofs about PageViewBinding, for any number of windows and of queued   *)
(* events.  That the manager finds its own view is proved where every view *)
(* has a window of its own and the windows show different files; with      *)
(* tabs, or one file in two windows, it may end on the wrong view, but its *)
(* mouse filter is on that view alone.                                     *)
(***************************************************************************)
EXTENDS PageViewBinding, TLAPS

\* A manager that does not exist holds nothing; one that exists has its view.
LifeCycle ==
    IF phase = "gone"
    THEN bound = None /\ ~pending /\ observer = None
    ELSE Own \in views

\* While the manager waits and has missed nothing, its event is in the queue.
WaitsForEvent ==
    pending /\ ~missed => \E i \in 1..Len(queue) : queue[i] = "own"

\* Where every view has a window of its own and no other window shows the
\* file, the url of the document names its view.
UrlIsUnique == ~Tabbed /\ ~SameUrl

\* There, a manager whose view has made a request is bound to it or waits.
BoundOrWaits ==
    UrlIsUnique /\ observer # None /\ ~missed => bound = Own \/ pending

Inv ==
    /\ TypeOK
    /\ FilterOnBoundView
    /\ LifeCycle
    /\ WaitsForEvent
    /\ BoundOrWaits

\* No window and no manager.
LEMMA InitInv == Init => Inv
  <1> SUFFICES ASSUME Init PROVE Inv
    OBVIOUS
  <1>1. <<>> \in Seq({"own", "other"}) /\ Len(<<>>) = 0 /\ 0 <= MaxEvents
    BY ViewAssumption
  <1>2. TypeOK
    BY <1>1 DEF Init, TypeOK
  <1> QED
    BY <1>2 DEF Init, Inv, FilterOnBoundView, LifeCycle, WaitsForEvent, BoundOrWaits

\* What is resolved is a live view, or none.
LEMMA ResolvesToView ==
  ASSUME TypeOK
  PROVE  resolvePageView \subseteq views \cup {None}
  BY DEF TypeOK, resolvePageView, resolvePageViewHeuristic, resolvePageViewForDocument

\* Where the url is unique, an open document resolves to
\* its own view.
LEMMA ResolvesToOwn ==
  ASSUME UrlIsUnique, phase = "open", Own \in views
  PROVE  resolvePageView = {Own}
  BY DEF UrlIsUnique, resolvePageView, resolvePageViewForDocument

\* Taking the first event leaves the others.
LEMMA TailFacts ==
  ASSUME NEW S, NEW q \in Seq(S), q # <<>>
  PROVE  /\ Tail(q) \in Seq(S)
         /\ Len(Tail(q)) = Len(q) - 1
         /\ \A e : (\E i \in 1..Len(q) : q[i] = e) /\ Head(q) # e
                      => \E i \in 1..Len(Tail(q)) : Tail(q)[i] = e
  <1>1. /\ Tail(q) \in Seq(S)
        /\ Len(Tail(q)) = Len(q) - 1
        /\ \A i \in 1..Len(Tail(q)) : Tail(q)[i] = q[i + 1]
        /\ Head(q) = q[1]
        /\ Len(q) \in Nat
    OBVIOUS
  <1>2. ASSUME NEW e, NEW i \in 1..Len(q), q[i] = e, Head(q) # e
        PROVE  \E j \in 1..Len(Tail(q)) : Tail(q)[j] = e
    <2>1. i - 1 \in 1..Len(Tail(q)) /\ (i - 1) + 1 = i
      BY <1>1, <1>2
    <2> QED
      BY <1>1, <1>2, <2>1
  <1> QED
    BY <1>1, <1>2

\* An event at the end leaves the others where they are.
LEMMA AppendFacts ==
  ASSUME NEW S, NEW q \in Seq(S), NEW e \in S
  PROVE  /\ Append(q, e) \in Seq(S)
         /\ Len(Append(q, e)) = Len(q) + 1
         /\ \A d : (\E i \in 1..Len(q) : q[i] = d)
                      => \E i \in 1..Len(Append(q, e)) : Append(q, e)[i] = d
         /\ \E i \in 1..Len(Append(q, e)) : Append(q, e)[i] = e
  <1>1. /\ Append(q, e) \in Seq(S)
        /\ Len(Append(q, e)) = Len(q) + 1
        /\ \A i \in 1..Len(q) : Append(q, e)[i] = q[i]
        /\ Append(q, e)[Len(q) + 1] = e
        /\ Len(q) \in Nat
    OBVIOUS
  <1>2. Len(q) + 1 \in 1..Len(Append(q, e)) /\ 1..Len(q) \subseteq 1..Len(Append(q, e))
    BY <1>1
  <1> QED
    BY <1>1, <1>2

\* Windows come, go and are activated; other managers act.
LEMMA EnvironmentKeepsInv ==
  ASSUME Inv,
         \/ \E v \in Views : OpenWindow(v) \/ CloseOtherWindow(v)
         \/ \E v \in Views \cup {None} : Activate(v)
         \/ OtherManager \/ OtherPosts
  PROVE  Inv'
  <1>1. ASSUME NEW v \in Views, OpenWindow(v)
        PROVE  Inv'
    BY <1>1 DEF OpenWindow, Inv, TypeOK, FilterOnBoundView, LifeCycle, WaitsForEvent,
       BoundOrWaits, managerVars
  <1>2. ASSUME NEW v \in Views, CloseOtherWindow(v)
        PROVE  Inv'
    <2>1. TypeOK'
      BY <1>2 DEF CloseOtherWindow, Inv, TypeOK
    <2>2. FilterOnBoundView'
      BY <1>2 DEF CloseOtherWindow, Inv, FilterOnBoundView
    <2> QED
      BY <1>2, <2>1, <2>2 DEF CloseOtherWindow, Inv, LifeCycle, WaitsForEvent, BoundOrWaits
  <1>3. ASSUME NEW v \in Views \cup {None}, Activate(v)
        PROVE  Inv'
    BY <1>3 DEF Activate, Inv, TypeOK, FilterOnBoundView, LifeCycle, WaitsForEvent,
       BoundOrWaits, managerVars
  <1>4. CASE OtherManager
    <2>1. younger' \in BOOLEAN
      BY <1>4 DEF OtherManager, Inv, TypeOK
    <2> QED
      BY <1>4, <2>1 DEF OtherManager, Inv, TypeOK, FilterOnBoundView, LifeCycle,
         WaitsForEvent, BoundOrWaits, managerVars, envVars
  <1>5. CASE OtherPosts
    <2>1. /\ queue' \in Seq({"own", "other"}) /\ Len(queue') <= MaxEvents
          /\ (\E i \in 1..Len(queue) : queue[i] = "own")
                => \E i \in 1..Len(queue') : queue'[i] = "own"
      BY <1>5, AppendFacts, ViewAssumption DEF OtherPosts, Inv, TypeOK
    <2> QED
      BY <1>5, <2>1 DEF OtherPosts, Inv, TypeOK, FilterOnBoundView, LifeCycle,
         WaitsForEvent, BoundOrWaits, managerVars, envVars
  <1> QED
    BY <1>1, <1>2, <1>3, <1>4, <1>5

\* The manager is built, opens and closes documents, and goes away.
LEMMA LifeKeepsInv ==
  ASSUME Inv, Construct \/ SetDocument \/ CloseDocument \/ Destruct
  PROVE  Inv'
  <1>1. CASE Construct
    <2>1. bound' \in views \cup {None}
      BY <1>1, ResolvesToView DEF Construct, Inv
    <2>2. TypeOK'
      BY <1>1, <2>1 DEF Construct, Inv, TypeOK, envVars
    <2> QED
      BY <1>1, <2>2 DEF Construct, Inv, FilterOnBoundView, LifeCycle, WaitsForEvent,
         BoundOrWaits, envVars
  <1>2. CASE SetDocument
    BY <1>2 DEF SetDocument, Inv, TypeOK, FilterOnBoundView, LifeCycle, WaitsForEvent,
       BoundOrWaits, envVars
  <1>3. CASE CloseDocument
    BY <1>3 DEF CloseDocument, Inv, TypeOK, FilterOnBoundView, LifeCycle, WaitsForEvent,
       BoundOrWaits, envVars
  <1>4. CASE Destruct
    <2>1. TypeOK'
      BY <1>4 DEF Destruct, Inv, TypeOK
    <2> QED
      BY <1>4, <2>1 DEF Destruct, Inv, FilterOnBoundView, LifeCycle, WaitsForEvent,
         BoundOrWaits
  <1> QED
    BY <1>1, <1>2, <1>3, <1>4

\* A page-view request posts at most one event.
LEMMA RequestKeepsInv ==
  ASSUME Inv, cacheRequest
  PROVE  Inv'
  <1>1. CASE observer # Own /\ ~pending
    <2>1. queue' = Append(queue, "own") /\ pending' = TRUE /\ Len(queue) < MaxEvents
      BY <1>1 DEF cacheRequest
    <2>2. /\ queue' \in Seq({"own", "other"}) /\ Len(queue') <= MaxEvents
          /\ \E i \in 1..Len(queue') : queue'[i] = "own"
      BY <2>1, AppendFacts, ViewAssumption DEF Inv, TypeOK
    <2> QED
      BY <2>1, <2>2, ViewAssumption DEF cacheRequest, Inv, TypeOK, FilterOnBoundView,
         LifeCycle, WaitsForEvent, BoundOrWaits, envVars
  <1>2. CASE ~(observer # Own /\ ~pending)
    <2>1. UNCHANGED <<pending, queue>>
      BY <1>2 DEF cacheRequest
    <2>2. observer = Own \/ pending
      BY <1>2 DEF Inv, TypeOK
    <2> QED
      BY <2>1, <2>2, ViewAssumption DEF cacheRequest, Inv, TypeOK, FilterOnBoundView,
         LifeCycle, WaitsForEvent, BoundOrWaits, envVars
  <1> QED
    BY <1>1, <1>2

\* The first event of the queue is delivered, here or elsewhere.
LEMMA DeliveryKeepsInv ==
  ASSUME Inv, rebindPageView \/ DeliveredElsewhere
  PROVE  Inv'
  <1>1. /\ queue' = Tail(queue) /\ queue # <<>>
        /\ UNCHANGED <<envVars, phase, observer, younger>>
    BY DEF rebindPageView, DeliveredElsewhere, managerVars
  <1>2. /\ queue' \in Seq({"own", "other"}) /\ Len(queue') <= MaxEvents
        /\ (\E i \in 1..Len(queue) : queue[i] = "own") /\ Head(queue) # "own"
              => \E i \in 1..Len(queue') : queue'[i] = "own"
    BY <1>1, TailFacts, ViewAssumption DEF Inv, TypeOK
  <1>3. CASE rebindPageView
    <2>1. pending' = FALSE /\ phase # "gone" /\ Own \in views
      BY <1>3 DEF rebindPageView, Inv, LifeCycle
    <2>2. CASE pending
      <3>1. PICK v \in resolvePageView :
              /\ bound' = IF v = None THEN bound ELSE v
              /\ filterOn' = IF v \in {None, bound} THEN filterOn
                             ELSE (filterOn \ {bound}) \cup {v}
              /\ missed' = (missed \/ phase # "open")
        BY <1>3, <2>2 DEF rebindPageView
      <3>2. v \in views \cup {None}
        BY <3>1, ResolvesToView DEF Inv
      <3>3. bound' \in views \cup {None} /\ filterOn' = {bound'} \ {None}
        BY <3>1, <3>2, ViewAssumption DEF Inv, TypeOK, FilterOnBoundView
      <3>4. UrlIsUnique /\ ~missed' => bound' = Own
        BY <2>1, <3>1, ResolvesToOwn, ViewAssumption DEF Inv, TypeOK
      <3>5. missed' \in BOOLEAN
        BY <3>1 DEF Inv, TypeOK
      <3>6. TypeOK'
        BY <1>1, <1>2, <2>1, <3>3, <3>5 DEF Inv, TypeOK, envVars
      <3> QED
        BY <1>1, <2>1, <3>3, <3>4, <3>6 DEF Inv, FilterOnBoundView, LifeCycle,
           WaitsForEvent, BoundOrWaits, envVars
    <2>3. CASE ~pending
      BY <1>1, <1>2, <1>3, <2>1, <2>3 DEF rebindPageView, Inv, TypeOK,
         FilterOnBoundView, LifeCycle, WaitsForEvent, BoundOrWaits, envVars
    <2> QED
      BY <2>2, <2>3
  <1>4. CASE DeliveredElsewhere
    <2>1. /\ missed' = (missed \/ (pending /\ Head(queue) = "own"))
          /\ UNCHANGED <<bound, filterOn, pending>>
      BY <1>4 DEF DeliveredElsewhere, managerVars
    <2>2. TypeOK'
      BY <1>1, <1>2, <2>1 DEF Inv, TypeOK, envVars
    <2>3. WaitsForEvent'
      BY <1>2, <2>1 DEF Inv, WaitsForEvent
    <2> QED
      BY <1>1, <2>1, <2>2, <2>3 DEF Inv, FilterOnBoundView, LifeCycle, BoundOrWaits,
         envVars
  <1> QED
    BY <1>3, <1>4

\* Every step keeps the invariant.
LEMMA NextInv == Inv /\ [Next]_vars => Inv'
  <1> SUFFICES ASSUME Inv, [Next]_vars PROVE Inv'
    OBVIOUS
  <1>1. CASE UNCHANGED vars
    BY <1>1 DEF vars, Inv, TypeOK, FilterOnBoundView, LifeCycle, WaitsForEvent,
       BoundOrWaits
  <1>2. CASE Next
    BY <1>2, EnvironmentKeepsInv, LifeKeepsInv, RequestKeepsInv, DeliveryKeepsInv
       DEF Next
  <1> QED
    BY <1>1, <1>2

\* The inductive invariant holds in every state of the binding.
THEOREM InvariantHolds == Spec => []Inv
  <1>1. Inv /\ [Next]_vars => Inv'
    BY NextInv
  <1> QED
    BY <1>1, InitInv, PTL DEF Spec

\* Once its view has requested a pixmap the manager works on that view or has its
\* event on the way, unless it missed it in one of the three ways; this is for
\* documents whose url no other window or tab shows.
THEOREM OwnViewIsFound == ASSUME UrlIsUnique PROVE Spec => []BoundToOwnView
  <1>1. Inv => BoundToOwnView
    BY ViewAssumption DEF Inv, WaitsForEvent, BoundOrWaits, BoundToOwnView, RebindComing
  <1> QED
    BY <1>1, InvariantHolds, PTL

\* The mouse filter is where m_PageView is and nowhere else, with tabs and
\* with one file in several windows too.
THEOREM FilterFollowsView == Spec => []FilterOnBoundView
  <1>1. Inv => FilterOnBoundView
    BY DEF Inv
  <1> QED
    BY <1>1, InvariantHolds, PTL

=============================================================================
