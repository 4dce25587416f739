---------------------------- MODULE IblDownload ----------------------------
(***************************************************************************)
(* Missing environment maps (IBL images): the prompt, the download and the *)
(* re-render of the models that wait for it.                               *)
(*                                                                         *)
(* Every open document has its own V3dModelManager.  A worker thread of    *)
(* the document renders under m_ModelsMutex; RenderModel() looks for the   *)
(* files of the model's image, renders without IBL when one is missing,    *)
(* remembers the model and posts a prompt.  The GUI thread delivers the    *)
(* prompt, asks the user, downloads and finally marks the waiting models.  *)
(* A message box runs an event loop of its own, so prompts may nest and    *)
(* replies arrive while one is open.  The files and the set of images      *)
(* asked for are shared by all managers.                                   *)
(*                                                                         *)
(* An image is known by its normalized name, and every name is acceptable: *)
(* models without an image, or with a rejected name, take no part here.  A *)
(* page has one model.  A render does not fail (see ModelManager), and a   *)
(* refreshed page is on screen.  Probing a file finds it as soon as it was *)
(* written; files only ever appear, so probing them one after the other    *)
(* and probing them at once come to the same.                              *)
(***************************************************************************)
EXTENDS Integers, Sequences, FiniteSets

CONSTANTS
    Managers,   \* V3dModelManagers over the life of the process
    Models,     \* positions of models in a document
    Images,     \* names of environment maps
    Files,      \* diffuse.exr and refl0..10.exr, kept once per image
    Shared,     \* refl.exr, kept once for all images
    None

ASSUME IblAssumption ==
    /\ None \notin Images
    /\ \A i \in Images, f \in Files : <<i, f>> # Shared
    /\ IsFiniteSet(Files) /\ Files # {}

VARIABLES
    life,           \* "unborn", "live" or "dead": the manager's lifetime
    image,          \* headerInfo.imageName of each model
    missing,        \* m_ModelsWithMissingIBL
    declined,       \* m_IBLDeclinedNames
    changed,        \* V3dModel::m_HasChanged
    shown,          \* what m_ModelImages holds: "none", "plain" or "ibl"
    requested,      \* pixmap requests waiting for the worker
    timers,         \* scheduleRefreshPixmap() timers that have not fired
    job,            \* the worker thread inside RenderModel()
    disk,           \* files in the image library
    pendingPrompts, \* static in scheduleIBLPrompt()
    queue,          \* IBLPromptEvents posted to qApp
    dialogs,        \* message boxes that are open, the innermost first
    gui,            \* what the GUI thread is waiting for m_ModelsMutex for
    replies,        \* QNetworkReplys in flight
    pending,        \* m_PendingDownloadCount
    net,            \* m_IBLNetManager: the batch it was created for
    posted,         \* how many prompts were ever posted for an image
    touched         \* callbacks that ran on a destroyed manager

modelVars == <<image, changed, shown>>
promptVars == <<pendingPrompts, queue, dialogs, posted>>
netVars == <<replies, pending, net>>
vars == <<life, modelVars, missing, declined, requested, timers, job, disk,
          promptVars, gui, netVars, touched>>

\* The files an image consists of, and whether resolveIBLPath() finds it.
FilesOf(i) == {Shared} \cup ({i} \X Files)
resolveIBLPath(i) == FilesOf(i) \subseteq disk

Prompt == [mgr: Managers, image: Images]
Reply  == [mgr: Managers, image: Images, file: {Shared} \cup (Images \X Files)]
Idle   == [pc |-> "idle"]
Free(m) == job[m] = Idle     \* m_ModelsMutex is not held by the worker

Init ==
    /\ life = [m \in Managers |-> "unborn"]
    /\ image \in [Managers -> [Models -> Images]]
    /\ missing = [m \in Managers |-> {}] /\ declined = [m \in Managers |-> {}]
    /\ changed = [m \in Managers |-> [k \in Models |-> TRUE]]
    /\ shown = [m \in Managers |-> [k \in Models |-> "none"]]
    /\ requested = [m \in Managers |-> {}] /\ timers = [m \in Managers |-> {}]
    /\ job = [m \in Managers |-> Idle]
    /\ disk \in SUBSET UNION {FilesOf(i) : i \in Images}
    /\ pendingPrompts = {} /\ queue = <<>> /\ dialogs = <<>> /\ gui = Idle
    /\ replies = {} /\ pending = [m \in Managers |-> 0]
    /\ net = [m \in Managers |-> None]
    /\ posted = [i \in Images |-> 0] /\ touched = {}

-----------------------------------------------------------------------------
(* Documents.  A message box is modal: while one is open the user neither  *)
(* opens, reloads nor closes a document.                                   *)

Open(m) ==
    /\ gui = Idle /\ dialogs = <<>> /\ life[m] = "unborn"
    /\ life' = [life EXCEPT ![m] = "live"]
    /\ UNCHANGED <<modelVars, missing, declined, requested, timers, job, disk,
                   promptVars, gui, netVars, touched>>

\* SetDocument(): Clear() and the new document's models.  The declined names,
\* the timers and a download in progress stay.
Reload(m) ==
    /\ gui = Idle /\ dialogs = <<>> /\ life[m] = "live" /\ Free(m)
    /\ \E f \in [Models -> Images] : image' = [image EXCEPT ![m] = f]
    /\ missing' = [missing EXCEPT ![m] = {}]
    /\ changed' = [changed EXCEPT ![m] = [k \in Models |-> TRUE]]
    /\ shown' = [shown EXCEPT ![m] = [k \in Models |-> "none"]]
    /\ requested' = [requested EXCEPT ![m] = {}]
    /\ UNCHANGED <<life, declined, timers, job, disk, promptVars, gui, netVars, touched>>

Destroy_KeepsTimers(m) ==
    /\ gui = Idle /\ dialogs = <<>> /\ life[m] = "live" /\ Free(m)
    /\ life' = [life EXCEPT ![m] = "dead"]
    /\ requested' = [requested EXCEPT ![m] = {}]
    /\ UNCHANGED <<modelVars, missing, declined, timers, job, disk, promptVars, gui,
                   netVars, touched>>

\* ~V3dModelManager(): the timers die with m_FilterParent; the posted events
\* and the network manager with its replies stay behind.
Destroy(m) ==
    /\ gui = Idle /\ dialogs = <<>> /\ life[m] = "live" /\ Free(m)
    /\ life' = [life EXCEPT ![m] = "dead"]
    /\ timers' = [timers EXCEPT ![m] = {}]
    /\ requested' = [requested EXCEPT ![m] = {}]
    /\ UNCHANGED <<modelVars, missing, declined, job, disk, promptVars, gui,
                   netVars, touched>>

\* Okular asks for a page's pixmap.
Request(m, k) ==
    /\ gui = Idle /\ life[m] = "live" /\ k \notin requested[m]
    /\ requested' = [requested EXCEPT ![m] = @ \cup {k}]
    /\ UNCHANGED <<life, modelVars, missing, declined, timers, job, disk,
                   promptVars, gui, netVars, touched>>

-----------------------------------------------------------------------------
(* The worker thread, RenderModel().                                       *)

\* It takes the mutex and resolves the image; a model that misses files is
\* remembered, and a prompt posted unless the image was asked for before.
StartRender(m, k) ==
    /\ Free(m) /\ k \in requested[m]
    /\ requested' = [requested EXCEPT ![m] = @ \ {k}]
    /\ LET i    == image[m][k]
           wait == ~resolveIBLPath(i) /\ i \notin declined[m]
       IN  /\ missing' = IF wait THEN [missing EXCEPT ![m] = @ \cup {k}] ELSE missing
           /\ job' = [job EXCEPT ![m] =
                        [pc    |-> IF wait /\ i \notin pendingPrompts THEN "post" ELSE "draw",
                         model |-> k,
                         ibl   |-> resolveIBLPath(i)]]
    /\ UNCHANGED <<life, modelVars, declined, timers, disk, promptVars, gui,
                   netVars, touched>>

scheduleIBLPrompt_NoDebounce(m) ==
    /\ job[m].pc = "post"
    /\ LET i == image[m][job[m].model]
       IN  /\ queue' = Append(queue, [mgr |-> m, image |-> i])
           /\ posted' = [posted EXCEPT ![i] = @ + 1]
    /\ job' = [job EXCEPT ![m].pc = "draw"]
    /\ UNCHANGED <<life, modelVars, missing, declined, requested, timers, disk,
                   pendingPrompts, dialogs, gui, netVars, touched>>

\* scheduleIBLPrompt().  Another manager's worker may run between the test of
\* the static set in StartRender and the insertion: its mutex is another one.
scheduleIBLPrompt(m) ==
    /\ job[m].pc = "post"
    /\ LET i == image[m][job[m].model]
       IN  /\ pendingPrompts' = pendingPrompts \cup {i}
           /\ queue' = Append(queue, [mgr |-> m, image |-> i])
           /\ posted' = [posted EXCEPT ![i] = @ + 1]
    /\ job' = [job EXCEPT ![m].pc = "draw"]
    /\ UNCHANGED <<life, modelVars, missing, declined, requested, timers, disk,
                   dialogs, gui, netVars, touched>>

\* The cached image is returned when nothing changed and it has the right
\* size; otherwise a frame is drawn and cached.
EndRender(m) ==
    /\ job[m].pc = "draw"
    /\ LET k == job[m].model
       IN  \/ /\ ~changed[m][k] /\ shown[m][k] # "none"
              /\ UNCHANGED <<changed, shown>>
           \/ /\ shown' = [shown EXCEPT ![m][k] = IF job[m].ibl THEN "ibl" ELSE "plain"]
              /\ changed' = [changed EXCEPT ![m][k] = FALSE]
    /\ job' = [job EXCEPT ![m] = Idle]
    /\ UNCHANGED <<life, image, missing, declined, requested, timers, disk,
                   promptVars, gui, netVars, touched>>

-----------------------------------------------------------------------------
(* The GUI thread.                                                         *)

\* The event filter of any live manager takes the event and runs the callback
\* of the manager that posted it.  Where that one is gone, what follows is
\* undefined: recorded, and not followed any further.
DeliverPrompt ==
    /\ gui = Idle /\ queue # <<>>
    /\ queue' = Tail(queue)
    /\ LET e    == Head(queue)
           runs == \E m \in Managers : life[m] = "live"
       IN  /\ dialogs' = IF runs /\ life[e.mgr] = "live" THEN <<e>> \o dialogs ELSE dialogs
           /\ touched' = IF runs /\ life[e.mgr] = "dead"
                         THEN touched \cup {<<"prompt", e.mgr>>} ELSE touched
    /\ UNCHANGED <<life, modelVars, missing, declined, requested, timers, job,
                   disk, pendingPrompts, gui, netVars, posted>>

\* performIBLDownload(), "No": on to Decline, which needs the mutex.
AnswerNo ==
    /\ gui = Idle /\ dialogs # <<>>
    /\ dialogs' = Tail(dialogs)
    /\ gui' = [pc |-> "decline", mgr |-> Head(dialogs).mgr, image |-> Head(dialogs).image]
    /\ UNCHANGED <<life, modelVars, missing, declined, requested, timers, job,
                   disk, pendingPrompts, queue, posted, netVars, touched>>

\* The models the decline is about.
WaitingFor(m, i) == {k \in missing[m] : image[m][k] = i}

Decline(m) ==
    /\ gui.pc = "decline" /\ gui.mgr = m /\ Free(m)
    /\ declined' = [declined EXCEPT ![m] = @ \cup {gui.image}]
    /\ missing' = [missing EXCEPT ![m] = @ \ WaitingFor(m, gui.image)]
    /\ timers' = [timers EXCEPT ![m] = @ \cup WaitingFor(m, gui.image)]
    /\ gui' = Idle
    /\ UNCHANGED <<life, modelVars, requested, job, disk, promptVars, netVars, touched>>

AnswerYes_CountsSkipped ==
    /\ gui = Idle /\ dialogs # <<>>
    /\ dialogs' = Tail(dialogs)
    /\ LET m     == Head(dialogs).mgr
           i     == Head(dialogs).image
           tasks == IF Shared \in disk THEN FilesOf(i) \ {Shared} ELSE FilesOf(i)
       IN  /\ replies' = replies \cup [mgr: {m}, image: {i}, file: tasks]
           /\ pending' = [pending EXCEPT ![m] = Cardinality(FilesOf(i))]
           /\ net' = [net EXCEPT ![m] = i]
    /\ UNCHANGED <<life, modelVars, missing, declined, requested, timers, job,
                   disk, pendingPrompts, queue, posted, gui, touched>>

AnswerYes_ForgetsShared ==
    /\ gui = Idle /\ dialogs # <<>>
    /\ dialogs' = Tail(dialogs)
    /\ LET m     == Head(dialogs).mgr
           i     == Head(dialogs).image
           tasks == IF Shared \in disk THEN FilesOf(i) \ {Shared} ELSE FilesOf(i)
       IN  /\ replies' = replies \cup [mgr: {m}, image: {i}, file: tasks]
           /\ pending' = [pending EXCEPT ![m] = Cardinality(Files)]
           /\ net' = [net EXCEPT ![m] = i]
    /\ UNCHANGED <<life, modelVars, missing, declined, requested, timers, job,
                   disk, pendingPrompts, queue, posted, gui, touched>>

\* "Yes": a new network manager, a request for every file but an existing
\* refl.exr.  The count starts at zero whatever is still in flight.  It does
\* not stay zero: the other files are requested unconditionally.
AnswerYes ==
    /\ gui = Idle /\ dialogs # <<>>
    /\ dialogs' = Tail(dialogs)
    /\ LET m     == Head(dialogs).mgr
           i     == Head(dialogs).image
           tasks == IF Shared \in disk THEN FilesOf(i) \ {Shared} ELSE FilesOf(i)
       IN  /\ replies' = replies \cup [mgr: {m}, image: {i}, file: tasks]
           /\ pending' = [pending EXCEPT ![m] = Cardinality(tasks)]
           /\ net' = [net EXCEPT ![m] = i]
    /\ UNCHANGED <<life, modelVars, missing, declined, requested, timers, job,
                   disk, pendingPrompts, queue, posted, gui, touched>>

\* "Yes", but the directory cannot be created: nothing is downloaded.
AnswerYesNoDirectory ==
    /\ gui = Idle /\ dialogs # <<>>
    /\ dialogs' = Tail(dialogs)
    /\ UNCHANGED <<life, modelVars, missing, declined, requested, timers, job,
                   disk, pendingPrompts, queue, posted, gui, netVars, touched>>

\* onIBLDownloadReplyFinished(): the file is written, or not (network error,
\* HTML, empty body, file not writable); the last reply completes the batch.
ReplyFinished(r) ==
    /\ gui = Idle /\ r \in replies /\ life[r.mgr] = "live"
    /\ replies' = replies \ {r}
    /\ disk' \in {disk, disk \cup {r.file}}
    /\ pending' = [pending EXCEPT ![r.mgr] = @ - 1]
    /\ gui' = IF pending[r.mgr] = 1 THEN [pc |-> "complete", mgr |-> r.mgr] ELSE Idle
    /\ UNCHANGED <<life, modelVars, missing, declined, requested, timers, job,
                   promptVars, net, touched>>

\* The same on a manager that is gone: m_Destroying is read from freed memory
\* and may say anything.
ReplyFinishedDead(r) ==
    /\ gui = Idle /\ r \in replies /\ life[r.mgr] = "dead"
    /\ replies' = replies \ {r}
    /\ disk' \in {disk, disk \cup {r.file}}
    /\ touched' = touched \cup {<<"reply", r.mgr>>}
    /\ UNCHANGED <<life, modelVars, missing, declined, requested, timers, job,
                   promptVars, gui, pending, net>>

Complete_Unlocked(m) ==
    /\ gui.pc = "complete" /\ gui.mgr = m
    /\ replies' = {r \in replies : ~(r.mgr = m /\ r.image = net[m])}
    /\ net' = [net EXCEPT ![m] = None]
    /\ changed' = [changed EXCEPT ![m] = [k \in Models |-> @[k] \/ k \in missing[m]]]
    /\ timers' = [timers EXCEPT ![m] = @ \cup missing[m]]
    /\ missing' = [missing EXCEPT ![m] = {}]
    /\ gui' = Idle
    /\ UNCHANGED <<life, image, shown, declined, requested, job, disk, promptVars,
                   pending, touched>>

\* onIBLDownloadComplete(): deleting the network manager deletes the replies
\* it still has; all waiting models are marked and their pages refreshed.
Complete(m) ==
    /\ gui.pc = "complete" /\ gui.mgr = m /\ Free(m)
    /\ replies' = {r \in replies : ~(r.mgr = m /\ r.image = net[m])}
    /\ net' = [net EXCEPT ![m] = None]
    /\ changed' = [changed EXCEPT ![m] = [k \in Models |-> @[k] \/ k \in missing[m]]]
    /\ timers' = [timers EXCEPT ![m] = @ \cup missing[m]]
    /\ missing' = [missing EXCEPT ![m] = {}]
    /\ gui' = Idle
    /\ UNCHANGED <<life, image, shown, declined, requested, job, disk, promptVars,
                   pending, touched>>

\* The timer of scheduleRefreshPixmap(): Okular asks for the page again.
RefreshPixmap(m, k) ==
    /\ gui = Idle /\ k \in timers[m]
    /\ timers' = [timers EXCEPT ![m] = @ \ {k}]
    /\ requested' = [requested EXCEPT ![m] = @ \cup {k}]
    /\ UNCHANGED <<life, modelVars, missing, declined, job, disk, promptVars,
                   gui, netVars, touched>>

-----------------------------------------------------------------------------

Gui ==
    \/ DeliverPrompt
    \/ \E m \in Managers : Decline(m) \/ Complete(m)
    \/ \E m \in Managers, k \in Models : RefreshPixmap(m, k)
    \/ \E r \in replies : ReplyFinished(r) \/ ReplyFinishedDead(r)

User ==
    \/ \E m \in Managers : Open(m) \/ Reload(m) \/ Destroy(m)
    \/ \E m \in Managers, k \in Models : Request(m, k)
    \/ AnswerNo \/ AnswerYes \/ AnswerYesNoDirectory

Worker(m) ==
    \/ \E k \in Models : StartRender(m, k)
    \/ scheduleIBLPrompt(m)
    \/ EndRender(m)

Next == Gui \/ User \/ \E m \in Managers : Worker(m)

\* Qt's event loop and Okular's worker go on; the network answers every
\* request, if only with an error.  A page's request is executed in the end
\* although others are made again and again.  Nothing is asked of the user.
Fairness ==
    /\ WF_vars(Gui)
    /\ \A m \in Managers, k \in Models : SF_vars(StartRender(m, k))
    /\ \A m \in Managers : WF_vars(scheduleIBLPrompt(m)) /\ WF_vars(EndRender(m))
    /\ \A m \in Managers, k \in Models : SF_vars(RefreshPixmap(m, k))
    /\ \A r \in Reply : SF_vars(ReplyFinished(r))

Spec == Init /\ [][Next]_vars /\ Fairness

-----------------------------------------------------------------------------
(* Properties.                                                             *)

Jobs == {Idle} \cup [pc: {"post", "draw"}, model: Models, ibl: BOOLEAN]
Waits == {Idle} \cup [pc: {"decline"}, mgr: Managers, image: Images]
                \cup [pc: {"complete"}, mgr: Managers]

\* Types; only live managers have refresh timers, requests and renders, which
\* ~V3dModelManager() ends, and a performIBLDownload() that waits for the user
\* or for the mutex is one of a live manager.
TypeOK ==
    /\ life \in [Managers -> {"unborn", "live", "dead"}]
    /\ image \in [Managers -> [Models -> Images]]
    /\ changed \in [Managers -> [Models -> BOOLEAN]]
    /\ shown \in [Managers -> [Models -> {"none", "plain", "ibl"}]]
    /\ missing \in [Managers -> SUBSET Models] /\ declined \in [Managers -> SUBSET Images]
    /\ requested \in [Managers -> SUBSET Models] /\ timers \in [Managers -> SUBSET Models]
    /\ job \in [Managers -> Jobs] /\ gui \in Waits
    /\ disk \subseteq {Shared} \cup (Images \X Files)
    /\ pendingPrompts \subseteq Images /\ posted \in [Images -> Nat]
    /\ queue \in Seq(Prompt) /\ dialogs \in Seq(Prompt)
    /\ replies \subseteq Reply /\ pending \in [Managers -> Int]
    /\ net \in [Managers -> Images \cup {None}]
    /\ touched \subseteq {"prompt", "reply"} \X Managers
    /\ \A m \in Managers : life[m] # "live" =>
           /\ requested[m] = {} /\ timers[m] = {} /\ job[m] = Idle
           /\ gui # Idle => gui.mgr # m
           /\ \A n \in 1..Len(dialogs) : dialogs[n].mgr # m

\* RenderModel()'s "the model is tracked and re-rendered": a model whose cached
\* image lacks its IBL is waiting for the files, marked for a re-render, or
\* its image was declined - whatever the worker renders while the GUI thread
\* declines another image or completes a batch.
NoForgottenModel ==
    \A m \in Managers, k \in Models :
        shown[m][k] = "plain" =>
            \/ k \in missing[m]
            \/ changed[m][k]
            \/ image[m][k] \in declined[m]

\* scheduleIBLPrompt()'s debounce: the user is asked for an image at most once,
\* however often it is rendered, declined, downloaded or reloaded.
AskedOnce == \A i \in Images : posted[i] <= 1

\* With several documents: no manager asks for an image twice.
AskedByEach == \A i \in Images : posted[i] <= Cardinality(Managers)

\* No other image was ever asked for, so that no other batch interferes.
Alone(i) == \A j \in Images \ {i} : posted[j] = 0

\* onIBLDownloadComplete() runs when the last reply of a batch has come, not
\* before: deleting the network manager cancels no download, unless a second
\* batch has reset the count of the first.
LastReplyCompletes ==
    \A i \in Images : Alone(i) /\ gui.pc = "complete" => \A r \in replies : r.mgr # gui.mgr

Stale(m, k) ==
    /\ life[m] = "live" /\ shown[m][k] = "plain"
    /\ Alone(image[m][k]) /\ image[m][k] \notin declined[m]
    /\ resolveIBLPath(image[m][k])

\* onIBLDownloadComplete(): once the files of an image are there, the models
\* that were rendered without it are shown with it.
IblAppears == \A m \in Managers, k \in Models : Stale(m, k) ~> ~Stale(m, k)

\* IBLEventFilter's "callback captured in the event therefore only ever runs
\* on a live manager".
PromptOnLiveManager == \A m \in Managers : <<"prompt", m>> \notin touched

\* The same of the replies' callbacks, which read m_Destroying.
ReplyOnLiveManager == \A m \in Managers : <<"reply", m>> \notin touched
=============================================================================
