---------------------------- MODULE ModelManager ----------------------------
(***************************************************************************)
(* The concurrent core of V3dModelManager: the two locks, the threads that *)
(* contend for them, and the cached image of every 3D model.               *)
(*                                                                         *)
(* Every open document d owns one manager, hence one m_ModelsMutex; all    *)
(* managers of the process share v3dRenderGlobalsMutex, which guards the   *)
(* process-global Asymptote scene buffers.  Two kinds of threads run here: *)
(* Main, which delivers input events and loads documents, and one pixmap   *)
(* thread per threaded (PDF) document, named by the document itself.  A    *)
(* standalone .v3d document is not threaded: its requests run on Main,     *)
(* nested in the event handler whose refresh triggered them.               *)
(*                                                                         *)
(* Data is abstracted to what the image of a model depends on: a view      *)
(* (rotation, zoom, shift), a draw mode and the requested size.  What the  *)
(* renderer does inside the global section is the subject of SceneRenderer.*)
(***************************************************************************)
EXTENDS Naturals, FiniteSets

CONSTANTS
    Docs,        \* open documents, one manager and one pixmap thread each
    Threaded,    \* documents whose generator has a pixmap thread (PDF)
    Models,      \* models a document may hold
    Views,       \* abstract camera positions
    HomeView,    \* the camera position home() restores
    Modes,       \* number of draw modes (NUM_DRAW_MODES)
    Sizes,       \* sizes a pixmap can be requested at
    NullSize,    \* the size of a null QImage
    Keys,        \* which of the keys "H" and "M" the user ever presses
    Main,        \* the GUI thread
    NoThread,    \* owner of a free mutex
    NoModel      \* a null V3dModel*

ASSUME ThreadAssumption ==
    /\ Threaded \subseteq Docs
    /\ Main \notin Docs
    /\ NoThread \notin Docs \cup {Main}

ASSUME DataAssumption ==
    /\ HomeView \in Views
    /\ NullSize \notin Sizes
    /\ NoModel \notin Models
    /\ Modes \in Nat \ {0}
    /\ Keys \subseteq {"H", "M"}

VARIABLES
    phase,        \* life of the document in Okular: closed, loading, open
    loaded,       \* m_Models: the models present, per document
    view,         \* rotateMat, Zoom, shift of each model
    mode,         \* drawMode of each model
    hasChanged,   \* m_HasChanged of each model
    image,        \* m_ModelImages
    drag,         \* m_ActiveModel while m_Dragging, else NoModel
    modelsMutex,  \* owner of each manager's m_ModelsMutex
    globalsMutex, \* owner of v3dRenderGlobalsMutex
    req,          \* the pixmap request each generator is executing
    op            \* the event handler Main is executing

modelVars == <<loaded, view, mode, hasChanged, image>>
vars == <<phase, loaded, view, mode, hasChanged, image, drag,
          modelsMutex, globalsMutex, req, op>>

Threads == Docs \cup {Main}
Mode    == 0 .. (Modes - 1)

\* A QImage in m_ModelImages: how big it is and what it shows.  mesh is the
\* draw mode the geometry was queued for, mode the one it was drawn in.
Image == [size: Sizes \cup {NullSize}, view: Views, mode: Mode, mesh: Mode]

NullImage == [size |-> NullSize, view |-> HomeView, mode |-> 0, mesh |-> 0]

\* Where a pixmap request is.  "cache" and "lock" wait for m_ModelsMutex,
\* "globals" waits for v3dRenderGlobalsMutex.
RequestPc == {"idle", "snapshot", "next", "cache", "caching", "serve",
              "lock", "check", "globals", "queue", "render"}

Request == [pc: RequestPc, thread: Threads, size: Sizes \cup {NullSize},
            todo: SUBSET Models, model: Models \cup {NoModel},
            view: Views, mesh: Mode]

\* (q is between two models: its locals for the last one are gone)
NextOf(q) == [q EXCEPT !.pc = "next", !.model = NoModel, !.view = HomeView, !.mesh = 0]

NoRequest(t) == [pc |-> "idle", thread |-> t, size |-> NullSize, todo |-> {},
                 model |-> NoModel, view |-> HomeView, mesh |-> 0]

\* Where Main is in an event handler.
HandlerPc == {"idle", "hit", "pick", "lock", "held", "key", "refresh"}
Kinds     == {"none", "press", "drag", "wheel", "H", "M"}

Handler == [pc: HandlerPc, kind: Kinds, doc: Docs, model: Models \cup {NoModel}]

TypeOK ==
    /\ phase \in [Docs -> {"closed", "loading", "open"}]
    /\ loaded \in [Docs -> SUBSET Models]
    /\ view \in [Docs -> [Models -> Views]]
    /\ mode \in [Docs -> [Models -> Mode]]
    /\ hasChanged \in [Docs -> [Models -> BOOLEAN]]
    /\ image \in [Docs -> [Models -> Image]]
    /\ drag \in [Docs -> Models \cup {NoModel}]
    /\ modelsMutex \in [Docs -> Threads \cup {NoThread}]
    /\ globalsMutex \in Threads \cup {NoThread}
    /\ req \in [Docs -> Request]
    /\ op \in Handler

Init ==
    /\ phase = [d \in Docs |-> "closed"]
    /\ loaded = [d \in Docs |-> {}]
    /\ view = [d \in Docs |-> [m \in Models |-> HomeView]]
    /\ mode = [d \in Docs |-> [m \in Models |-> 0]]
    /\ hasChanged = [d \in Docs |-> [m \in Models |-> TRUE]]
    /\ image = [d \in Docs |-> [m \in Models |-> NullImage]]
    /\ drag = [d \in Docs |-> NoModel]
    /\ modelsMutex = [d \in Docs |-> NoThread]
    /\ globalsMutex = NoThread
    /\ req = [d \in Docs |-> NoRequest(Main)]
    /\ op \in [pc: {"idle"}, kind: {"none"}, doc: Docs, model: {NoModel}]

-----------------------------------------------------------------------------
(* Which thread is free to do what.                                        *)

\* The request of d is being executed on the GUI thread.
OnMain(d) == req[d].thread = Main /\ req[d].pc # "idle"

MainFree == \A d \in Docs : ~OnMain(d)

\* Main is back in its event loop.
EventLoop == op.pc = "idle" /\ MainFree

-----------------------------------------------------------------------------
(* Loading and closing documents (main thread).                            *)

\* m_Models.clear() and m_ModelImages.clear().
ForgetModels(d) ==
    /\ loaded' = [loaded EXCEPT ![d] = {}]
    /\ view' = [view EXCEPT ![d] = [m \in Models |-> HomeView]]
    /\ mode' = [mode EXCEPT ![d] = [m \in Models |-> 0]]
    /\ hasChanged' = [hasChanged EXCEPT ![d] = [m \in Models |-> TRUE]]
    /\ image' = [image EXCEPT ![d] = [m \in Models |-> NullImage]]

\* SetDocument() -> Clear().  Okular drains the request queue before a
\* generator loads anything (clearAndWaitForRequests), so no request of d is
\* executing.  The mutex is taken and released within the step.
SetDocument_KeepDrag(d) ==
    /\ EventLoop
    /\ phase[d] = "closed"
    /\ req[d].pc = "idle"
    /\ modelsMutex[d] = NoThread
    /\ phase' = [phase EXCEPT ![d] = "loading"]
    /\ ForgetModels(d)
    /\ UNCHANGED <<drag, modelsMutex, globalsMutex, req, op>>

SetDocument(d) ==
    /\ EventLoop
    /\ phase[d] = "closed"
    /\ req[d].pc = "idle"
    /\ modelsMutex[d] = NoThread
    /\ phase' = [phase EXCEPT ![d] = "loading"]
    /\ ForgetModels(d)
    /\ drag' = [drag EXCEPT ![d] = NoModel]
    /\ UNCHANGED <<modelsMutex, globalsMutex, req, op>>

\* AddModel(): a freshly parsed model enters with its initial projection,
\* m_HasChanged set and a null cached image.  A standalone file is one model.
AddModel(d, m) ==
    /\ EventLoop
    /\ phase[d] = "loading"
    /\ m \notin loaded[d]
    /\ d \in Threaded \/ loaded[d] = {}
    /\ modelsMutex[d] = NoThread
    /\ loaded' = [loaded EXCEPT ![d] = @ \cup {m}]
    /\ view' = [view EXCEPT ![d][m] = HomeView]
    /\ mode' = [mode EXCEPT ![d][m] = 0]
    /\ hasChanged' = [hasChanged EXCEPT ![d][m] = TRUE]
    /\ image' = [image EXCEPT ![d][m] = NullImage]
    /\ UNCHANGED <<phase, drag, modelsMutex, globalsMutex, req, op>>

\* The generator's loadDocument() returns and Okular starts to use d.
FinishLoad(d) ==
    /\ EventLoop
    /\ phase[d] = "loading"
    /\ d \in Threaded \/ loaded[d] # {}
    /\ phase' = [phase EXCEPT ![d] = "open"]
    /\ UNCHANGED <<modelVars, drag, modelsMutex, globalsMutex, req, op>>

\* The file cannot be opened or parsed: loadDocument() reports failure (the
\* .v3d generator after catching the parser's exception) with no model added.
FailLoad(d) ==
    /\ EventLoop
    /\ phase[d] = "loading"
    /\ loaded[d] = {}
    /\ phase' = [phase EXCEPT ![d] = "closed"]
    /\ UNCHANGED <<modelVars, drag, modelsMutex, globalsMutex, req, op>>

\* Document::closeDocument() waits for the executing request; the generator's
\* doCloseDocument() leaves the manager as it is until the next SetDocument().
CloseDocument(d) ==
    /\ EventLoop
    /\ phase[d] = "open"
    /\ req[d].pc = "idle"
    /\ phase' = [phase EXCEPT ![d] = "closed"]
    /\ UNCHANGED <<modelVars, drag, modelsMutex, globalsMutex, req, op>>

-----------------------------------------------------------------------------
(* Serving a pixmap request.                                               *)

\* Okular submits at most one request at a time to a generator
\* (canGeneratePixmap).  A threaded generator serves asynchronous requests on
\* its own thread and synchronous ones (presentation) on Main; the .v3d
\* generator serves all of them on Main, from the event loop or from within
\* the refresh at the end of an event handler.
StartRequest(d, t, s) ==
    /\ phase[d] = "open"
    /\ req[d].pc = "idle"
    /\ \/ t = d /\ d \in Threaded
       \/ t = Main /\ MainFree /\ (op.pc = "idle" \/ (op.pc = "refresh" /\ op.doc = d))
    /\ req' = [req EXCEPT ![d] = [NoRequest(t) EXCEPT !.pc = "snapshot", !.size = s]]
    /\ UNCHANGED <<phase, modelVars, drag, modelsMutex, globalsMutex, op>>

\* ModelBoundsSnapshot(): the models to composite, read under the mutex.
Snapshot(d) ==
    /\ req[d].pc = "snapshot"
    /\ modelsMutex[d] = NoThread
    /\ req' = [req EXCEPT ![d] = [req[d] EXCEPT !.pc = "next", !.todo = loaded[d]]]
    /\ UNCHANGED <<phase, modelVars, drag, modelsMutex, globalsMutex, op>>

\* The loop over the snapshot: next model, or the request is done.
NextModel_KeepTodo(d) ==
    /\ req[d].pc = "next"
    /\ \/ /\ req[d].todo = {}
          /\ req' = [req EXCEPT ![d] = NoRequest(Main)]
       \/ \E m \in req[d].todo :
            req' = [req EXCEPT ![d] = [req[d] EXCEPT !.pc = "cache", !.model = m]]
    /\ UNCHANGED <<phase, modelVars, drag, modelsMutex, globalsMutex, op>>

NextModel(d) ==
    /\ req[d].pc = "next"
    /\ \/ /\ req[d].todo = {}
          /\ req' = [req EXCEPT ![d] = NoRequest(Main)]
       \/ \E m \in req[d].todo :
            req' = [req EXCEPT ![d] = [req[d] EXCEPT !.pc = "cache", !.model = m, !.todo = req[d].todo \ {m}]]
    /\ UNCHANGED <<phase, modelVars, drag, modelsMutex, globalsMutex, op>>

\* CacheRequest(): enter the section that writes the request cache ...
CacheRequest(d) ==
    /\ req[d].pc = "cache"
    /\ modelsMutex[d] = NoThread
    /\ modelsMutex' = [modelsMutex EXCEPT ![d] = req[d].thread]
    /\ req' = [req EXCEPT ![d] = [req[d] EXCEPT !.pc = "caching"]]
    /\ UNCHANGED <<phase, modelVars, drag, globalsMutex, op>>

\* ... and leave it, to render the model or to serve a cached image.
CacheRequestDone(d) ==
    /\ req[d].pc = "caching"
    /\ modelsMutex' = [modelsMutex EXCEPT ![d] = NoThread]
    /\ \E pc \in {"lock", "serve"} : req' = [req EXCEPT ![d] = [req[d] EXCEPT !.pc = pc]]
    /\ UNCHANGED <<phase, modelVars, drag, globalsMutex, op>>

\* Thumbnails draw no model; preloads and suppressed page-view requests read
\* CachedModelImage() / LastRenderedModelImage() under the mutex.  The .v3d
\* generator renders after all when there is no image yet.
ServeCached(d) ==
    /\ req[d].pc = "serve"
    /\ modelsMutex[d] = NoThread
    /\ \/ req' = [req EXCEPT ![d] = NextOf(req[d])]
       \/ /\ d \notin Threaded
          /\ image[d][req[d].model].size = NullSize
          /\ req' = [req EXCEPT ![d] = [req[d] EXCEPT !.pc = "lock"]]
    /\ UNCHANGED <<phase, modelVars, drag, modelsMutex, globalsMutex, op>>

\* RenderModel(): QMutexLocker locker(&m_ModelsMutex).
LockModels_Skip(d) ==
    /\ req[d].pc = "lock"
    /\ req' = [req EXCEPT ![d] = [req[d] EXCEPT !.pc = "check"]]
    /\ UNCHANGED <<phase, modelVars, drag, modelsMutex, globalsMutex, op>>

LockModels(d) ==
    /\ req[d].pc = "lock"
    /\ modelsMutex[d] = NoThread
    /\ modelsMutex' = [modelsMutex EXCEPT ![d] = req[d].thread]
    /\ req' = [req EXCEPT ![d] = [req[d] EXCEPT !.pc = "check"]]
    /\ UNCHANGED <<phase, modelVars, drag, globalsMutex, op>>

\* The cached image is returned when nothing changed at this size.
CacheHit(d) ==
    LET m == req[d].model IN
    ~hasChanged[d][m] /\ image[d][m].size = req[d].size

\* Early returns that hold only m_ModelsMutex: the cached image, or a black
\* image (no renderer, empty target, empty canvas).
ReturnEarly(d) ==
    /\ req[d].pc = "check"
    /\ modelsMutex' = [modelsMutex EXCEPT ![d] = NoThread]
    /\ req' = [req EXCEPT ![d] = NextOf(req[d])]
    /\ UNCHANGED <<phase, modelVars, drag, globalsMutex, op>>

\* setProjection() fixes the matrices of this frame from the current view
\* and sets m_HasChanged.
SetProjection(d) ==
    /\ req[d].pc = "check"
    /\ ~CacheHit(d)
    /\ hasChanged' = [hasChanged EXCEPT ![d][req[d].model] = TRUE]
    /\ req' = [req EXCEPT ![d] = [req[d] EXCEPT !.pc = "globals", !.view = view[d][req[d].model]]]
    /\ UNCHANGED <<phase, loaded, view, mode, image, drag, modelsMutex, globalsMutex, op>>

\* renderGlobalsLock, the cross-document mutex.
LockGlobals_Skip(d) ==
    /\ req[d].pc = "globals"
    /\ globalsMutex' = req[d].thread
    /\ req' = [req EXCEPT ![d] = [req[d] EXCEPT !.pc = "queue"]]
    /\ UNCHANGED <<phase, modelVars, drag, modelsMutex, op>>

LockGlobals(d) ==
    /\ req[d].pc = "globals"
    /\ globalsMutex = NoThread
    /\ globalsMutex' = req[d].thread
    /\ req' = [req EXCEPT ![d] = [req[d] EXCEPT !.pc = "queue"]]
    /\ UNCHANGED <<phase, modelVars, drag, modelsMutex, op>>

\* Clear the global buffers and QueueMesh() the model's geometry for its
\* draw mode.
QueueMesh(d) ==
    /\ req[d].pc = "queue"
    /\ req' = [req EXCEPT ![d] = [req[d] EXCEPT !.pc = "render", !.mesh = mode[d][req[d].model]]]
    /\ UNCHANGED <<phase, modelVars, drag, modelsMutex, globalsMutex, op>>

\* Everything was culled (background image) or render() returned nullptr
\* (black image): nothing is cached and both guards are released.
RenderNothing(d) ==
    /\ req[d].pc = "render"
    /\ modelsMutex' = [modelsMutex EXCEPT ![d] = NoThread]
    /\ globalsMutex' = NoThread
    /\ req' = [req EXCEPT ![d] = NextOf(req[d])]
    /\ UNCHANGED <<phase, modelVars, drag, op>>

\* render() succeeds: the frame becomes the cached image.
StoreImage(d) ==
    LET m == req[d].model IN
    /\ req[d].pc = "render"
    /\ hasChanged' = [hasChanged EXCEPT ![d][m] = FALSE]
    /\ image' = [image EXCEPT ![d][m] =
                   [size |-> req[d].size, view |-> req[d].view,
                    mode |-> mode[d][m], mesh |-> req[d].mesh]]
    /\ modelsMutex' = [modelsMutex EXCEPT ![d] = NoThread]
    /\ globalsMutex' = NoThread
    /\ req' = [req EXCEPT ![d] = NextOf(req[d])]
    /\ UNCHANGED <<phase, loaded, view, mode, drag, op>>

\* An exception leaves RenderModel(): the guards unwind and the generator's
\* catch block completes the request without the remaining models.
Throw(d) ==
    /\ req[d].pc \in {"check", "queue", "render"}
    /\ modelsMutex' = [modelsMutex EXCEPT ![d] = NoThread]
    /\ globalsMutex' = IF req[d].pc = "check" THEN globalsMutex ELSE NoThread
    /\ req' = [req EXCEPT ![d] = NoRequest(Main)]
    /\ UNCHANGED <<phase, modelVars, drag, op>>

-----------------------------------------------------------------------------
(* Input events (main thread).                                             *)

\* mouseButtonPressEvent / keyPressEvent: hit-test the mouse position.  The
\* hit test reads and resizes the request cache without the mutex.
StartHit(d, k) ==
    /\ EventLoop
    /\ loaded[d] # {}
    /\ k = "press" \/ k \in Keys
    /\ op' = [pc |-> "hit", kind |-> k, doc |-> d, model |-> NoModel]
    /\ UNCHANGED <<phase, modelVars, drag, modelsMutex, globalsMutex, req>>

EndHandler == op' = [op EXCEPT !.pc = "idle", !.kind = "none", !.model = NoModel]

\* The hit test finds a page of an open document under the mouse, or none.
HitTest ==
    /\ op.pc = "hit"
    /\ \/ EndHandler
       \/ /\ phase[op.doc] = "open"
          /\ op' = [op EXCEPT !.pc = IF op.kind = "press" THEN "pick" ELSE "key"]
    /\ UNCHANGED <<phase, modelVars, drag, modelsMutex, globalsMutex, req>>

\* Press: pick the model under the mouse under the mutex and start a drag.
Pick ==
    /\ op.pc = "pick"
    /\ modelsMutex[op.doc] = NoThread
    /\ \/ UNCHANGED drag
       \/ \E m \in loaded[op.doc] : drag' = [drag EXCEPT ![op.doc] = m]
    /\ EndHandler
    /\ UNCHANGED <<phase, modelVars, modelsMutex, globalsMutex, req>>

\* mouseButtonReleaseEvent with the left button.
ReleaseButton(d) ==
    /\ EventLoop
    /\ loaded[d] # {}
    /\ drag' = [drag EXCEPT ![d] = NoModel]
    /\ UNCHANGED <<phase, modelVars, modelsMutex, globalsMutex, req, op>>

\* mouseMoveEvent while dragging, and wheelEvent on the dragged model or on
\* the only model of a standalone document.
StartMove(d, k) ==
    /\ EventLoop
    /\ loaded[d] # {}
    /\ \E m \in loaded[d] :
         /\ \/ drag[d] = m
            \/ k = "wheel" /\ drag[d] = NoModel /\ loaded[d] = {m} /\ d \notin Threaded
         /\ op' = [pc |-> "lock", kind |-> k, doc |-> d, model |-> m]
    /\ UNCHANGED <<phase, modelVars, drag, modelsMutex, globalsMutex, req>>

LockForMove ==
    /\ op.pc = "lock"
    /\ modelsMutex[op.doc] = NoThread
    /\ modelsMutex' = [modelsMutex EXCEPT ![op.doc] = Main]
    /\ op' = [op EXCEPT !.pc = "held"]
    /\ UNCHANGED <<phase, modelVars, drag, globalsMutex, req>>

\* The model's camera moves (dragMode*, wheel zoom), or the movement is too
\* small to count; the lock is released before the refresh.
Move_RefreshLocked ==
    /\ op.pc = "held"
    /\ \E v \in Views :
         /\ view' = [view EXCEPT ![op.doc][op.model] = v]
         /\ hasChanged' = [hasChanged EXCEPT ![op.doc][op.model] = TRUE]
    /\ op' = [op EXCEPT !.pc = "refresh"]
    /\ UNCHANGED <<phase, loaded, mode, image, drag, modelsMutex, globalsMutex, req>>

Move_SilentChange ==
    /\ op.pc = "held"
    /\ \E v \in Views : view' = [view EXCEPT ![op.doc][op.model] = v]
    /\ modelsMutex' = [modelsMutex EXCEPT ![op.doc] = NoThread]
    /\ op' = [op EXCEPT !.pc = "refresh"]
    /\ UNCHANGED <<phase, loaded, hasChanged, mode, image, drag, globalsMutex, req>>

Move ==
    /\ op.pc = "held"
    /\ \/ UNCHANGED <<view, hasChanged>>
       \/ \E v \in Views :
            /\ view' = [view EXCEPT ![op.doc][op.model] = v]
            /\ hasChanged' = [hasChanged EXCEPT ![op.doc][op.model] = TRUE]
    /\ modelsMutex' = [modelsMutex EXCEPT ![op.doc] = NoThread]
    /\ op' = [op EXCEPT !.pc = "refresh"]
    /\ UNCHANGED <<phase, loaded, mode, image, drag, globalsMutex, req>>

\* wheelEvent returns before zooming when the mouse is not on the model.
WheelMiss ==
    /\ op.pc = "held"
    /\ op.kind = "wheel"
    /\ modelsMutex' = [modelsMutex EXCEPT ![op.doc] = NoThread]
    /\ EndHandler
    /\ UNCHANGED <<phase, modelVars, drag, globalsMutex, req>>

\* H: home(); M: cycleMode() of the model under the mouse, both without
\* m_ModelsMutex.  Without a model there the key is swallowed.
PressKey_NoWrap ==
    /\ op.pc = "key"
    /\ \E m \in loaded[op.doc] :
         /\ mode' = [mode EXCEPT ![op.doc][m] = IF op.kind = "M" THEN @ + 1 ELSE @]
         /\ hasChanged' = [hasChanged EXCEPT ![op.doc][m] = TRUE]
         /\ op' = [op EXCEPT !.pc = "refresh"]
    /\ UNCHANGED <<phase, loaded, view, image, drag, modelsMutex, globalsMutex, req>>

PressKey_Silent ==
    /\ op.pc = "key"
    /\ \E m \in loaded[op.doc] :
         /\ view' = [view EXCEPT ![op.doc][m] = HomeView]
         /\ op' = [op EXCEPT !.pc = "refresh"]
    /\ UNCHANGED <<phase, loaded, mode, hasChanged, image, drag, modelsMutex, globalsMutex, req>>

PressKey ==
    /\ op.pc = "key"
    /\ \/ EndHandler /\ UNCHANGED <<view, mode, hasChanged>>
       \/ \E m \in loaded[op.doc] :
            /\ view' = [view EXCEPT ![op.doc][m] = IF op.kind = "H" THEN HomeView ELSE @]
            /\ mode' = [mode EXCEPT ![op.doc][m] = IF op.kind = "M" THEN (@ + 1) % Modes ELSE @]
            /\ hasChanged' = [hasChanged EXCEPT ![op.doc][m] = TRUE]
            /\ op' = [op EXCEPT !.pc = "refresh"]
    /\ UNCHANGED <<phase, loaded, image, drag, modelsMutex, globalsMutex, req>>

\* refreshPixmap() (or the throttled requestPixmapRefresh()) has returned,
\* and with it any request Okular executed on Main within it.
RefreshDone ==
    /\ op.pc = "refresh"
    /\ MainFree
    /\ EndHandler
    /\ UNCHANGED <<phase, modelVars, drag, modelsMutex, globalsMutex, req>>

-----------------------------------------------------------------------------
RequestStep(d) ==
    \/ Snapshot(d) \/ NextModel(d)
    \/ CacheRequest(d) \/ CacheRequestDone(d) \/ ServeCached(d)
    \/ LockModels(d) \/ ReturnEarly(d) \/ SetProjection(d)
    \/ LockGlobals(d) \/ QueueMesh(d) \/ RenderNothing(d) \/ StoreImage(d)
    \/ Throw(d)

HandlerStep ==
    \/ HitTest \/ Pick \/ LockForMove \/ Move \/ WheelMiss \/ PressKey \/ RefreshDone

Next ==
    \/ \E d \in Docs :
        \/ SetDocument(d) \/ FinishLoad(d) \/ FailLoad(d) \/ CloseDocument(d)
        \/ \E m \in Models : AddModel(d, m)
        \/ \E t \in Threads, s \in Sizes : StartRequest(d, t, s)
        \/ RequestStep(d)
        \/ \E k \in {"press", "H", "M"} : StartHit(d, k)
        \/ \E k \in {"drag", "wheel"} : StartMove(d, k)
        \/ ReleaseButton(d)
    \/ HandlerStep

Spec == Init /\ [][Next]_vars

\* A started request or handler keeps running, and a thread waiting for a
\* mutex that is released again and again eventually gets it.
Fairness ==
    /\ \A d \in Docs : SF_vars(RequestStep(d))
    /\ SF_vars(HandlerStep)

FairSpec == Spec /\ Fairness

-----------------------------------------------------------------------------
(* Properties.                                                             *)

\* Requests between the acquisition and the release of a guard.
HoldsModels(d)  == req[d].pc \in {"caching", "check", "globals", "queue", "render"}
HoldsGlobals(d) == req[d].pc \in {"queue", "render"}

\* A request has a size, and a model while it serves one; so does a handler
\* that is about to move a model.
TargetInv ==
    /\ \A d \in Docs :
         /\ req[d].pc # "idle" => req[d].size \in Sizes
         /\ req[d].pc \notin {"idle", "snapshot", "next"} => req[d].model \in Models
    /\ op.pc \in {"lock", "held"} => op.model \in Models

\* The strengthening behind the lock properties: who owns each mutex, and
\* what Main can be doing while it executes a request.
LockInv ==
    /\ \A d \in Docs :
         /\ req[d].thread \in {d, Main}
         /\ d \notin Threaded => req[d].thread = Main
         /\ phase[d] # "open" => req[d].pc = "idle"
         /\ HoldsModels(d) => modelsMutex[d] = req[d].thread
         /\ HoldsGlobals(d) => globalsMutex = req[d].thread
         /\ modelsMutex[d] # NoThread => HoldsModels(d) \/ (op.pc = "held" /\ op.doc = d)
         /\ OnMain(d) => op.pc \in {"idle", "refresh"}
    /\ op.pc = "held" => modelsMutex[op.doc] = Main /\ ~HoldsModels(op.doc)
    /\ globalsMutex # NoThread => \E d \in Docs : HoldsGlobals(d)
    /\ \A d, e \in Docs : HoldsGlobals(d) /\ HoldsGlobals(e) => d = e
    /\ \A d, e \in Docs : OnMain(d) /\ OnMain(e) => d = e

\* The documents whose looks only change under the lock, or on the very
\* thread that renders them: all of them as long as no key is pressed, and
\* otherwise those without a pixmap thread.
Unraced == IF Keys = {} THEN Docs ELSE Docs \ Threaded

\* The strengthening behind cache coherence: a render that has fixed its
\* matrices still sees the view and draw mode it started from.
FrameInv ==
    /\ \A d \in Unraced :
         /\ req[d].pc \in {"globals", "queue", "render"} =>
              /\ hasChanged[d][req[d].model]
              /\ req[d].view = view[d][req[d].model]
         /\ req[d].pc = "render" => req[d].mesh = mode[d][req[d].model]
    /\ Keys = {} => op.pc # "key" /\ (op.pc = "hit" => op.kind = "press")

\* The strengthening behind the refinement: what a request or a handler is
\* working on has not been unloaded under it.
WorksOnLoaded ==
    /\ \A d \in Docs : req[d].pc # "idle" =>
         /\ req[d].todo \subseteq loaded[d]
         /\ req[d].pc \notin {"snapshot", "next"} => req[d].model \in loaded[d]
    /\ op.pc \in {"lock", "held"} => op.model \in loaded[op.doc]

\* Two renders, of whatever documents and on whatever threads, are never
\* inside the section of RenderModel() that clears, fills and draws the
\* process-global scene buffers at the same time.
GlobalsExclusive ==
    \A d, e \in Docs : HoldsGlobals(d) /\ HoldsGlobals(e) => d = e

\* A model whose m_HasChanged is false has a cached image of its present
\* view and draw mode: the early return of RenderModel() never serves a
\* frame that predates the user's last input.
Coherent(d) ==
    \A m \in loaded[d] :
        ~hasChanged[d][m] =>
            /\ image[d][m].size # NullSize
            /\ image[d][m].view = view[d][m]
            /\ image[d][m].mode = mode[d][m]
            /\ image[d][m].mesh = mode[d][m]

CacheCoherent == \A d \in Docs : Coherent(d)

\* The same where it survives the keys, whose handler changes a model outside
\* m_ModelsMutex: home() and cycleMode() of a standalone document run on the
\* thread that also renders it, so they never meet one of its renders.
CoherentUnraced == \A d \in Unraced : Coherent(d)

\* The owners of the mutexes thread t is waiting for, in one of its requests
\* or in an event handler.
WaitsFor(t) ==
    LET Waiting(pcs) == {d \in Docs : req[d].thread = t /\ req[d].pc \in pcs}
        Handling == IF t = Main /\ op.pc \in {"pick", "lock"} THEN {op.doc} ELSE {}
    IN  {modelsMutex[d] : d \in Waiting({"snapshot", "cache", "serve", "lock"}) \cup Handling}
          \cup {globalsMutex : d \in Waiting({"globals"})}

\* No deadlock: in every set of threads there is one that waits for none of
\* the set.  In particular no thread waits for a (non-recursive) mutex it
\* owns, as it would if a handler refreshed, and so rendered, within the lock.
NoCircularWait ==
    \A T \in SUBSET Threads :
        T # {} => \E t \in T : WaitsFor(t) \cap T = {}

\* The raw pointer m_ActiveModel that mouse moves dereference points at a
\* model that is still in m_Models, whatever was loaded since the press.
DragTargetLoaded ==
    \A d \in Docs : drag[d] # NoModel => drag[d] \in loaded[d]

\* Main never touches the request cache outside m_ModelsMutex while the
\* pixmap thread of the same document is inside the mutex.
RequestCacheGuarded ==
    \A d \in Docs :
        ~ /\ op.doc = d /\ op.pc \in {"hit", "refresh"}
          /\ req[d].thread = d /\ req[d].pc \in {"caching", "check"}

\* Every request Okular hands to a generator is completed: no early return
\* leaves a mutex locked and no two threads wait for each other.
RequestCompletes ==
    \A d \in Docs : (req[d].pc # "idle") ~> (req[d].pc = "idle")

\* ModelManager without its locks and steps: a model's look is its view and
\* the draw mode its geometry is queued for and drawn in, and a cached image
\* shows the view it was projected from and the two draw modes it was made in.
Frame(i) == IF i.size = NullSize THEN <<>> ELSE <<i.view, i.mesh, i.mode>>

Serving == {d \in Unraced : req[d].pc # "idle"}
Loaded  == [d \in Unraced |-> loaded[d]]
Looks   == [d \in Unraced |-> [m \in Models |-> <<view[d][m], mode[d][m], mode[d][m]>>]]
Frames  == [d \in Unraced |-> [m \in Models |-> Frame(image[d][m])]]
Fresh   == [d \in Unraced |-> [m \in Models |-> ~hasChanged[d][m]]]

Atomic == INSTANCE AtomicManager WITH
    Docs <- Unraced, Looks <- Views \X Mode \X Mode, HomeLook <- <<HomeView, 0, 0>>,
    NoFrame <- <<>>, serving <- Serving, loaded <- Loaded, look <- Looks,
    frame <- Frames, fresh <- Fresh

\* Rendering is atomic: although RenderModel() reads the camera, queues the
\* geometry, draws it and stores the frame at different times, and input
\* arrives in between, every behaviour is one in which each frame is made in
\* one step from the camera and draw mode of the moment it is stored.
RendersAtomically == Atomic!Spec

=============================================================================
