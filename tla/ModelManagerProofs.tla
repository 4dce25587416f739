------------------------- MODULE ModelManagerProofs -------------------------
(* Theorems about ModelManager, for any number of documents, models, views, *)
(* sizes and draw modes.                                                    *)
EXTENDS ModelManager, TLAPS

USE ThreadAssumption, DataAssumption

-----------------------------------------------------------------------------
(* Type correctness.                                                        *)

\* cycleMode() stays within the draw modes.
LEMMA ModeZero == 0 \in Mode /\ \A n \in Mode : (n + 1) % Modes \in Mode
BY SMT DEF Mode

\* What TypeOK says of one request.
LEMMA RequestTypes ==
    /\ \A t \in Threads : NoRequest(t) \in Request
    /\ \A t \in Threads, s \in Sizes :
         [NoRequest(t) EXCEPT !.pc = "snapshot", !.size = s] \in Request
    /\ NullImage \in Image
BY ModeZero DEF NoRequest, Request, RequestPc, NullImage, Image, Threads

\* The updates of a request record that the actions make.
LEMMA RequestUpdates ==
    ASSUME NEW q \in Request
    PROVE  /\ NextOf(q) \in Request
           /\ \A pc \in RequestPc : [q EXCEPT !.pc = pc] \in Request
           /\ \A S \in SUBSET Models : [q EXCEPT !.pc = "next", !.todo = S] \in Request
           /\ \A m \in Models :
                [q EXCEPT !.pc = "cache", !.model = m, !.todo = q.todo \ {m}] \in Request
           /\ \A v \in Views : [q EXCEPT !.pc = "globals", !.view = v] \in Request
           /\ \A n \in Mode : [q EXCEPT !.pc = "render", !.mesh = n] \in Request
<1>1. NextOf(q) \in Request
  BY ModeZero DEF NextOf, Request, RequestPc
<1>2. \A pc \in RequestPc : [q EXCEPT !.pc = pc] \in Request
  BY DEF Request, RequestPc
<1>3. \A S \in SUBSET Models : [q EXCEPT !.pc = "next", !.todo = S] \in Request
  BY DEF Request, RequestPc
<1>4. \A m \in Models :
         [q EXCEPT !.pc = "cache", !.model = m, !.todo = q.todo \ {m}] \in Request
  BY DEF Request, RequestPc
<1>5. \A v \in Views : [q EXCEPT !.pc = "globals", !.view = v] \in Request
  BY DEF Request, RequestPc
<1>6. \A n \in Mode : [q EXCEPT !.pc = "render", !.mesh = n] \in Request
  BY DEF Request, RequestPc
<1> QED
  BY <1>1, <1>2, <1>3, <1>4, <1>5, <1>6

\* A manager starts well typed, with nothing rendering.
LEMMA TypeInit == Init => TypeOK
<1> SUFFICES ASSUME Init PROVE TypeOK
  OBVIOUS
<1>1. op \in Handler
  BY DEF Init, Handler, HandlerPc, Kinds
<1>2. req \in [Docs -> Request]
  BY RequestTypes DEF Init, Threads
<1>3. image \in [Docs -> [Models -> Image]]
  BY RequestTypes DEF Init
<1>4. /\ view \in [Docs -> [Models -> Views]]
      /\ mode \in [Docs -> [Models -> Mode]]
      /\ hasChanged \in [Docs -> [Models -> BOOLEAN]]
  BY ModeZero DEF Init
<1>5. /\ phase \in [Docs -> {"closed", "loading", "open"}]
      /\ loaded \in [Docs -> SUBSET Models]
      /\ drag \in [Docs -> Models \cup {NoModel}]
      /\ modelsMutex \in [Docs -> Threads \cup {NoThread}]
      /\ globalsMutex \in Threads \cup {NoThread}
  BY DEF Init
<1> QED
  BY <1>1, <1>2, <1>3, <1>4, <1>5 DEF TypeOK

\* Each step of a pixmap request keeps the types.
LEMMA TypeRequestStep ==
    ASSUME TypeOK, TargetInv, NEW d \in Docs, RequestStep(d)
    PROVE  TypeOK'
<1> USE DEF TypeOK, modelVars
<1>r. req[d] \in Request
  OBVIOUS
<1>t. req[d].thread \in Threads
  BY <1>r DEF Request
<1>1. CASE Snapshot(d)
  BY <1>r, <1>1, RequestUpdates DEF Snapshot
<1>2. CASE NextModel(d)
  <2>1. req' \in [Docs -> Request]
    <3>1. CASE req' = [req EXCEPT ![d] = NoRequest(Main)]
      BY <3>1, RequestTypes DEF Threads
    <3>2. CASE \E m \in req[d].todo : req' = [req EXCEPT ![d] =
                 [req[d] EXCEPT !.pc = "cache", !.model = m, !.todo = req[d].todo \ {m}]]
      <4>1. PICK m \in req[d].todo : req' = [req EXCEPT ![d] =
                 [req[d] EXCEPT !.pc = "cache", !.model = m, !.todo = req[d].todo \ {m}]]
        BY <3>2
      <4>2. m \in Models
        BY <1>r DEF Request
      <4>3. [req[d] EXCEPT !.pc = "cache", !.model = m, !.todo = req[d].todo \ {m}] \in Request
        BY <1>r, <4>2, RequestUpdates
      <4> QED
        BY <4>1, <4>3
    <3> QED
      BY <1>2, <3>1, <3>2 DEF NextModel
  <2> QED
    BY <1>2, <2>1 DEF NextModel
<1>3. CASE CacheRequest(d)
  BY <1>r, <1>t, <1>3, RequestUpdates DEF CacheRequest, RequestPc
<1>4. CASE CacheRequestDone(d)
  <2>1. PICK pc \in {"lock", "serve"} : req' = [req EXCEPT ![d] = [req[d] EXCEPT !.pc = pc]]
    BY <1>4 DEF CacheRequestDone
  <2>2. [req[d] EXCEPT !.pc = pc] \in Request
    BY <1>r, RequestUpdates DEF RequestPc
  <2> QED
    BY <1>4, <2>1, <2>2 DEF CacheRequestDone
<1>5. CASE ServeCached(d)
  <2>1. NextOf(req[d]) \in Request /\ [req[d] EXCEPT !.pc = "lock"] \in Request
    BY <1>r, RequestUpdates DEF RequestPc
  <2>2. req' \in [Docs -> Request]
    <3>1. CASE req' = [req EXCEPT ![d] = NextOf(req[d])]
      BY <2>1, <3>1
    <3>2. CASE req' = [req EXCEPT ![d] = [req[d] EXCEPT !.pc = "lock"]]
      BY <2>1, <3>2
    <3> QED
      BY <1>5, <3>1, <3>2 DEF ServeCached
  <2> QED
    BY <1>5, <2>2 DEF ServeCached
<1>6. CASE LockModels(d)
  BY <1>r, <1>t, <1>6, RequestUpdates DEF LockModels, RequestPc
<1>7. CASE ReturnEarly(d)
  BY <1>r, <1>7, RequestUpdates DEF ReturnEarly
<1>8. CASE SetProjection(d)
  <2>1. req[d].model \in Models
    BY <1>8 DEF SetProjection, TargetInv
  <2>2. view[d][req[d].model] \in Views
    BY <2>1
  <2>3. [req[d] EXCEPT !.pc = "globals", !.view = view[d][req[d].model]] \in Request
    BY <1>r, <2>2, RequestUpdates
  <2>4. req' \in [Docs -> Request]
    BY <1>8, <2>3 DEF SetProjection
  <2>5. hasChanged' \in [Docs -> [Models -> BOOLEAN]]
    BY <1>8, <2>1 DEF SetProjection
  <2> QED
    BY <1>8, <2>4, <2>5 DEF SetProjection
<1>9. CASE LockGlobals(d)
  BY <1>r, <1>t, <1>9, RequestUpdates DEF LockGlobals, RequestPc
<1>10. CASE QueueMesh(d)
  <2>1. req[d].model \in Models
    BY <1>10 DEF QueueMesh, TargetInv
  <2>2. mode[d][req[d].model] \in Mode
    BY <2>1
  <2>3. [req[d] EXCEPT !.pc = "render", !.mesh = mode[d][req[d].model]] \in Request
    BY <1>r, <2>2, RequestUpdates
  <2> QED
    BY <1>10, <2>3 DEF QueueMesh
<1>11. CASE RenderNothing(d)
  BY <1>r, <1>11, RequestUpdates DEF RenderNothing
<1>12. CASE StoreImage(d)
  <2>1. req[d].model \in Models
    BY <1>12 DEF StoreImage, TargetInv
  <2>2. /\ mode[d][req[d].model] \in Mode
        /\ req[d].size \in Sizes \cup {NullSize}
        /\ req[d].view \in Views
        /\ req[d].mesh \in Mode
    BY <1>r, <2>1 DEF Request
  <2>3. [size |-> req[d].size, view |-> req[d].view,
         mode |-> mode[d][req[d].model], mesh |-> req[d].mesh] \in Image
    BY <2>2 DEF Image
  <2>4. image' \in [Docs -> [Models -> Image]]
    BY <1>12, <2>1, <2>3 DEF StoreImage
  <2>5. hasChanged' \in [Docs -> [Models -> BOOLEAN]]
    BY <1>12, <2>1 DEF StoreImage
  <2>6. req' \in [Docs -> Request]
    BY <1>r, <1>12, RequestUpdates DEF StoreImage
  <2> QED
    BY <1>12, <2>4, <2>5, <2>6 DEF StoreImage
<1>13. CASE Throw(d)
  BY <1>13, RequestTypes DEF Throw, Threads
<1> QED
  BY <1>1, <1>2, <1>3, <1>4, <1>5, <1>6, <1>7, <1>8, <1>9, <1>10, <1>11, <1>12, <1>13
  DEF RequestStep

\* The updates of the handler record.
LEMMA HandlerUpdates ==
    ASSUME op \in Handler
    PROVE  /\ op.doc \in Docs
           /\ op.model \in Models \cup {NoModel}
           /\ EndHandler => op' \in Handler
           /\ \A pc \in HandlerPc : [op EXCEPT !.pc = pc] \in Handler
BY DEF Handler, HandlerPc, Kinds, EndHandler

\* Each step of an event handler keeps the types.
LEMMA TypeHandlerStep ==
    ASSUME TypeOK, TargetInv, HandlerStep
    PROVE  TypeOK'
<1> USE DEF TypeOK, modelVars
<1>d. op.doc \in Docs /\ op.model \in Models \cup {NoModel}
  BY HandlerUpdates
<1>1. CASE HitTest
  <2>1. op' \in Handler
    BY <1>1, HandlerUpdates DEF HitTest, HandlerPc
  <2> QED
    BY <1>1, <2>1 DEF HitTest
<1>2. CASE Pick
  <2>1. drag' \in [Docs -> Models \cup {NoModel}]
    <3>1. CASE \E m \in loaded[op.doc] : drag' = [drag EXCEPT ![op.doc] = m]
      BY <1>d, <3>1
    <3> QED
      BY <1>2, <3>1 DEF Pick
  <2>2. op' \in Handler
    BY <1>2, HandlerUpdates DEF Pick
  <2> QED
    BY <1>2, <2>1, <2>2 DEF Pick
<1>3. CASE LockForMove
  <2>1. op' \in Handler
    BY <1>3, HandlerUpdates DEF LockForMove, HandlerPc
  <2>2. modelsMutex' \in [Docs -> Threads \cup {NoThread}]
    BY <1>3, <1>d DEF LockForMove, Threads
  <2> QED
    BY <1>3, <2>1, <2>2 DEF LockForMove
<1>4. CASE Move
  <2>1. op' \in Handler
    BY <1>4, HandlerUpdates DEF Move, HandlerPc
  <2>2. modelsMutex' \in [Docs -> Threads \cup {NoThread}]
    BY <1>4, <1>d DEF Move
  <2>3. op.model \in Models
    BY <1>4 DEF Move, TargetInv
  <2>4. /\ view' \in [Docs -> [Models -> Views]]
        /\ hasChanged' \in [Docs -> [Models -> BOOLEAN]]
    <3>1. CASE UNCHANGED <<view, hasChanged>>
      BY <3>1
    <3>2. CASE \E v \in Views :
                 /\ view' = [view EXCEPT ![op.doc][op.model] = v]
                 /\ hasChanged' = [hasChanged EXCEPT ![op.doc][op.model] = TRUE]
      <4>1. PICK v \in Views :
                 /\ view' = [view EXCEPT ![op.doc][op.model] = v]
                 /\ hasChanged' = [hasChanged EXCEPT ![op.doc][op.model] = TRUE]
        BY <3>2
      <4>2. view' \in [Docs -> [Models -> Views]]
        BY <4>1, <1>d, <2>3
      <4>3. hasChanged' \in [Docs -> [Models -> BOOLEAN]]
        BY <4>1, <1>d, <2>3
      <4> QED
        BY <4>2, <4>3
    <3> QED
      BY <1>4, <3>1, <3>2 DEF Move
  <2> QED
    BY <1>4, <2>1, <2>2, <2>4 DEF Move
<1>5. CASE WheelMiss
  <2>1. op' \in Handler
    BY <1>5, HandlerUpdates DEF WheelMiss
  <2>2. modelsMutex' \in [Docs -> Threads \cup {NoThread}]
    BY <1>5, <1>d DEF WheelMiss
  <2> QED
    BY <1>5, <2>1, <2>2 DEF WheelMiss
<1>6. CASE PressKey
  <2>1. CASE EndHandler /\ UNCHANGED <<view, mode, hasChanged>>
    <3>1. op' \in Handler
      BY <2>1, HandlerUpdates
    <3> QED
      BY <1>6, <2>1, <3>1 DEF PressKey
  <2>2. CASE ~(EndHandler /\ UNCHANGED <<view, mode, hasChanged>>)
    <3>1. PICK m \in loaded[op.doc] :
            /\ view' = [view EXCEPT ![op.doc][m] = IF op.kind = "H" THEN HomeView ELSE @]
            /\ mode' = [mode EXCEPT ![op.doc][m] = IF op.kind = "M" THEN (@ + 1) % Modes ELSE @]
            /\ hasChanged' = [hasChanged EXCEPT ![op.doc][m] = TRUE]
            /\ op' = [op EXCEPT !.pc = "refresh"]
      BY <1>6, <2>2 DEF PressKey
    <3>2. m \in Models
      BY <1>d
    <3>3. op' \in Handler
      BY <3>1, HandlerUpdates DEF HandlerPc
    <3>4. hasChanged' \in [Docs -> [Models -> BOOLEAN]]
      BY <1>d, <3>1, <3>2
    <3>5. view' \in [Docs -> [Models -> Views]]
      BY <1>d, <3>1, <3>2
    <3>6. mode' \in [Docs -> [Models -> Mode]]
      <4>1. mode[op.doc][m] \in Mode /\ (mode[op.doc][m] + 1) % Modes \in Mode
        BY <1>d, <3>2, ModeZero
      <4> QED
        BY <1>d, <3>1, <3>2, <4>1
    <3> QED
      BY <1>6, <3>3, <3>4, <3>5, <3>6 DEF PressKey
  <2> QED
    BY <2>1, <2>2
<1>7. CASE RefreshDone
  <2>1. op' \in Handler
    BY <1>7, HandlerUpdates DEF RefreshDone
  <2> QED
    BY <1>7, <2>1 DEF RefreshDone
<1> QED
  BY <1>1, <1>2, <1>3, <1>4, <1>5, <1>6, <1>7 DEF HandlerStep

\* Loading, closing, and starting a request or a handler keep the types.
LEMMA TypeDocumentStep ==
    ASSUME TypeOK, NEW d \in Docs,
           \/ SetDocument(d) \/ FinishLoad(d) \/ FailLoad(d) \/ CloseDocument(d)
           \/ \E m \in Models : AddModel(d, m)
           \/ \E t \in Threads, s \in Sizes : StartRequest(d, t, s)
           \/ \E k \in {"press", "H", "M"} : StartHit(d, k)
           \/ \E k \in {"drag", "wheel"} : StartMove(d, k)
           \/ ReleaseButton(d)
    PROVE  TypeOK'
<1> USE DEF TypeOK, modelVars
<1>1. CASE SetDocument(d)
  <2>1. image' \in [Docs -> [Models -> Image]]
    BY <1>1, RequestTypes DEF SetDocument, ForgetModels
  <2>2. mode' \in [Docs -> [Models -> Mode]]
    BY <1>1, ModeZero DEF SetDocument, ForgetModels
  <2>3. /\ view' \in [Docs -> [Models -> Views]]
        /\ hasChanged' \in [Docs -> [Models -> BOOLEAN]]
        /\ loaded' \in [Docs -> SUBSET Models]
    BY <1>1 DEF SetDocument, ForgetModels
  <2> QED
    BY <1>1, <2>1, <2>2, <2>3 DEF SetDocument
<1>2. CASE FinishLoad(d) \/ FailLoad(d)
  BY <1>2 DEF FinishLoad, FailLoad
<1>3. CASE CloseDocument(d)
  BY <1>3 DEF CloseDocument
<1>4. CASE \E m \in Models : AddModel(d, m)
  <2>1. PICK m \in Models : AddModel(d, m)
    BY <1>4
  <2>2. image' \in [Docs -> [Models -> Image]]
    BY <2>1, RequestTypes DEF AddModel
  <2>3. mode' \in [Docs -> [Models -> Mode]]
    BY <2>1, ModeZero DEF AddModel
  <2>4. view' \in [Docs -> [Models -> Views]]
    BY <2>1 DEF AddModel
  <2>5. hasChanged' \in [Docs -> [Models -> BOOLEAN]]
    BY <2>1 DEF AddModel
  <2>6. loaded' \in [Docs -> SUBSET Models]
    BY <2>1 DEF AddModel
  <2> QED
    BY <2>1, <2>2, <2>3, <2>4, <2>5, <2>6 DEF AddModel
<1>5. CASE \E t \in Threads, s \in Sizes : StartRequest(d, t, s)
  <2>1. PICK t \in Threads, s \in Sizes : StartRequest(d, t, s)
    BY <1>5
  <2>2. req' \in [Docs -> Request]
    BY <2>1, RequestTypes DEF StartRequest
  <2> QED
    BY <2>1, <2>2 DEF StartRequest
<1>6. CASE \E k \in {"press", "H", "M"} : StartHit(d, k)
  <2>1. op' \in Handler
    BY <1>6 DEF StartHit, Handler, HandlerPc, Kinds
  <2> QED
    BY <1>6, <2>1 DEF StartHit
<1>7. CASE \E k \in {"drag", "wheel"} : StartMove(d, k)
  <2>1. op' \in Handler
    BY <1>7 DEF StartMove, Handler, HandlerPc, Kinds
  <2> QED
    BY <1>7, <2>1 DEF StartMove
<1>8. CASE ReleaseButton(d)
  BY <1>8 DEF ReleaseButton
<1> QED
  BY <1>1, <1>2, <1>3, <1>4, <1>5, <1>6, <1>7, <1>8

-----------------------------------------------------------------------------
(* The lock discipline.                                                     *)

\* The request of d moves to pc on the same thread, at the same size; the
\* requests of other documents stay where they are.
Advance(d, pc) ==
    /\ req'[d].pc = pc
    /\ req'[d].thread = req[d].thread
    /\ req'[d].size = req[d].size
    /\ \A e \in Docs \ {d} : req'[e] = req[e]

\* How one step of a request can move it and what else it may change.
LEMMA RequestMoves ==
    ASSUME TypeOK, NEW d \in Docs
    PROVE  /\ Snapshot(d) => Advance(d, "next")
           /\ NextModel(d) =>
                \/ Advance(d, "cache") /\ req'[d].model \in Models
                \/ req'[d] = NoRequest(Main) /\ \A e \in Docs \ {d} : req'[e] = req[e]
           /\ CacheRequest(d) => Advance(d, "caching") /\ req'[d].model = req[d].model
           /\ CacheRequestDone(d) =>
                (Advance(d, "lock") \/ Advance(d, "serve")) /\ req'[d].model = req[d].model
           /\ ServeCached(d) =>
                \/ Advance(d, "next")
                \/ Advance(d, "lock") /\ req'[d].model = req[d].model
           /\ LockModels(d) => Advance(d, "check") /\ req'[d].model = req[d].model
           /\ ReturnEarly(d) => Advance(d, "next")
           /\ SetProjection(d) =>
                /\ Advance(d, "globals") /\ req'[d].model = req[d].model
                /\ req'[d].view = view[d][req[d].model]
           /\ LockGlobals(d) =>
                /\ Advance(d, "queue") /\ req'[d].model = req[d].model
                /\ req'[d].view = req[d].view
           /\ QueueMesh(d) =>
                /\ Advance(d, "render") /\ req'[d].model = req[d].model
                /\ req'[d].view = req[d].view
                /\ req'[d].mesh = mode[d][req[d].model]
           /\ RenderNothing(d) => Advance(d, "next")
           /\ StoreImage(d) => Advance(d, "next")
           /\ Throw(d) => req'[d] = NoRequest(Main) /\ \A e \in Docs \ {d} : req'[e] = req[e]
<1>r. req \in [Docs -> Request] /\ req[d] \in Request
  BY DEF TypeOK
<1> USE DEF Advance
<1>1. Snapshot(d) => Advance(d, "next")
  BY <1>r DEF Snapshot, Request
<1>2. NextModel(d) =>
         \/ Advance(d, "cache") /\ req'[d].model \in Models
         \/ req'[d] = NoRequest(Main) /\ \A e \in Docs \ {d} : req'[e] = req[e]
  <2> SUFFICES ASSUME NextModel(d), NEW m \in req[d].todo,
                      req' = [req EXCEPT ![d] =
                 [req[d] EXCEPT !.pc = "cache", !.model = m, !.todo = req[d].todo \ {m}]]
               PROVE  Advance(d, "cache") /\ req'[d].model \in Models
    BY <1>r DEF NextModel
  <2> QED
    BY <1>r DEF Request
<1>3. CacheRequest(d) => Advance(d, "caching") /\ req'[d].model = req[d].model
  BY <1>r DEF CacheRequest, Request
<1>4. CacheRequestDone(d) =>
         (Advance(d, "lock") \/ Advance(d, "serve")) /\ req'[d].model = req[d].model
  BY <1>r DEF CacheRequestDone, Request
<1>5. ServeCached(d) =>
         \/ Advance(d, "next")
         \/ Advance(d, "lock") /\ req'[d].model = req[d].model
  <2>1. CASE req' = [req EXCEPT ![d] = NextOf(req[d])]
    BY <1>r, <2>1 DEF Request, NextOf
  <2>2. CASE req' = [req EXCEPT ![d] = [req[d] EXCEPT !.pc = "lock"]]
    BY <1>r, <2>2 DEF Request
  <2> QED
    BY <2>1, <2>2 DEF ServeCached
<1>6. LockModels(d) => Advance(d, "check") /\ req'[d].model = req[d].model
  BY <1>r DEF LockModels, Request
<1>7. ReturnEarly(d) => Advance(d, "next")
  BY <1>r DEF ReturnEarly, Request, NextOf
<1>8. SetProjection(d) =>
         /\ Advance(d, "globals") /\ req'[d].model = req[d].model
         /\ req'[d].view = view[d][req[d].model]
  BY <1>r DEF SetProjection, Request
<1>9. LockGlobals(d) =>
         /\ Advance(d, "queue") /\ req'[d].model = req[d].model
         /\ req'[d].view = req[d].view
  BY <1>r DEF LockGlobals, Request
<1>10. QueueMesh(d) =>
         /\ Advance(d, "render") /\ req'[d].model = req[d].model
         /\ req'[d].view = req[d].view
         /\ req'[d].mesh = mode[d][req[d].model]
  BY <1>r DEF QueueMesh, Request
<1>11. RenderNothing(d) => Advance(d, "next")
  BY <1>r DEF RenderNothing, Request, NextOf
<1>12. StoreImage(d) => Advance(d, "next")
  BY <1>r DEF StoreImage, Request, NextOf
<1>13. Throw(d) => req'[d] = NoRequest(Main) /\ \A e \in Docs \ {d} : req'[e] = req[e]
  BY <1>r DEF Throw
<1> QED
  BY <1>1, <1>2, <1>3, <1>4, <1>5, <1>6, <1>7, <1>8, <1>9, <1>10, <1>11, <1>12, <1>13

\* Where the handler on Main goes.
LEMMA HandlerMoves ==
    ASSUME TypeOK
    PROVE  /\ HitTest => \/ op'.pc = "idle"
                         \/ op'.pc = "pick" /\ op.kind = "press"
                         \/ op'.pc = "key" /\ op.kind # "press"
           /\ Pick => op'.pc = "idle"
           /\ LockForMove => /\ op'.pc = "held"
                             /\ op'.doc = op.doc /\ op'.model = op.model
           /\ Move => op'.pc = "refresh" /\ op'.doc = op.doc
           /\ WheelMiss => op'.pc = "idle"
           /\ PressKey => op'.pc \in {"idle", "refresh"}
           /\ RefreshDone => op'.pc = "idle"
<1>o. op \in Handler
  BY DEF TypeOK
<1> USE <1>o DEF Handler, EndHandler
<1>1. HitTest => \/ op'.pc = "idle"
                 \/ op'.pc = "pick" /\ op.kind = "press"
                 \/ op'.pc = "key" /\ op.kind # "press"
  BY DEF HitTest
<1>2. Pick => op'.pc = "idle"
  BY DEF Pick
<1>3. LockForMove => op'.pc = "held" /\ op'.doc = op.doc /\ op'.model = op.model
  BY DEF LockForMove
<1>4. Move => op'.pc = "refresh" /\ op'.doc = op.doc
  BY DEF Move
<1>5. WheelMiss => op'.pc = "idle"
  BY DEF WheelMiss
<1>6. PressKey => op'.pc \in {"idle", "refresh"}
  BY DEF PressKey
<1>7. RefreshDone => op'.pc = "idle"
  BY DEF RefreshDone
<1> QED
  BY <1>1, <1>2, <1>3, <1>4, <1>5, <1>6, <1>7

\* A new request of d waits for its snapshot.
LEMMA StartMoves ==
    ASSUME TypeOK, NEW d \in Docs, NEW t \in Threads, NEW s \in Sizes, StartRequest(d, t, s)
    PROVE  /\ req'[d].pc = "snapshot" /\ req'[d].thread = t /\ req'[d].size = s
           /\ \A e \in Docs \ {d} : req'[e] = req[e]
BY DEF TypeOK, StartRequest, NoRequest

\* Every step keeps requests and the dragged pointer on models that are loaded.
LEMMA TargetStep ==
    ASSUME TypeOK, TargetInv, [Next]_vars
    PROVE  TargetInv'
<1>1. ASSUME NEW d \in Docs, RequestStep(d) PROVE TargetInv'
  <2>1. op' = op
    BY <1>1 DEF RequestStep, Snapshot, NextModel, CacheRequest, CacheRequestDone,
       ServeCached, LockModels, ReturnEarly, SetProjection, LockGlobals, QueueMesh,
       RenderNothing, StoreImage, Throw
  <2>2. \A e \in Docs \ {d} : req'[e] = req[e]
    BY <1>1, RequestMoves DEF RequestStep, Advance
  <2>3. req'[d].pc # "idle" => req'[d].size \in Sizes
    <3>1. req'[d].pc # "idle" => req'[d].size = req[d].size
      BY <1>1, RequestMoves DEF RequestStep, Advance, NoRequest
    <3>2. req[d].pc # "idle"
      BY <1>1 DEF RequestStep, Snapshot, NextModel, CacheRequest, CacheRequestDone,
         ServeCached, LockModels, ReturnEarly, SetProjection, LockGlobals, QueueMesh,
         RenderNothing, StoreImage, Throw
    <3> QED
      BY <3>1, <3>2 DEF TargetInv
  <2>4. req'[d].pc \notin {"idle", "snapshot", "next"} => req'[d].model \in Models
    <3>1. CASE NextModel(d)
      BY <3>1, RequestMoves DEF NoRequest
    <3>2. CASE ~NextModel(d)
      <4>1. \/ req'[d].pc \in {"next", "idle"}
            \/ req'[d].model = req[d].model
        BY <1>1, <3>2, RequestMoves DEF RequestStep, Advance, NoRequest
      <4>2. req[d].pc \notin {"idle", "snapshot", "next"} \/ req'[d].pc = "next"
        BY <1>1, <3>2, RequestMoves
        DEF RequestStep, Advance, Snapshot, CacheRequest, CacheRequestDone,
            ServeCached, LockModels, ReturnEarly, SetProjection, LockGlobals, QueueMesh,
            RenderNothing, StoreImage, Throw
      <4> QED
        BY <4>1, <4>2 DEF TargetInv
    <3> QED
      BY <3>1, <3>2
  <2> QED
    BY <2>1, <2>2, <2>3, <2>4 DEF TargetInv
<1>2. ASSUME HandlerStep PROVE TargetInv'
  <2>1. req' = req
    BY <1>2 DEF HandlerStep, HitTest, Pick, LockForMove, Move, WheelMiss, PressKey, RefreshDone
  <2>2. op'.pc \in {"lock", "held"} => op'.model \in Models
    BY <1>2, HandlerMoves DEF HandlerStep, TargetInv, LockForMove
  <2> QED
    BY <2>1, <2>2 DEF TargetInv
<1>3. ASSUME NEW d \in Docs,
             \/ SetDocument(d) \/ FinishLoad(d) \/ FailLoad(d) \/ CloseDocument(d)
             \/ \E m \in Models : AddModel(d, m)
             \/ ReleaseButton(d)
      PROVE TargetInv'
  <2>1. UNCHANGED <<req, op>>
    BY <1>3 DEF SetDocument, FinishLoad, FailLoad, CloseDocument, AddModel, ReleaseButton
  <2> QED
    BY <2>1 DEF TargetInv
<1>4. ASSUME NEW d \in Docs, NEW t \in Threads, NEW s \in Sizes, StartRequest(d, t, s)
      PROVE TargetInv'
  <2>1. op' = op
    BY <1>4 DEF StartRequest
  <2> QED
    BY <1>4, <2>1, StartMoves DEF TargetInv
<1>5. ASSUME NEW d \in Docs, NEW k \in {"press", "H", "M"}, StartHit(d, k)
      PROVE TargetInv'
  BY <1>5 DEF StartHit, TargetInv
<1>6. ASSUME NEW d \in Docs, NEW k \in {"drag", "wheel"}, StartMove(d, k)
      PROVE TargetInv'
  BY <1>6 DEF StartMove, TargetInv, TypeOK
<1>7. CASE UNCHANGED vars
  BY <1>7 DEF vars, TargetInv
<1> QED
  BY <1>1, <1>2, <1>3, <1>4, <1>5, <1>6, <1>7 DEF Next

\* Every reachable state of the manager and its threads is well typed; in
\* particular (drawMode + 1) % NUM_DRAW_MODES stays a draw mode and a render
\* always has a model and a size to work on.
THEOREM TypeCorrect == Spec => [](TypeOK /\ TargetInv)
<1>1. Init => TypeOK /\ TargetInv
  <2>1. Init => TargetInv
    BY DEF Init, TargetInv, NoRequest
  <2> QED
    BY <2>1, TypeInit
<1>2. TypeOK /\ TargetInv /\ [Next]_vars => (TypeOK /\ TargetInv)'
  <2> SUFFICES ASSUME TypeOK, TargetInv, [Next]_vars PROVE TypeOK' /\ TargetInv'
    OBVIOUS
  <2>1. CASE UNCHANGED vars
    BY <2>1, TargetStep DEF vars, TypeOK
  <2>2. CASE Next
    BY <2>2, TypeRequestStep, TypeHandlerStep, TypeDocumentStep, TargetStep DEF Next
  <2> QED
    BY <2>1, <2>2
<1> QED
  BY <1>1, <1>2, PTL DEF Spec

\* A step of a request keeps both mutexes owned by who is inside their sections.
LEMMA LockRequestStep ==
    ASSUME TypeOK, LockInv, NEW d \in Docs, RequestStep(d)
    PROVE  LockInv'
<1> USE DEF HoldsModels, HoldsGlobals, OnMain, Advance
<1>d. op.doc \in Docs
  BY HandlerUpdates DEF TypeOK
<1>m. modelsMutex \in [Docs -> Threads \cup {NoThread}]
  BY DEF TypeOK
<1>0. UNCHANGED <<phase, op>>
  BY DEF RequestStep, Snapshot, NextModel, CacheRequest, CacheRequestDone,
     ServeCached, LockModels, ReturnEarly, SetProjection, LockGlobals, QueueMesh,
     RenderNothing, StoreImage, Throw
<1>1. CASE Snapshot(d)
  <2>1. Advance(d, "next") /\ req[d].pc = "snapshot" /\ UNCHANGED <<modelsMutex, globalsMutex>>
    BY <1>1, RequestMoves DEF Snapshot
  <2> QED
    BY <1>0, <1>d, <1>m, <2>1 DEF LockInv
<1>2. CASE NextModel(d)
  <2>1. req[d].pc = "next" /\ UNCHANGED <<modelsMutex, globalsMutex>>
    BY <1>2 DEF NextModel
  <2>2. CASE Advance(d, "cache")
    BY <1>0, <1>d, <1>m, <2>1, <2>2 DEF LockInv
  <2>3. CASE req'[d] = NoRequest(Main) /\ \A e \in Docs \ {d} : req'[e] = req[e]
    BY <1>0, <1>d, <1>m, <2>1, <2>3 DEF LockInv, NoRequest
  <2> QED
    BY <1>2, <2>2, <2>3, RequestMoves
<1>3. CASE CacheRequest(d)
  <2>1. /\ Advance(d, "caching") /\ req[d].pc = "cache"
        /\ modelsMutex[d] = NoThread
        /\ modelsMutex' = [modelsMutex EXCEPT ![d] = req[d].thread]
        /\ UNCHANGED globalsMutex
    BY <1>3, RequestMoves DEF CacheRequest
  <2> QED
    BY <1>0, <1>d, <1>m, <2>1 DEF LockInv
<1>4. CASE CacheRequestDone(d)
  <2>1. /\ Advance(d, "lock") \/ Advance(d, "serve")
        /\ req[d].pc = "caching"
        /\ modelsMutex' = [modelsMutex EXCEPT ![d] = NoThread]
        /\ UNCHANGED globalsMutex
    BY <1>4, RequestMoves DEF CacheRequestDone
  <2> QED
    BY <1>0, <1>d, <1>m, <2>1 DEF LockInv
<1>5. CASE ServeCached(d)
  <2>1. /\ Advance(d, "next") \/ Advance(d, "lock")
        /\ req[d].pc = "serve"
        /\ UNCHANGED <<modelsMutex, globalsMutex>>
    BY <1>5, RequestMoves DEF ServeCached
  <2> QED
    BY <1>0, <1>d, <1>m, <2>1 DEF LockInv
<1>6. CASE LockModels(d)
  <2>1. /\ Advance(d, "check") /\ req[d].pc = "lock"
        /\ modelsMutex[d] = NoThread
        /\ modelsMutex' = [modelsMutex EXCEPT ![d] = req[d].thread]
        /\ UNCHANGED globalsMutex
    BY <1>6, RequestMoves DEF LockModels
  <2> QED
    BY <1>0, <1>d, <1>m, <2>1 DEF LockInv
<1>7. CASE ReturnEarly(d)
  <2>1. /\ Advance(d, "next") /\ req[d].pc = "check"
        /\ modelsMutex' = [modelsMutex EXCEPT ![d] = NoThread]
        /\ UNCHANGED globalsMutex
    BY <1>7, RequestMoves DEF ReturnEarly
  <2> QED
    BY <1>0, <1>d, <1>m, <2>1 DEF LockInv
<1>8. CASE SetProjection(d)
  <2>1. Advance(d, "globals") /\ req[d].pc = "check" /\ UNCHANGED <<modelsMutex, globalsMutex>>
    BY <1>8, RequestMoves DEF SetProjection
  <2> QED
    BY <1>0, <1>d, <1>m, <2>1 DEF LockInv
<1>9. CASE LockGlobals(d)
  <2>1. /\ Advance(d, "queue") /\ req[d].pc = "globals"
        /\ globalsMutex = NoThread /\ globalsMutex' = req[d].thread
        /\ UNCHANGED modelsMutex
    BY <1>9, RequestMoves DEF LockGlobals
  <2>2. \A e \in Docs : req[e].pc \notin {"queue", "render"}
    BY <2>1 DEF LockInv
  <2> QED
    BY <1>0, <1>d, <1>m, <2>1, <2>2 DEF LockInv
<1>10. CASE QueueMesh(d)
  <2>1. Advance(d, "render") /\ req[d].pc = "queue" /\ UNCHANGED <<modelsMutex, globalsMutex>>
    BY <1>10, RequestMoves DEF QueueMesh
  <2> QED
    BY <1>0, <1>d, <1>m, <2>1 DEF LockInv
<1>11. CASE RenderNothing(d) \/ StoreImage(d)
  <2>1. /\ Advance(d, "next") /\ req[d].pc = "render"
        /\ modelsMutex' = [modelsMutex EXCEPT ![d] = NoThread]
        /\ globalsMutex' = NoThread
    BY <1>11, RequestMoves DEF RenderNothing, StoreImage, Throw
  <2>2. \A e \in Docs \ {d} : req[e].pc \notin {"queue", "render"}
    BY <2>1 DEF LockInv
  <2> QED
    BY <1>0, <1>d, <1>m, <2>1, <2>2 DEF LockInv
<1>12. CASE Throw(d)
  <2>1. /\ req'[d].pc = "idle" /\ req'[d].thread = Main
        /\ \A e \in Docs \ {d} : req'[e] = req[e]
        /\ modelsMutex' = [modelsMutex EXCEPT ![d] = NoThread]
        /\ req[d].pc \in {"check", "queue", "render"}
        /\ globalsMutex' = IF req[d].pc = "check" THEN globalsMutex ELSE NoThread
    <3>1. req'[d] = NoRequest(Main) /\ \A e \in Docs \ {d} : req'[e] = req[e]
      BY <1>12, RequestMoves
    <3> QED
      BY <1>12, <3>1 DEF Throw, NoRequest
  <2>2. req[d].pc # "check" => \A e \in Docs \ {d} : req[e].pc \notin {"queue", "render"}
    BY <2>1 DEF LockInv
  <2>3. CASE req[d].pc = "check"
    BY <1>0, <1>d, <1>m, <2>1, <2>3 DEF LockInv
  <2>4. CASE req[d].pc # "check"
    BY <1>0, <1>d, <1>m, <2>1, <2>2, <2>4 DEF LockInv
  <2> QED
    BY <2>3, <2>4
<1> QED
  BY <1>1, <1>2, <1>3, <1>4, <1>5, <1>6, <1>7, <1>8, <1>9, <1>10, <1>11, <1>12
  DEF RequestStep

\* A step of an input handler keeps the mutexes owned likewise.
LEMMA LockHandlerStep ==
    ASSUME TypeOK, LockInv, HandlerStep
    PROVE  LockInv'
<1> USE DEF TypeOK, modelVars, HoldsModels, HoldsGlobals, OnMain
<1>0. UNCHANGED <<phase, req, globalsMutex>>
  BY DEF HandlerStep, HitTest, Pick, LockForMove, Move, WheelMiss, PressKey, RefreshDone
<1>d. op.doc \in Docs
  BY HandlerUpdates
\* A handler step other than the end of a refresh excludes requests on Main.
<1>1. CASE HitTest \/ Pick \/ PressKey \/ RefreshDone
  <2>1. /\ op.pc \in {"hit", "pick", "key", "refresh"}
        /\ modelsMutex' = modelsMutex
        /\ op.pc = "refresh" => MainFree
    BY <1>1 DEF HitTest, Pick, PressKey, RefreshDone
  <2>2. op'.pc \in {"idle", "pick", "key", "refresh"}
    BY <1>1, HandlerMoves
  <2>3. \A e \in Docs : req[e].thread = Main => req[e].pc = "idle"
    BY <2>1 DEF LockInv, MainFree
  <2> QED
    BY <1>0, <2>1, <2>2, <2>3 DEF LockInv
<1>2. CASE LockForMove
  <2>1. /\ op'.pc = "held" /\ op'.doc = op.doc /\ op.pc = "lock"
        /\ modelsMutex[op.doc] = NoThread
        /\ modelsMutex' = [modelsMutex EXCEPT ![op.doc] = Main]
    BY <1>2, HandlerMoves DEF LockForMove
  <2>2. req[op.doc].pc \notin {"caching", "check", "globals", "queue", "render"}
    BY <1>d, <2>1 DEF LockInv
  <2> QED
    BY <1>0, <1>d, <2>1, <2>2 DEF LockInv
<1>3. CASE Move \/ WheelMiss
  <2>1. /\ op'.pc \in {"idle", "refresh"} /\ op.pc = "held"
        /\ modelsMutex' = [modelsMutex EXCEPT ![op.doc] = NoThread]
    BY <1>3, HandlerMoves DEF Move, WheelMiss
  <2> QED
    BY <1>0, <1>d, <2>1 DEF LockInv
<1> QED
  BY <1>1, <1>2, <1>3 DEF HandlerStep

\* Loading, closing and the event loop keep the mutexes owned likewise.
LEMMA LockDocumentStep ==
    ASSUME TypeOK, LockInv, NEW d \in Docs,
           \/ SetDocument(d) \/ FinishLoad(d) \/ FailLoad(d) \/ CloseDocument(d)
           \/ \E m \in Models : AddModel(d, m)
           \/ \E t \in Threads, s \in Sizes : StartRequest(d, t, s)
           \/ \E k \in {"press", "H", "M"} : StartHit(d, k)
           \/ \E k \in {"drag", "wheel"} : StartMove(d, k)
           \/ ReleaseButton(d)
    PROVE  LockInv'
<1> USE DEF HoldsModels, HoldsGlobals, OnMain
<1>0. UNCHANGED <<modelsMutex, globalsMutex>>
  BY DEF SetDocument, FinishLoad, FailLoad, CloseDocument, AddModel, StartRequest, StartHit, StartMove,
         ReleaseButton
<1>1. CASE SetDocument(d) \/ FinishLoad(d) \/ FailLoad(d) \/ CloseDocument(d)
  <2>1. /\ UNCHANGED <<req, op>>
        /\ \A e \in Docs : phase'[e] = phase[e] \/ phase'[e] = "open" \/ req[e].pc = "idle"
    BY <1>1 DEF SetDocument, FinishLoad, FailLoad, CloseDocument, TypeOK, LockInv
  <2> QED
    BY <1>0, <2>1 DEF LockInv
<1>2. CASE ReleaseButton(d) \/ \E m \in Models : AddModel(d, m)
  <2>1. UNCHANGED <<phase, req, op>>
    BY <1>2 DEF ReleaseButton, AddModel
  <2> QED
    BY <1>0, <2>1 DEF LockInv
<1>3. CASE \E t \in Threads, s \in Sizes : StartRequest(d, t, s)
  <2>1. PICK t \in Threads, s \in Sizes : StartRequest(d, t, s)
    BY <1>3
  <2>2. /\ UNCHANGED <<phase, op>>
        /\ phase[d] = "open" /\ req[d].pc = "idle"
        /\ \/ t = d /\ d \in Threaded
           \/ t = Main /\ MainFree /\ op.pc \in {"idle", "refresh"}
    BY <2>1 DEF StartRequest
  <2>3. op.doc \in Docs
    BY HandlerUpdates DEF TypeOK
  <2>4. /\ req'[d].pc = "snapshot" /\ req'[d].thread = t
        /\ \A e \in Docs \ {d} : req'[e] = req[e]
    BY <2>1, StartMoves
  <2> QED
    BY <1>0, <2>2, <2>3, <2>4 DEF LockInv, MainFree
<1>4. CASE \/ \E k \in {"press", "H", "M"} : StartHit(d, k)
           \/ \E k \in {"drag", "wheel"} : StartMove(d, k)
  <2>1. UNCHANGED <<phase, req>> /\ op.pc = "idle" /\ op'.pc \in {"hit", "lock"} /\ MainFree
    BY <1>4 DEF StartHit, StartMove, EventLoop
  <2> QED
    BY <1>0, <2>1 DEF LockInv, MainFree
<1> QED
  BY <1>1, <1>2, <1>3, <1>4

\* The owners of both mutexes are exactly the threads inside the sections
\* they guard, in every reachable state.
THEOREM LocksOwned == Spec => []LockInv
<1>1. Init => LockInv
  BY DEF Init, LockInv, NoRequest, HoldsModels, HoldsGlobals, OnMain
<1>2. TypeOK /\ LockInv /\ [Next]_vars => LockInv'
  <2> SUFFICES ASSUME TypeOK, LockInv, [Next]_vars PROVE LockInv'
    OBVIOUS
  <2>1. CASE UNCHANGED vars
    BY <2>1 DEF vars, LockInv, HoldsModels, HoldsGlobals, OnMain
  <2>2. CASE Next
    BY <2>2, LockRequestStep, LockHandlerStep, LockDocumentStep DEF Next
  <2> QED
    BY <2>1, <2>2
<1> QED
  BY <1>1, <1>2, TypeCorrect, PTL DEF Spec

\* v3dRenderGlobalsMutex serialises the renders of all documents.
THEOREM RendersExclude == Spec => []GlobalsExclusive
<1>1. LockInv => GlobalsExclusive
  BY DEF LockInv, GlobalsExclusive
<1> QED
  BY <1>1, LocksOwned, PTL

\* A thread executes one request at a time.
LEMMA OneRequestPerThread ==
    ASSUME LockInv, NEW d \in Docs, NEW e \in Docs,
           req[d].pc # "idle", req[e].pc # "idle", req[d].thread = req[e].thread
    PROVE  d = e
BY DEF LockInv, OnMain

\* What a thread that owns a mutex still waits for: one inside the globals
\* section for nothing, one inside an m_ModelsMutex at most for the globals.
LEMMA OwnersWait ==
    ASSUME TypeOK, LockInv, NEW d \in Docs
    PROVE  /\ HoldsGlobals(d) => WaitsFor(req[d].thread) = {}
           /\ HoldsModels(d) => WaitsFor(req[d].thread) \subseteq {globalsMutex}
           /\ op.pc = "held" => WaitsFor(Main) = {}
<1> USE DEF WaitsFor
<1>1. ASSUME HoldsModels(d), NEW u \in WaitsFor(req[d].thread)
      PROVE  u = globalsMutex /\ ~HoldsGlobals(d)
  <2>1. req[d].thread = Main => op.pc \notin {"pick", "lock"}
    BY <1>1 DEF LockInv, OnMain, HoldsModels
  <2>2. ASSUME NEW e \in Docs, req[e].thread = req[d].thread,
               req[e].pc \in {"snapshot", "cache", "serve", "lock", "globals"}
        PROVE  e = d
    BY <1>1, <2>2, OneRequestPerThread DEF HoldsModels
  <2> QED
    BY <1>1, <2>1, <2>2 DEF HoldsModels, HoldsGlobals
<1>2. ASSUME op.pc = "held", NEW u \in WaitsFor(Main) PROVE FALSE
  <2>1. \A e \in Docs : ~OnMain(e)
    BY <1>2 DEF LockInv
  <2> QED
    BY <1>2, <2>1 DEF OnMain
<1>3. HoldsGlobals(d) => HoldsModels(d)
  BY DEF HoldsGlobals, HoldsModels
<1> HIDE DEF WaitsFor
<1> QED
  BY <1>1, <1>2, <1>3

\* The two mutexes are always taken in the order m_ModelsMutex,
\* v3dRenderGlobalsMutex, and nothing is waited for inside the second: so in
\* no set of threads does everybody wait for somebody of the set, with any
\* number of documents, and a render nested in a refresh never waits for its
\* own thread.
THEOREM DeadlockFree == Spec => []NoCircularWait
<1>1. TypeOK /\ LockInv => NoCircularWait
  <2> SUFFICES ASSUME TypeOK, LockInv, NEW T \in SUBSET Threads, T # {},
                      \A t \in T : WaitsFor(t) \cap T # {}
               PROVE  FALSE
    BY DEF NoCircularWait
  <2>1. NoThread \notin T
    BY DEF Threads
  <2>2. globalsMutex \notin T
    <3> SUFFICES ASSUME globalsMutex \in T PROVE FALSE
      OBVIOUS
    <3>1. PICK d \in Docs : HoldsGlobals(d)
      BY <2>1 DEF LockInv
    <3>2. globalsMutex = req[d].thread
      BY <3>1 DEF LockInv
    <3> QED
      BY <3>1, <3>2, OwnersWait
  <2>3. PICK t \in T : TRUE
    OBVIOUS
  <2>4. PICK u \in T : u \in WaitsFor(t)
    BY <2>3
  <2>5. PICK d \in Docs : u = modelsMutex[d]
    <3>1. op.doc \in Docs
      BY HandlerUpdates DEF TypeOK
    <3> QED
      BY <2>2, <2>4, <3>1 DEF WaitsFor
  <2>6. CASE HoldsModels(d)
    <3>1. u = req[d].thread
      BY <2>5, <2>6 DEF LockInv
    <3> QED
      BY <2>2, <2>4, <2>6, <3>1, OwnersWait
  <2>7. CASE op.pc = "held" /\ op.doc = d
    <3>1. u = Main
      BY <2>5, <2>7 DEF LockInv
    <3> QED
      BY <2>4, <2>7, <3>1, OwnersWait
  <2> QED
    BY <2>1, <2>4, <2>5, <2>6, <2>7 DEF LockInv
<1> QED
  BY <1>1, TypeCorrect, LocksOwned, PTL

-----------------------------------------------------------------------------
(* Pointers and cached images.                                              *)

\* A drag never outlives its model: Clear() ends it before m_Models changes.
THEOREM DragSafe == Spec => []DragTargetLoaded
<1>1. Init => DragTargetLoaded
  BY DEF Init, DragTargetLoaded
<1>2. TypeOK /\ DragTargetLoaded /\ [Next]_vars => DragTargetLoaded'
  <2> SUFFICES ASSUME TypeOK, DragTargetLoaded, [Next]_vars PROVE DragTargetLoaded'
    OBVIOUS
  <2>t. loaded \in [Docs -> SUBSET Models] /\ drag \in [Docs -> Models \cup {NoModel}]
    BY DEF TypeOK
  <2>d. op.doc \in Docs
    BY HandlerUpdates DEF TypeOK
  <2>1. ASSUME NEW d \in Docs, SetDocument(d) PROVE DragTargetLoaded'
    BY <2>1, <2>t DEF SetDocument, ForgetModels, DragTargetLoaded
  <2>2. ASSUME NEW d \in Docs, NEW m \in Models, AddModel(d, m) PROVE DragTargetLoaded'
    BY <2>2, <2>t DEF AddModel, DragTargetLoaded
  <2>3. ASSUME NEW d \in Docs, ReleaseButton(d) PROVE DragTargetLoaded'
    BY <2>3, <2>t DEF ReleaseButton, DragTargetLoaded, modelVars
  <2>4. ASSUME Pick PROVE DragTargetLoaded'
    BY <2>4, <2>t, <2>d DEF Pick, DragTargetLoaded, modelVars
  <2>5. ASSUME UNCHANGED <<loaded, drag>> PROVE DragTargetLoaded'
    BY <2>5 DEF DragTargetLoaded
  <2>6. ASSUME NEW d \in Docs, RequestStep(d) PROVE UNCHANGED <<loaded, drag>>
    BY <2>6 DEF RequestStep, Snapshot, NextModel, CacheRequest, CacheRequestDone,
       ServeCached, LockModels, ReturnEarly, SetProjection, LockGlobals, QueueMesh,
       RenderNothing, StoreImage, Throw, modelVars
  <2>7. ASSUME HandlerStep, ~Pick PROVE UNCHANGED <<loaded, drag>>
    BY <2>7 DEF HandlerStep, HitTest, LockForMove, Move, WheelMiss, PressKey, RefreshDone,
       modelVars
  <2>8. ASSUME NEW d \in Docs,
               \/ FinishLoad(d) \/ FailLoad(d) \/ CloseDocument(d)
               \/ \E t \in Threads, s \in Sizes : StartRequest(d, t, s)
               \/ \E k \in {"press", "H", "M"} : StartHit(d, k)
               \/ \E k \in {"drag", "wheel"} : StartMove(d, k)
        PROVE UNCHANGED <<loaded, drag>>
    BY <2>8 DEF FinishLoad, FailLoad, CloseDocument, StartRequest, StartHit, StartMove, modelVars
  <2>9. CASE UNCHANGED vars
    BY <2>9, <2>5 DEF vars
  <2> QED
    BY <2>1, <2>2, <2>3, <2>4, <2>5, <2>6, <2>7, <2>8, <2>9 DEF Next
<1> QED
  BY <1>1, <1>2, TypeCorrect, PTL DEF Spec

\* The inductive invariant of the cached images.
CoherentInv == CoherentUnraced /\ FrameInv

\* Documents that no key can disturb are documents.
LEMMA UnracedDocs == Unraced \subseteq Docs
BY DEF Unraced

\* A step of a request never stores a frame of an older view as current.
LEMMA CoherentRequestStep ==
    ASSUME TypeOK, TargetInv, LockInv, CoherentInv, NEW d \in Docs, RequestStep(d)
    PROVE  CoherentInv'
<1> USE UnracedDocs DEF CoherentInv
<1>0. UNCHANGED <<loaded, view, mode, op>>
  BY DEF RequestStep, Snapshot, NextModel, CacheRequest, CacheRequestDone,
     ServeCached, LockModels, ReturnEarly, SetProjection, LockGlobals, QueueMesh,
     RenderNothing, StoreImage, Throw, modelVars
<1>t. /\ hasChanged \in [Docs -> [Models -> BOOLEAN]]
      /\ image \in [Docs -> [Models -> Image]]
      /\ loaded \in [Docs -> SUBSET Models]
  BY DEF TypeOK
<1>1. CASE SetProjection(d)
  <2>1. /\ Advance(d, "globals") /\ req'[d].model = req[d].model
        /\ req'[d].view = view[d][req[d].model]
        /\ hasChanged' = [hasChanged EXCEPT ![d][req[d].model] = TRUE]
        /\ image' = image
    BY <1>1, RequestMoves DEF SetProjection
  <2>2. req[d].model \in Models
    BY <1>1 DEF SetProjection, TargetInv
  <2>3. CoherentUnraced'
    BY <1>0, <1>t, <2>1, <2>2 DEF CoherentUnraced, Coherent
  <2>4. FrameInv'
    BY <1>0, <1>t, <2>1, <2>2 DEF FrameInv, Advance
  <2> QED
    BY <2>3, <2>4
<1>2. CASE StoreImage(d)
  <2> DEFINE m == req[d].model
  <2>1. /\ Advance(d, "next")
        /\ hasChanged' = [hasChanged EXCEPT ![d][m] = FALSE]
        /\ image' = [image EXCEPT ![d][m] =
                       [size |-> req[d].size, view |-> req[d].view,
                        mode |-> mode[d][m], mesh |-> req[d].mesh]]
    BY <1>2, RequestMoves DEF StoreImage
  <2>2. /\ m \in Models
        /\ req[d].size \in Sizes
        /\ d \in Unraced => req[d].view = view[d][m] /\ req[d].mesh = mode[d][m]
    BY <1>2 DEF StoreImage, TargetInv, FrameInv
  <2>3. CoherentUnraced'
    <3> SUFFICES ASSUME NEW e \in Unraced, NEW n \in loaded[e], ~hasChanged'[e][n]
                 PROVE  /\ image'[e][n].size # NullSize
                        /\ image'[e][n].view = view[e][n]
                        /\ image'[e][n].mode = mode[e][n]
                        /\ image'[e][n].mesh = mode[e][n]
      BY <1>0 DEF CoherentUnraced, Coherent
    <3>1. CASE e = d /\ n = m
      <4>1. image'[e][n] = [size |-> req[d].size, view |-> req[d].view,
                            mode |-> mode[d][m], mesh |-> req[d].mesh]
        BY <1>t, <2>1, <2>2, <3>1
      <4> QED
        BY <2>2, <3>1, <4>1
    <3>2. CASE ~(e = d /\ n = m)
      <4>1. image'[e][n] = image[e][n] /\ hasChanged'[e][n] = hasChanged[e][n]
        BY <1>t, <2>1, <2>2, <3>2
      <4> QED
        BY <4>1 DEF CoherentUnraced, Coherent
    <3> QED
      BY <3>1, <3>2
  <2>4. FrameInv'
    <3>1. req'[d].pc = "next" /\ \A e \in Docs \ {d} : req'[e] = req[e]
      BY <2>1 DEF Advance
    <3>2. \A e \in Docs \ {d} : hasChanged'[e] = hasChanged[e]
      BY <1>t, <2>1, <2>2
    <3> QED
      BY <1>0, <3>1, <3>2 DEF FrameInv
  <2> QED
    BY <2>3, <2>4
<1>3. CASE ~SetProjection(d) /\ ~StoreImage(d)
  <2>1. UNCHANGED <<hasChanged, image>>
    BY <1>3 DEF RequestStep, Snapshot, NextModel, CacheRequest, CacheRequestDone,
       ServeCached, LockModels, ReturnEarly, LockGlobals, QueueMesh, RenderNothing, Throw, modelVars
  <2>2. CoherentUnraced'
    BY <1>0, <2>1 DEF CoherentUnraced, Coherent
  <2>3. \A e \in Docs \ {d} : req'[e] = req[e]
    BY RequestMoves DEF RequestStep, Advance
  <2>4. CASE LockGlobals(d)
    <3>1. req[d].pc = "globals"
      BY <2>4 DEF LockGlobals
    <3> QED
      BY <1>0, <2>1, <2>2, <2>3, <2>4, <3>1, RequestMoves DEF FrameInv, Advance
  <2>5. CASE QueueMesh(d)
    <3>1. req[d].pc = "queue"
      BY <2>5 DEF QueueMesh
    <3> QED
      BY <1>0, <2>1, <2>2, <2>3, <2>5, <3>1, RequestMoves DEF FrameInv, Advance
  <2>6. CASE ~LockGlobals(d) /\ ~QueueMesh(d)
    <3>1. req'[d].pc \notin {"globals", "queue", "render"}
      BY <1>3, <2>6, RequestMoves DEF RequestStep, Advance, NoRequest
    <3> QED
      BY <1>0, <2>1, <2>2, <2>3, <3>1 DEF FrameInv
  <2> QED
    BY <2>4, <2>5, <2>6
<1> QED
  BY <1>1, <1>2, <1>3

\* An input that changes the look of a model outside its renders, and says so
\* with m_HasChanged, keeps the images coherent.
LEMMA CoherentInput ==
    ASSUME TypeOK, TargetInv, CoherentInv, UNCHANGED <<loaded, image, req>>, op'.pc = "refresh",
           NEW d \in Docs, NEW m \in Models,
           d \in Unraced => req[d].pc \notin {"globals", "queue", "render"},
           hasChanged'[d][m],
           \A e \in Docs, n \in Models : ~(e = d /\ n = m) =>
               /\ hasChanged'[e][n] = hasChanged[e][n]
               /\ view'[e][n] = view[e][n]
               /\ mode'[e][n] = mode[e][n]
    PROVE  CoherentInv'
<1> USE UnracedDocs DEF CoherentInv
<1>1. CoherentUnraced'
  <2> SUFFICES ASSUME NEW e \in Unraced, NEW n \in loaded[e], ~hasChanged'[e][n]
               PROVE  /\ image[e][n].size # NullSize
                      /\ image[e][n].view = view'[e][n]
                      /\ image[e][n].mode = mode'[e][n]
                      /\ image[e][n].mesh = mode'[e][n]
    BY DEF CoherentUnraced, Coherent
  <2>1. n \in Models
    BY DEF TypeOK
  <2> QED
    BY <2>1 DEF CoherentUnraced, Coherent
<1>2. FrameInv'
  <2>1. ASSUME NEW e \in Unraced, req[e].pc \in {"globals", "queue", "render"}
        PROVE  e # d /\ req[e].model \in Models
    BY <2>1 DEF TargetInv
  <2> QED
    BY <2>1 DEF FrameInv
<1> QED
  BY <1>1, <1>2

\* A mouse handler that moves a model holds the lock that excludes its
\* renders; a key handler runs on the thread that would execute them.
LEMMA CoherentHandlerStep ==
    ASSUME TypeOK, TargetInv, LockInv, CoherentInv, HandlerStep
    PROVE  CoherentInv'
<1> USE DEF CoherentInv
<1>0. UNCHANGED <<loaded, image, req>>
  BY DEF HandlerStep, HitTest, Pick, LockForMove, Move, WheelMiss, PressKey, RefreshDone,
     modelVars
<1>d. op.doc \in Docs
  BY HandlerUpdates DEF TypeOK
<1>t. /\ hasChanged \in [Docs -> [Models -> BOOLEAN]]
      /\ view \in [Docs -> [Models -> Views]]
      /\ mode \in [Docs -> [Models -> Mode]]
      /\ loaded \in [Docs -> SUBSET Models]
  BY DEF TypeOK
<1>1. CASE Move /\ ~UNCHANGED <<view, hasChanged>>
  <2>1. op.pc = "held" /\ op'.pc = "refresh" /\ mode' = mode
    BY <1>1, HandlerMoves DEF Move
  <2>2. op.model \in Models
    BY <2>1 DEF TargetInv
  <2>3. req[op.doc].pc \notin {"globals", "queue", "render"}
    BY <2>1 DEF LockInv, HoldsModels
  <2>4. PICK v \in Views :
                /\ view' = [view EXCEPT ![op.doc][op.model] = v]
                /\ hasChanged' = [hasChanged EXCEPT ![op.doc][op.model] = TRUE]
    BY <1>1 DEF Move
  <2>5. /\ hasChanged'[op.doc][op.model]
        /\ \A e \in Docs, n \in Models : ~(e = op.doc /\ n = op.model) =>
             hasChanged'[e][n] = hasChanged[e][n] /\ view'[e][n] = view[e][n]
    BY <1>d, <1>t, <2>2, <2>4
  <2> QED
    BY <1>0, <1>d, <2>1, <2>2, <2>3, <2>5, CoherentInput
<1>2. CASE PressKey /\ ~UNCHANGED <<view, mode, hasChanged>>
  <2>1. op.pc = "key"
    BY <1>2 DEF PressKey
  <2>2. PICK m \in loaded[op.doc] :
            /\ view' = [view EXCEPT ![op.doc][m] = IF op.kind = "H" THEN HomeView ELSE @]
            /\ mode' = [mode EXCEPT ![op.doc][m] = IF op.kind = "M" THEN (@ + 1) % Modes ELSE @]
            /\ hasChanged' = [hasChanged EXCEPT ![op.doc][m] = TRUE]
            /\ op' = [op EXCEPT !.pc = "refresh"]
    BY <1>2 DEF PressKey
  <2>3. op'.pc = "refresh" /\ m \in Models
    BY <1>d, <1>t, <2>2 DEF TypeOK, Handler
  <2>4. op.doc \in Unraced => req[op.doc].pc = "idle"
    <3>1. op.doc \in Unraced => op.doc \notin Threaded
      BY <2>1 DEF Unraced, FrameInv
    <3> QED
      BY <1>d, <2>1, <3>1 DEF LockInv, OnMain
  <2>5. /\ hasChanged'[op.doc][m]
        /\ \A e \in Docs, n \in Models : ~(e = op.doc /\ n = m) =>
             /\ hasChanged'[e][n] = hasChanged[e][n]
             /\ view'[e][n] = view[e][n] /\ mode'[e][n] = mode[e][n]
    BY <1>d, <1>t, <2>2, <2>3
  <2> QED
    BY <1>0, <1>d, <2>3, <2>4, <2>5, CoherentInput
<1>3. CASE UNCHANGED <<view, mode, hasChanged>>
  <2>1. CoherentUnraced'
    BY <1>0, <1>3 DEF CoherentUnraced, Coherent
  <2>2. Keys = {} => op'.pc # "key" /\ op'.pc # "hit"
    <3>1. Keys = {} /\ HitTest => op.kind = "press"
      BY DEF HitTest, FrameInv
    <3> QED
      BY <3>1, HandlerMoves DEF HandlerStep
  <2> QED
    BY <1>0, <1>3, <2>1, <2>2 DEF FrameInv
<1>4. Move => mode' = mode
  BY DEF Move
<1>5. Move \/ PressKey \/ UNCHANGED <<view, mode, hasChanged>>
  BY DEF HandlerStep, HitTest, Pick, LockForMove, WheelMiss, RefreshDone, modelVars
<1> QED
  BY <1>1, <1>2, <1>3, <1>4, <1>5

\* Loading and closing leave no image of a model that is gone.
LEMMA CoherentDocumentStep ==
    ASSUME TypeOK, LockInv, CoherentInv, NEW d \in Docs,
           \/ SetDocument(d) \/ FinishLoad(d) \/ FailLoad(d) \/ CloseDocument(d)
           \/ \E m \in Models : AddModel(d, m)
           \/ \E t \in Threads, s \in Sizes : StartRequest(d, t, s)
           \/ \E k \in {"press", "H", "M"} : StartHit(d, k)
           \/ \E k \in {"drag", "wheel"} : StartMove(d, k)
           \/ ReleaseButton(d)
    PROVE  CoherentInv'
<1> USE UnracedDocs DEF CoherentInv
<1>1. CASE SetDocument(d)
  <2>1. /\ UNCHANGED <<req, op>>
        /\ req[d].pc = "idle"
        /\ ForgetModels(d)
    BY <1>1 DEF SetDocument
  <2>2. /\ loaded'[d] = {}
        /\ \A e \in Docs \ {d} :
             /\ loaded'[e] = loaded[e] /\ view'[e] = view[e] /\ mode'[e] = mode[e]
             /\ hasChanged'[e] = hasChanged[e] /\ image'[e] = image[e]
    BY <2>1 DEF ForgetModels, TypeOK
  <2> QED
    BY <2>1, <2>2 DEF CoherentUnraced, Coherent, FrameInv
<1>2. CASE \E m \in Models : AddModel(d, m)
  <2>1. PICK m \in Models : AddModel(d, m)
    BY <1>2
  <2>2. UNCHANGED <<req, op>> /\ req[d].pc = "idle"
    BY <2>1 DEF AddModel, LockInv
  <2>3. \A e \in Docs \ {d} :
             /\ loaded'[e] = loaded[e] /\ view'[e] = view[e] /\ mode'[e] = mode[e]
             /\ hasChanged'[e] = hasChanged[e] /\ image'[e] = image[e]
    BY <2>1 DEF AddModel, TypeOK
  <2>4. /\ loaded'[d] = loaded[d] \cup {m}
        /\ hasChanged'[d][m]
    BY <2>1 DEF AddModel, TypeOK
  <2>5. \A n \in Models \ {m} :
             /\ view'[d][n] = view[d][n] /\ mode'[d][n] = mode[d][n]
             /\ hasChanged'[d][n] = hasChanged[d][n] /\ image'[d][n] = image[d][n]
    BY <2>1 DEF AddModel, TypeOK
  <2>6. loaded[d] \subseteq Models
    BY DEF TypeOK
  <2>7. CoherentUnraced'
    BY <2>3, <2>4, <2>5, <2>6 DEF CoherentUnraced, Coherent
  <2>8. FrameInv'
    BY <2>2, <2>3 DEF FrameInv
  <2> QED
    BY <2>7, <2>8
<1>3. CASE FinishLoad(d) \/ FailLoad(d) \/ CloseDocument(d) \/ ReleaseButton(d)
  <2>1. UNCHANGED <<modelVars, req, op>>
    BY <1>3 DEF FinishLoad, FailLoad, CloseDocument, ReleaseButton
  <2> QED
    BY <2>1 DEF modelVars, CoherentUnraced, Coherent, FrameInv
<1>4. CASE \E t \in Threads, s \in Sizes : StartRequest(d, t, s)
  <2>1. PICK t \in Threads, s \in Sizes : StartRequest(d, t, s)
    BY <1>4
  <2>2. UNCHANGED <<modelVars, op>>
    BY <2>1 DEF StartRequest
  <2>3. req'[d].pc = "snapshot" /\ \A e \in Docs \ {d} : req'[e] = req[e]
    BY <2>1, StartMoves
  <2> QED
    BY <2>2, <2>3 DEF modelVars, CoherentUnraced, Coherent, FrameInv
<1>5. CASE \E k \in {"press", "H", "M"} : StartHit(d, k)
  BY <1>5 DEF StartHit, modelVars, CoherentUnraced, Coherent, FrameInv
<1>6. CASE \E k \in {"drag", "wheel"} : StartMove(d, k)
  BY <1>6 DEF StartMove, modelVars, CoherentUnraced, Coherent, FrameInv
<1> QED
  BY <1>1, <1>2, <1>3, <1>4, <1>5, <1>6

\* With the strengthening of cache coherence, kept for the refinement below.
LEMMA CoherentAlways == Spec => []CoherentInv
<1>1. Init => CoherentInv
  BY UnracedDocs DEF Init, CoherentInv, CoherentUnraced, Coherent, FrameInv, NoRequest
<1>2. TypeOK /\ TargetInv /\ LockInv /\ CoherentInv /\ [Next]_vars => CoherentInv'
  <2> SUFFICES ASSUME TypeOK, TargetInv, LockInv, CoherentInv, [Next]_vars PROVE CoherentInv'
    OBVIOUS
  <2>1. CASE UNCHANGED vars
    BY <2>1 DEF vars, CoherentInv, CoherentUnraced, Coherent, FrameInv
  <2>2. CASE Next
    BY <2>2, CoherentRequestStep, CoherentHandlerStep, CoherentDocumentStep DEF Next
  <2> QED
    BY <2>1, <2>2
<1> QED
  BY <1>1, <1>2, TypeCorrect, LocksOwned, PTL DEF Spec

\* No interleaving of mouse input, keys, renders and document loads makes the
\* cache of a standalone document serve a frame older than its model.
THEOREM UnracedIsCoherent == Spec => []CoherentUnraced
<1>1. CoherentInv => CoherentUnraced
  BY DEF CoherentInv
<1> QED
  BY <1>1, CoherentAlways, PTL

\* As long as no key is pressed, the same holds for every document, the ones
\* with a pixmap thread included.
THEOREM CacheIsCoherent == ASSUME Keys = {} PROVE Spec => []CacheCoherent
<1>1. CoherentUnraced => CacheCoherent
  BY DEF CoherentUnraced, CacheCoherent, Unraced
<1> QED
  BY <1>1, UnracedIsCoherent, PTL

-----------------------------------------------------------------------------
(* Requests and handlers work on models that are still loaded.              *)

\* A request takes up a model only while it is in m_Models, and its steps
\* unload none.
LEMMA WorksRequestStep ==
    ASSUME TypeOK, WorksOnLoaded, NEW d \in Docs, RequestStep(d)
    PROVE  WorksOnLoaded'
<1>0. UNCHANGED <<loaded, op>>
  BY DEF RequestStep, Snapshot, NextModel, CacheRequest, CacheRequestDone,
     ServeCached, LockModels, ReturnEarly, SetProjection, LockGlobals, QueueMesh,
     RenderNothing, StoreImage, Throw, modelVars
<1>r. req \in [Docs -> Request] /\ req[d] \in Request
  BY DEF TypeOK
<1>1. \A e \in Docs \ {d} : req'[e] = req[e]
  BY RequestMoves DEF RequestStep, Advance
<1>2. req'[d].pc # "idle" =>
        /\ req'[d].todo \subseteq loaded[d]
        /\ req'[d].pc \notin {"snapshot", "next"} => req'[d].model \in loaded[d]
  <2> USE DEF Request
  <2>w. req[d].pc # "idle" =>
          /\ req[d].todo \subseteq loaded[d]
          /\ req[d].pc \notin {"snapshot", "next"} => req[d].model \in loaded[d]
    BY DEF WorksOnLoaded
  <2>1. CASE Snapshot(d)
    BY <1>r, <2>1 DEF Snapshot
  <2>2. CASE NextModel(d)
    <3>1. req[d].todo \subseteq loaded[d]
      BY <2>2, <2>w DEF NextModel
    <3>2. CASE req' = [req EXCEPT ![d] = NoRequest(Main)]
      BY <1>r, <3>2 DEF NoRequest
    <3>3. CASE \E m \in req[d].todo : req' = [req EXCEPT ![d] =
             [req[d] EXCEPT !.pc = "cache", !.model = m, !.todo = req[d].todo \ {m}]]
      BY <1>r, <3>1, <3>3
    <3> QED
      BY <2>2, <3>2, <3>3 DEF NextModel
  <2>3. CASE CacheRequest(d)
    BY <1>r, <2>w, <2>3 DEF CacheRequest
  <2>4. CASE CacheRequestDone(d)
    BY <1>r, <2>w, <2>4 DEF CacheRequestDone
  <2>5. CASE ServeCached(d)
    <3>1. CASE req' = [req EXCEPT ![d] = NextOf(req[d])]
      BY <1>r, <2>w, <2>5, <3>1 DEF ServeCached, NextOf
    <3>2. CASE req' = [req EXCEPT ![d] = [req[d] EXCEPT !.pc = "lock"]]
      BY <1>r, <2>w, <2>5, <3>2 DEF ServeCached
    <3> QED
      BY <2>5, <3>1, <3>2 DEF ServeCached
  <2>6. CASE LockModels(d)
    BY <1>r, <2>w, <2>6 DEF LockModels
  <2>7. CASE ReturnEarly(d)
    BY <1>r, <2>w, <2>7 DEF ReturnEarly, NextOf
  <2>8. CASE SetProjection(d)
    BY <1>r, <2>w, <2>8 DEF SetProjection
  <2>9. CASE LockGlobals(d)
    BY <1>r, <2>w, <2>9 DEF LockGlobals
  <2>10. CASE QueueMesh(d)
    BY <1>r, <2>w, <2>10 DEF QueueMesh
  <2>11. CASE RenderNothing(d)
    BY <1>r, <2>w, <2>11 DEF RenderNothing, NextOf
  <2>12. CASE StoreImage(d)
    BY <1>r, <2>w, <2>12 DEF StoreImage, NextOf
  <2>13. CASE Throw(d)
    BY <1>r, <2>13 DEF Throw, NoRequest
  <2> QED
    BY <2>1, <2>2, <2>3, <2>4, <2>5, <2>6, <2>7, <2>8, <2>9, <2>10, <2>11, <2>12, <2>13
       DEF RequestStep
<1> QED
  BY <1>0, <1>1, <1>2 DEF WorksOnLoaded

\* Loads happen only while no request or handler is under way, so no step
\* takes away the model somebody works on.
LEMMA WorksStep ==
    ASSUME TypeOK, LockInv, WorksOnLoaded, [Next]_vars
    PROVE  WorksOnLoaded'
<1>t. loaded \in [Docs -> SUBSET Models] /\ op \in Handler /\ op.doc \in Docs
  BY HandlerUpdates DEF TypeOK
<1>1. ASSUME NEW d \in Docs, RequestStep(d) PROVE WorksOnLoaded'
  BY <1>1, WorksRequestStep
<1>2. CASE HandlerStep
  <2>1. UNCHANGED <<loaded, req>>
    BY <1>2 DEF HandlerStep, HitTest, Pick, LockForMove, Move, WheelMiss, PressKey,
       RefreshDone, modelVars
  <2>2. op'.pc \in {"lock", "held"} => op.pc = "lock" /\ op'.model = op.model /\ op'.doc = op.doc
    <3>1. CASE LockForMove
      BY <1>t, <3>1 DEF LockForMove, Handler
    <3>2. CASE ~LockForMove
      BY <1>2, <3>2, HandlerMoves DEF HandlerStep
    <3> QED
      BY <3>1, <3>2
  <2> QED
    BY <2>1, <2>2 DEF WorksOnLoaded
<1>3. ASSUME NEW d \in Docs, SetDocument(d) PROVE WorksOnLoaded'
  <2>1. UNCHANGED <<req, op>> /\ req[d].pc = "idle" /\ op.pc = "idle" /\ ForgetModels(d)
    BY <1>3 DEF SetDocument, EventLoop
  <2>2. \A e \in Docs \ {d} : loaded'[e] = loaded[e]
    BY <1>t, <2>1 DEF ForgetModels
  <2> QED
    BY <2>1, <2>2 DEF WorksOnLoaded
<1>4. ASSUME NEW d \in Docs, NEW m \in Models, AddModel(d, m) PROVE WorksOnLoaded'
  <2>1. UNCHANGED <<req, op>> /\ op.pc = "idle" /\ \A e \in Docs : loaded[e] \subseteq loaded'[e]
    BY <1>t, <1>4 DEF AddModel, EventLoop
  <2> QED
    BY <2>1 DEF WorksOnLoaded
<1>5. ASSUME NEW d \in Docs, NEW t \in Threads, NEW s \in Sizes, StartRequest(d, t, s)
      PROVE  WorksOnLoaded'
  <2>1. req'[d].pc = "snapshot" /\ req'[d].todo = {} /\ \A e \in Docs \ {d} : req'[e] = req[e]
    BY <1>5 DEF TypeOK, StartRequest, NoRequest
  <2>2. UNCHANGED <<loaded, op>>
    BY <1>5 DEF StartRequest, modelVars
  <2> QED
    BY <2>1, <2>2 DEF WorksOnLoaded
<1>6. ASSUME NEW d \in Docs, FinishLoad(d) \/ FailLoad(d) \/ CloseDocument(d) \/ ReleaseButton(d)
      PROVE  WorksOnLoaded'
  BY <1>6 DEF FinishLoad, FailLoad, CloseDocument, ReleaseButton, modelVars, WorksOnLoaded
<1>7. ASSUME NEW d \in Docs, NEW k, StartHit(d, k) PROVE WorksOnLoaded'
  BY <1>7 DEF StartHit, modelVars, WorksOnLoaded
<1>8. ASSUME NEW d \in Docs, NEW k, StartMove(d, k) PROVE WorksOnLoaded'
  BY <1>8 DEF StartMove, modelVars, WorksOnLoaded
<1>9. CASE UNCHANGED vars
  BY <1>9 DEF vars, WorksOnLoaded
<1> QED
  BY <1>1, <1>2, <1>3, <1>4, <1>5, <1>6, <1>7, <1>8, <1>9 DEF Next

-----------------------------------------------------------------------------
(* ModelManager implements AtomicManager.                                   *)

\* d shows to whoever sees looks and frames only what it showed before.
Same(d) ==
    /\ loaded'[d] = loaded[d] /\ view'[d] = view[d] /\ mode'[d] = mode[d]
    /\ hasChanged'[d] = hasChanged[d] /\ image'[d] = image[d]

\* Steps that leave the models alone and end no request are not seen.
LEMMA Unseen ==
    ASSUME \A e \in Unraced : Same(e) /\ ((req'[e].pc = "idle") <=> (req[e].pc = "idle"))
    PROVE  UNCHANGED Atomic!vars
<1>1. UNCHANGED <<Loaded, Looks, Frames, Fresh>>
  BY DEF Same, Loaded, Looks, Frames, Fresh
<1>2. Serving' = Serving
  BY DEF Serving
<1> QED
  BY <1>1, <1>2 DEF Atomic!vars

\* Neither is a step that disturbs only a document whose keys can race.
LEMMA UnseenRaced ==
    ASSUME NEW d \in Docs \ Unraced, \A e \in Docs \ {d} : Same(e) /\ req'[e] = req[e]
    PROVE  UNCHANGED Atomic!vars
BY Unseen, UnracedDocs

\* A request that ends is all that is seen of its step.
LEMMA SeenEnds ==
    ASSUME NEW d \in Unraced, UNCHANGED modelVars,
           \A e \in Docs \ {d} : req'[e] = req[e],
           req[d].pc # "idle", req'[d].pc = "idle"
    PROVE  Atomic!End(d)
<1>1. UNCHANGED <<Loaded, Looks, Frames, Fresh>>
  BY DEF modelVars, Loaded, Looks, Frames, Fresh
<1>2. d \in Serving /\ Serving' = Serving \ {d}
  BY UnracedDocs DEF Serving
<1> QED
  BY <1>1, <1>2 DEF Atomic!End

\* A table that differs from another in one place only.
LEMMA OnePlace ==
    ASSUME NEW D, NEW M, NEW f, NEW g, NEW d \in D, NEW m \in M, NEW x,
           f = [e \in D |-> [n \in M |-> f[e][n]]],
           g = [e \in D |-> [n \in M |-> g[e][n]]],
           g[d][m] = x,
           \A e \in D, n \in M : ~(e = d /\ n = m) => g[e][n] = f[e][n]
    PROVE  g = [f EXCEPT ![d][m] = x]
<1>1. [f EXCEPT ![d][m] = x] = [e \in D |-> [n \in M |-> IF e = d /\ n = m THEN x ELSE f[e][n]]]
  OBVIOUS
<1>2. g = [e \in D |-> [n \in M |-> IF e = d /\ n = m THEN x ELSE f[e][n]]]
  OBVIOUS
<1> QED
  BY <1>1, <1>2

\* What is seen of the models, place by place.
LEMMA SeenPlaces ==
    /\ Looks = [e \in Unraced |-> [n \in Models |-> Looks[e][n]]]
    /\ Frames = [e \in Unraced |-> [n \in Models |-> Frames[e][n]]]
    /\ Fresh = [e \in Unraced |-> [n \in Models |-> Fresh[e][n]]]
    /\ \A e \in Unraced, n \in Models : Looks[e][n] = <<view[e][n], mode[e][n], mode[e][n]>>
    /\ \A e \in Unraced, n \in Models : Frames[e][n] = Frame(image[e][n])
    /\ \A e \in Unraced, n \in Models : Fresh[e][n] = ~hasChanged[e][n]
BY DEF Looks, Frames, Fresh

\* The same after a step.
LEMMA SeenPlacesNext ==
    /\ Looks' = [e \in Unraced |-> [n \in Models |-> Looks'[e][n]]]
    /\ Frames' = [e \in Unraced |-> [n \in Models |-> Frames'[e][n]]]
    /\ Fresh' = [e \in Unraced |-> [n \in Models |-> Fresh'[e][n]]]
    /\ \A e \in Unraced, n \in Models : Looks'[e][n] = <<view'[e][n], mode'[e][n], mode'[e][n]>>
    /\ \A e \in Unraced, n \in Models : Frames'[e][n] = Frame(image'[e][n])
    /\ \A e \in Unraced, n \in Models : Fresh'[e][n] = ~hasChanged'[e][n]
BY DEF Looks, Frames, Fresh

\* The freshness of one model is seen to change.
LEMMA SeenFresh ==
    ASSUME TypeOK, NEW d \in Unraced, NEW m \in Models, NEW x \in BOOLEAN,
           hasChanged' = [hasChanged EXCEPT ![d][m] = x]
    PROVE  Fresh' = [Fresh EXCEPT ![d][m] = ~x]
<1>1. hasChanged'[d][m] = x
  BY UnracedDocs DEF TypeOK
<1>2. \A e \in Docs, n \in Models : ~(e = d /\ n = m) => hasChanged'[e][n] = hasChanged[e][n]
  BY UnracedDocs DEF TypeOK
<1>3. Fresh'[d][m] = ~x
  BY <1>1, SeenPlacesNext
<1>4. ASSUME NEW e \in Unraced, NEW n \in Models, ~(e = d /\ n = m)
      PROVE  Fresh'[e][n] = Fresh[e][n]
  <2>1. hasChanged'[e][n] = hasChanged[e][n]
    BY <1>2, <1>4, UnracedDocs
  <2>2. Fresh'[e][n] = ~hasChanged'[e][n] /\ Fresh[e][n] = ~hasChanged[e][n]
    BY SeenPlaces, SeenPlacesNext
  <2> QED
    BY <2>1, <2>2
<1> QED
  BY <1>3, <1>4, OnePlace, SeenPlaces, SeenPlacesNext

\* The look of one model is seen to change.
LEMMA SeenLook ==
    ASSUME NEW d \in Unraced, NEW m \in Models, NEW x,
           Looks'[d][m] = x,
           \A e \in Docs, n \in Models : ~(e = d /\ n = m) =>
               view'[e][n] = view[e][n] /\ mode'[e][n] = mode[e][n]
    PROVE  Looks' = [Looks EXCEPT ![d][m] = x]
<1>1. ASSUME NEW e \in Unraced, NEW n \in Models, ~(e = d /\ n = m)
      PROVE  Looks'[e][n] = Looks[e][n]
  <2>1. view'[e][n] = view[e][n] /\ mode'[e][n] = mode[e][n]
    BY <1>1, UnracedDocs
  <2>2. Looks'[e][n] = <<view'[e][n], mode'[e][n], mode'[e][n]>>
    BY SeenPlacesNext
  <2>3. Looks[e][n] = <<view[e][n], mode[e][n], mode[e][n]>>
    BY SeenPlaces
  <2> QED
    BY <2>1, <2>2, <2>3
<1> QED
  BY <1>1, OnePlace, SeenPlaces, SeenPlacesNext

\* The cached image of one model is seen to change.
LEMMA SeenFrame ==
    ASSUME NEW d \in Unraced, NEW m \in Models, NEW x,
           Frame(image'[d][m]) = x,
           \A e \in Docs, n \in Models : ~(e = d /\ n = m) => image'[e][n] = image[e][n]
    PROVE  Frames' = [Frames EXCEPT ![d][m] = x]
<1>1. Frames'[d][m] = x
  BY SeenPlacesNext
<1>2. \A e \in Unraced, n \in Models : ~(e = d /\ n = m) => Frames'[e][n] = Frames[e][n]
  BY UnracedDocs, SeenPlaces, SeenPlacesNext
<1> QED
  BY <1>1, <1>2, OnePlace, SeenPlaces, SeenPlacesNext

\* To somebody who sees looks and frames only, a step of a pixmap request is
\* an invalidation, a render, the end of the request, or nothing.
LEMMA SeenRequestStep ==
    ASSUME TypeOK, TargetInv, LockInv, CoherentInv, WorksOnLoaded,
           NEW d \in Unraced, RequestStep(d)
    PROVE  Atomic!Next \/ UNCHANGED Atomic!vars
<1> USE UnracedDocs
<1>0. UNCHANGED <<loaded, view, mode, op>>
  BY DEF RequestStep, Snapshot, NextModel, CacheRequest, CacheRequestDone,
     ServeCached, LockModels, ReturnEarly, SetProjection, LockGlobals, QueueMesh,
     RenderNothing, StoreImage, Throw, modelVars
<1>l. Looks' = Looks /\ Loaded' = Loaded /\ Loaded[d] = loaded[d]
  BY <1>0 DEF Looks, Loaded
<1>t. image \in [Docs -> [Models -> Image]]
  BY DEF TypeOK
<1>o. \A e \in Docs \ {d} : req'[e] = req[e]
  BY RequestMoves DEF RequestStep, Advance
<1> DEFINE m == req[d].model
<1>1. CASE SetProjection(d)
  <2>1. /\ req[d].pc = "check" /\ req'[d].pc = "globals"
        /\ hasChanged' = [hasChanged EXCEPT ![d][m] = TRUE]
        /\ image' = image
    BY <1>1, RequestMoves DEF SetProjection, Advance
  <2>2. m \in loaded[d] /\ m \in Models
    BY <2>1 DEF WorksOnLoaded, TargetInv
  <2>3. d \in Serving /\ Serving' = Serving
    BY <1>o, <2>1 DEF Serving
  <2>4. Frames' = Frames
    BY <2>1 DEF Frames
  <2>5. Fresh' = [Fresh EXCEPT ![d][m] = FALSE]
    BY <2>1, <2>2, SeenFresh
  <2>6. Atomic!Invalidate(d, m)
    BY <1>l, <2>2, <2>3, <2>4, <2>5 DEF Atomic!Invalidate
  <2> QED
    BY <2>2, <2>6 DEF Atomic!Next
<1>2. CASE StoreImage(d)
  <2> DEFINE i == [size |-> req[d].size, view |-> req[d].view,
                   mode |-> mode[d][m], mesh |-> req[d].mesh]
  <2>1. /\ req[d].pc = "render" /\ req'[d].pc = "next"
        /\ hasChanged' = [hasChanged EXCEPT ![d][m] = FALSE]
        /\ image' = [image EXCEPT ![d][m] = i]
    BY <1>2, RequestMoves DEF StoreImage, Advance
  <2>2. /\ m \in loaded[d] /\ m \in Models /\ req[d].size \in Sizes
        /\ req[d].view = view[d][m] /\ req[d].mesh = mode[d][m]
    BY <2>1 DEF WorksOnLoaded, TargetInv, CoherentInv, FrameInv
  <2>3. d \in Serving /\ Serving' = Serving
    BY <1>o, <2>1 DEF Serving
  <2>4. Frame(i) = Looks[d][m]
    BY <2>2 DEF Frame, Looks
  <2>5. Frames' = [Frames EXCEPT ![d][m] = Looks[d][m]]
    <3>1. image'[d][m] = i
      BY <1>t, <2>1, <2>2
    <3>2. \A e \in Docs, n \in Models : ~(e = d /\ n = m) => image'[e][n] = image[e][n]
      BY <1>t, <2>1, <2>2
    <3> HIDE DEF i, m
    <3> QED
      BY <2>2, <2>4, <3>1, <3>2, SeenFrame
  <2>6. Fresh' = [Fresh EXCEPT ![d][m] = TRUE]
    BY <2>1, <2>2, SeenFresh
  <2>7. Atomic!Render(d, m)
    BY <1>l, <2>2, <2>3, <2>5, <2>6 DEF Atomic!Render
  <2> QED
    BY <2>2, <2>7 DEF Atomic!Next
<1>3. CASE ~SetProjection(d) /\ ~StoreImage(d)
  <2>1. UNCHANGED modelVars
    BY <1>3 DEF RequestStep, Snapshot, NextModel, CacheRequest, CacheRequestDone,
       ServeCached, LockModels, ReturnEarly, LockGlobals, QueueMesh, RenderNothing, Throw
  <2>2. req[d].pc # "idle"
    BY DEF RequestStep, Snapshot, NextModel, CacheRequest, CacheRequestDone, ServeCached,
       LockModels, ReturnEarly, SetProjection, LockGlobals, QueueMesh, RenderNothing, StoreImage, Throw
  <2>3. CASE req'[d].pc = "idle"
    BY <1>o, <2>1, <2>2, <2>3, SeenEnds DEF Atomic!Next
  <2>4. CASE req'[d].pc # "idle"
    BY <1>o, <2>1, <2>2, <2>4, Unseen DEF Same, modelVars
  <2> QED
    BY <2>3, <2>4
<1> QED
  BY <1>1, <1>2, <1>3

\* A step of a request disturbs no other document.
LEMMA RequestStepAlone ==
    ASSUME TypeOK, NEW d \in Docs, RequestStep(d)
    PROVE  \A e \in Docs \ {d} : Same(e) /\ req'[e] = req[e]
<1>1. UNCHANGED <<loaded, view, mode>>
  BY DEF RequestStep, Snapshot, NextModel, CacheRequest, CacheRequestDone,
     ServeCached, LockModels, ReturnEarly, SetProjection, LockGlobals, QueueMesh,
     RenderNothing, StoreImage, Throw, modelVars
<1>2. \A e \in Docs \ {d} : req'[e] = req[e]
  BY RequestMoves DEF RequestStep, Advance
<1>3. CASE SetProjection(d) \/ StoreImage(d)
  BY <1>1, <1>2, <1>3 DEF SetProjection, StoreImage, Same, TypeOK
<1>4. CASE ~SetProjection(d) /\ ~StoreImage(d)
  <2>1. UNCHANGED <<hasChanged, image>>
    BY <1>4 DEF RequestStep, Snapshot, NextModel, CacheRequest, CacheRequestDone,
       ServeCached, LockModels, ReturnEarly, LockGlobals, QueueMesh, RenderNothing, Throw, modelVars
  <2> QED
    BY <1>1, <1>2, <2>1 DEF Same
<1> QED
  BY <1>3, <1>4

\* A handler that gives a loaded model another look, and says so with
\* m_HasChanged, is seen as an input.
LEMMA SeenInput ==
    ASSUME TypeOK, UNCHANGED <<loaded, image, req>>,
           NEW d \in Unraced, NEW m \in loaded[d], NEW v \in Views, NEW k \in Mode,
           view' = [view EXCEPT ![d][m] = v],
           mode' = [mode EXCEPT ![d][m] = k],
           hasChanged' = [hasChanged EXCEPT ![d][m] = TRUE]
    PROVE  Atomic!Next
<1> USE UnracedDocs
<1>m. m \in Models
  BY DEF TypeOK
<1> DEFINE x == <<v, k, k>>
<1>1. x \in Views \X Mode \X Mode
  OBVIOUS
<1>2. UNCHANGED <<Serving, Loaded, Frames>> /\ m \in Loaded[d]
  BY DEF Serving, Loaded, Frames
<1>3. /\ view'[d][m] = v /\ mode'[d][m] = k
      /\ \A e \in Docs, n \in Models : ~(e = d /\ n = m) =>
           view'[e][n] = view[e][n] /\ mode'[e][n] = mode[e][n]
  BY <1>m DEF TypeOK
<1>4. Looks'[d][m] = x
  BY <1>m, <1>3, SeenPlacesNext
<1> HIDE DEF x
<1>5. Looks' = [Looks EXCEPT ![d][m] = x]
  BY <1>m, <1>3, <1>4, SeenLook
<1>6. Fresh' = [Fresh EXCEPT ![d][m] = FALSE]
  BY <1>m, SeenFresh
<1>7. Atomic!Input(d, m, x)
  BY <1>2, <1>5, <1>6 DEF Atomic!Input
<1> QED
  BY <1>m, <1>1, <1>7 DEF Atomic!Next

\* A step of an input handler is an input or nothing.
LEMMA SeenHandlerStep ==
    ASSUME TypeOK, TargetInv, LockInv, CoherentInv, WorksOnLoaded, HandlerStep
    PROVE  Atomic!Next \/ UNCHANGED Atomic!vars
<1>0. UNCHANGED <<loaded, image, req>>
  BY DEF HandlerStep, HitTest, Pick, LockForMove, Move, WheelMiss, PressKey, RefreshDone, modelVars
<1>d. op.doc \in Docs
  BY HandlerUpdates DEF TypeOK
<1>t. /\ hasChanged \in [Docs -> [Models -> BOOLEAN]]
      /\ view \in [Docs -> [Models -> Views]]
      /\ mode \in [Docs -> [Models -> Mode]]
      /\ loaded \in [Docs -> SUBSET Models]
  BY DEF TypeOK
<1>1. CASE UNCHANGED <<view, mode, hasChanged>>
  BY <1>0, <1>1, Unseen DEF Same
<1>2. CASE ~UNCHANGED <<view, mode, hasChanged>>
  <2>1. PICK m \in loaded[op.doc], v \in Views, k \in Mode :
           /\ view' = [view EXCEPT ![op.doc][m] = v]
           /\ mode' = [mode EXCEPT ![op.doc][m] = k]
           /\ hasChanged' = [hasChanged EXCEPT ![op.doc][m] = TRUE]
    <3>1. CASE Move
      <4>1. PICK v \in Views :
                /\ view' = [view EXCEPT ![op.doc][op.model] = v]
                /\ hasChanged' = [hasChanged EXCEPT ![op.doc][op.model] = TRUE]
        BY <1>2, <3>1 DEF Move
      <4>2. op.model \in loaded[op.doc] /\ mode' = mode
        BY <3>1 DEF Move, WorksOnLoaded
      <4>3. mode[op.doc][op.model] \in Mode
        BY <1>d, <1>t, <4>2
      <4>4. mode' = [mode EXCEPT ![op.doc][op.model] = mode[op.doc][op.model]]
        BY <1>d, <1>t, <4>2
      <4> QED
        BY <4>1, <4>2, <4>3, <4>4
    <3>2. CASE PressKey
      <4>1. PICK m \in loaded[op.doc] :
            /\ view' = [view EXCEPT ![op.doc][m] = IF op.kind = "H" THEN HomeView ELSE @]
            /\ mode' = [mode EXCEPT ![op.doc][m] = IF op.kind = "M" THEN (@ + 1) % Modes ELSE @]
            /\ hasChanged' = [hasChanged EXCEPT ![op.doc][m] = TRUE]
        BY <1>2, <3>2 DEF PressKey
      <4>2. m \in Models
        BY <1>d, <1>t, <4>1
      <4> DEFINE v == IF op.kind = "H" THEN HomeView ELSE view[op.doc][m]
                 k == IF op.kind = "M" THEN (mode[op.doc][m] + 1) % Modes ELSE mode[op.doc][m]
      <4>3. v \in Views /\ k \in Mode
        BY <1>d, <1>t, <4>2, ModeZero
      <4>4. view' = [view EXCEPT ![op.doc][m] = v] /\ mode' = [mode EXCEPT ![op.doc][m] = k]
        BY <4>1
      <4> QED
        BY <4>1, <4>3, <4>4
    <3> QED
      BY <1>2, <3>1, <3>2 DEF HandlerStep, HitTest, Pick, LockForMove, WheelMiss, RefreshDone, modelVars
  <2>2. CASE op.doc \in Unraced
    BY <1>0, <2>1, <2>2, SeenInput
  <2>3. CASE op.doc \notin Unraced
    <3>1. \A e \in Docs \ {op.doc} : Same(e) /\ req'[e] = req[e]
      BY <1>0, <1>t, <2>1 DEF Same
    <3> QED
      BY <1>d, <2>3, <3>1, UnseenRaced
  <2> QED
    BY <2>2, <2>3
<1> QED
  BY <1>1, <1>2

\* SetDocument() forgets the models of the document.
LEMMA SeenSetDocument ==
    ASSUME TypeOK, NEW d \in Unraced, SetDocument(d)
    PROVE  Atomic!Forget(d)
<1> USE UnracedDocs
<1>1. req' = req /\ req[d].pc = "idle" /\ ForgetModels(d)
  BY DEF SetDocument
<1>2. d \notin Serving /\ Serving' = Serving
  BY <1>1 DEF Serving
<1>f. /\ loaded'[d] = {}
      /\ view'[d] = [m \in Models |-> HomeView]
      /\ mode'[d] = [m \in Models |-> 0]
      /\ hasChanged'[d] = [m \in Models |-> TRUE]
      /\ image'[d] = [m \in Models |-> NullImage]
      /\ \A e \in Docs \ {d} : Same(e)
  BY <1>1 DEF ForgetModels, TypeOK, Same
<1>3. Looks' = [Looks EXCEPT ![d] = [m \in Models |-> <<HomeView, 0, 0>>]]
  <2>1. Looks'[d] = [m \in Models |-> <<HomeView, 0, 0>>]
    BY <1>f DEF Looks
  <2>2. \A e \in Unraced \ {d} : Looks'[e] = Looks[e]
    BY <1>f DEF Looks, Same
  <2> QED
    BY <2>1, <2>2, SeenPlaces, SeenPlacesNext
<1>4. Frames' = [Frames EXCEPT ![d] = [m \in Models |-> <<>>]]
  <2>1. Frame(NullImage) = <<>>
    BY DEF Frame, NullImage
  <2>2. Frames'[d] = [m \in Models |-> <<>>]
    <3>1. Frames'[d] = [m \in Models |-> Frame(image'[d][m])]
      BY DEF Frames
    <3>2. \A m \in Models : Frame(image'[d][m]) = <<>>
      BY <1>f, <2>1
    <3> QED
      BY <3>1, <3>2, Zenon
  <2>3. \A e \in Unraced \ {d} : Frames'[e] = Frames[e]
    BY <1>f DEF Frames, Same
  <2> QED
    BY <2>2, <2>3, SeenPlaces, SeenPlacesNext
<1>5. Fresh' = [Fresh EXCEPT ![d] = [m \in Models |-> FALSE]]
  <2>1. Fresh'[d] = [m \in Models |-> FALSE]
    BY <1>f DEF Fresh
  <2>2. \A e \in Unraced \ {d} : Fresh'[e] = Fresh[e]
    BY <1>f DEF Fresh, Same
  <2> QED
    BY <2>1, <2>2, SeenPlaces, SeenPlacesNext
<1>6. Loaded' = [Loaded EXCEPT ![d] = {}]
  BY <1>f DEF Loaded, Same
<1> QED
  BY <1>2, <1>3, <1>4, <1>5, <1>6 DEF Atomic!Forget

\* AddModel() loads a model in its home view.
LEMMA SeenAddModel ==
    ASSUME TypeOK, LockInv, NEW d \in Unraced, NEW m \in Models, AddModel(d, m)
    PROVE  Atomic!Load(d, m)
<1> USE UnracedDocs
<1>1. req' = req /\ req[d].pc = "idle"
  BY DEF AddModel, LockInv
<1>2. d \notin Serving /\ Serving' = Serving
  BY <1>1 DEF Serving
<1>t. /\ loaded \in [Docs -> SUBSET Models]
      /\ hasChanged \in [Docs -> [Models -> BOOLEAN]]
      /\ view \in [Docs -> [Models -> Views]]
      /\ mode \in [Docs -> [Models -> Mode]]
      /\ image \in [Docs -> [Models -> Image]]
  BY DEF TypeOK
<1>3. Looks' = [Looks EXCEPT ![d][m] = <<HomeView, 0, 0>>]
  <2>1. view'[d][m] = HomeView /\ mode'[d][m] = 0
    BY <1>t DEF AddModel
  <2>2. \A e \in Docs, n \in Models : ~(e = d /\ n = m) =>
           view'[e][n] = view[e][n] /\ mode'[e][n] = mode[e][n]
    BY <1>t DEF AddModel
  <2> DEFINE x == <<HomeView, 0, 0>>
  <2>3. Looks'[d][m] = x
    BY <2>1, SeenPlacesNext
  <2> HIDE DEF x
  <2>4. Looks' = [Looks EXCEPT ![d][m] = x]
    BY <2>2, <2>3, SeenLook
  <2> QED
    BY <2>4 DEF x
<1>4. Frames' = [Frames EXCEPT ![d][m] = <<>>]
  <2>1. image'[d][m] = NullImage /\ Frame(NullImage) = <<>>
    BY <1>t DEF AddModel, Frame, NullImage
  <2>2. \A e \in Docs, n \in Models : ~(e = d /\ n = m) => image'[e][n] = image[e][n]
    BY <1>t DEF AddModel
  <2> QED
    BY <2>1, <2>2, SeenFrame
<1>5. Fresh' = [Fresh EXCEPT ![d][m] = FALSE]
  BY SeenFresh DEF AddModel
<1>6. m \notin Loaded[d] /\ Loaded' = [Loaded EXCEPT ![d] = @ \cup {m}]
  BY <1>t DEF AddModel, Loaded
<1> QED
  BY <1>2, <1>3, <1>4, <1>5, <1>6 DEF Atomic!Load

\* Every step of the manager is a step of the atomic manager or stutters.
LEMMA SeenStep ==
    ASSUME TypeOK, TargetInv, LockInv, CoherentInv, WorksOnLoaded, [Next]_vars
    PROVE  [Atomic!Next]_(Atomic!vars)
<1> USE UnracedDocs
<1>1. ASSUME NEW d \in Docs, RequestStep(d) PROVE Atomic!Next \/ UNCHANGED Atomic!vars
  BY <1>1, SeenRequestStep, RequestStepAlone, UnseenRaced
<1>2. CASE HandlerStep
  BY <1>2, SeenHandlerStep
<1>3. ASSUME NEW d \in Docs, SetDocument(d) PROVE Atomic!Next \/ UNCHANGED Atomic!vars
  <2>1. CASE d \in Unraced
    BY <1>3, <2>1, SeenSetDocument DEF Atomic!Next
  <2>2. CASE d \notin Unraced
    <3>1. \A e \in Docs \ {d} : Same(e) /\ req'[e] = req[e]
      BY <1>3 DEF SetDocument, ForgetModels, Same, TypeOK
    <3> QED
      BY <2>2, <3>1, UnseenRaced
  <2> QED
    BY <2>1, <2>2
<1>4. ASSUME NEW d \in Docs, NEW m \in Models, AddModel(d, m)
      PROVE  Atomic!Next \/ UNCHANGED Atomic!vars
  <2>1. CASE d \in Unraced
    BY <1>4, <2>1, SeenAddModel DEF Atomic!Next
  <2>2. CASE d \notin Unraced
    <3>1. \A e \in Docs \ {d} : Same(e) /\ req'[e] = req[e]
      BY <1>4 DEF AddModel, Same, TypeOK
    <3> QED
      BY <2>2, <3>1, UnseenRaced
  <2> QED
    BY <2>1, <2>2
<1>5. ASSUME NEW d \in Docs, NEW t \in Threads, NEW s \in Sizes, StartRequest(d, t, s)
      PROVE  Atomic!Next \/ UNCHANGED Atomic!vars
  <2>1. req'[d].pc = "snapshot" /\ req[d].pc = "idle" /\ \A e \in Docs \ {d} : req'[e] = req[e]
    BY <1>5, StartMoves DEF StartRequest
  <2>2. UNCHANGED modelVars
    BY <1>5 DEF StartRequest
  <2>3. CASE d \in Unraced
    <3>1. UNCHANGED <<Loaded, Looks, Frames, Fresh>>
      BY <2>2 DEF modelVars, Loaded, Looks, Frames, Fresh
    <3>2. d \notin Serving /\ Serving' = Serving \cup {d}
      BY <2>1, <2>3 DEF Serving
    <3> QED
      BY <2>3, <3>1, <3>2 DEF Atomic!Begin, Atomic!Next
  <2>4. CASE d \notin Unraced
    BY <2>1, <2>2, <2>4, UnseenRaced DEF Same, modelVars
  <2> QED
    BY <2>3, <2>4
<1>6. ASSUME NEW d \in Docs, FinishLoad(d) \/ FailLoad(d) \/ CloseDocument(d) \/ ReleaseButton(d)
      PROVE  UNCHANGED Atomic!vars
  <2>1. UNCHANGED <<modelVars, req>>
    BY <1>6 DEF FinishLoad, FailLoad, CloseDocument, ReleaseButton
  <2> QED
    BY <2>1, Unseen DEF Same, modelVars
<1>7. ASSUME NEW d \in Docs, NEW k, StartHit(d, k) \/ StartMove(d, k) PROVE UNCHANGED Atomic!vars
  <2>1. UNCHANGED <<modelVars, req>>
    BY <1>7 DEF StartHit, StartMove
  <2> QED
    BY <2>1, Unseen DEF Same, modelVars
<1>8. CASE UNCHANGED vars
  <2>1. UNCHANGED <<modelVars, req>>
    BY <1>8 DEF vars, modelVars
  <2> QED
    BY <2>1, Unseen DEF Same, modelVars
<1> QED
  BY <1>1, <1>2, <1>3, <1>4, <1>5, <1>6, <1>7, <1>8 DEF Next

\* Rendering in many steps, under two mutexes and interleaved with input and
\* other documents, implements rendering in one step: for every number of
\* documents, models, views and sizes, for all documents when no key is
\* pressed, and with keys for the standalone ones.
THEOREM ManagerIsAtomic == Spec => RendersAtomically
<1>1. Init => Atomic!Init
  <2> SUFFICES ASSUME Init PROVE Atomic!Init
    OBVIOUS
  <2> USE UnracedDocs
  <2>1. Serving = {} /\ Loaded = [d \in Unraced |-> {}]
    BY DEF Init, Serving, Loaded, NoRequest
  <2>2. Looks = Atomic!Blank(<<HomeView, 0, 0>>) /\ Fresh = Atomic!Blank(FALSE)
    BY DEF Init, Looks, Fresh, Atomic!Blank
  <2>3. Frames = Atomic!Blank(<<>>)
    <3>1. Frame(NullImage) = <<>>
      BY DEF Frame, NullImage
    <3> QED
      BY <3>1 DEF Init, Frames, Atomic!Blank
  <2> QED
    BY <2>1, <2>2, <2>3 DEF Atomic!Init
<1>2. Init => WorksOnLoaded
  BY DEF Init, WorksOnLoaded, NoRequest
<1>3. TypeOK /\ LockInv /\ WorksOnLoaded /\ [Next]_vars => WorksOnLoaded'
  BY WorksStep
<1>4. TypeOK /\ TargetInv /\ LockInv /\ CoherentInv /\ WorksOnLoaded /\ [Next]_vars
        => [Atomic!Next]_(Atomic!vars)
  BY SeenStep
<1> QED
  BY <1>1, <1>2, <1>3, <1>4, TypeCorrect, LocksOwned, CoherentAlways, PTL
     DEF Spec, RendersAtomically, Atomic!Spec
=============================================================================
