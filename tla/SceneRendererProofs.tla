------------------------- MODULE SceneRendererProofs -------------------------
(***************************************************************************)
(* Proofs about SceneRenderer, for any number of documents, models,        *)
(* objects, sizes and frames in flight.                                    *)
(*                                                                         *)
(* TessellationFresh rests on what each model remembers: unless it will be *)
(* remeshed, its objects keep tessellations of the size of its cached      *)
(* image (TessInv).  That needs every render that consumes the remesh flag *)
(* to store an image, so it is proved for renders that do not fail.        *)
(*                                                                         *)
(* GeometryFresh rests on the GPU buffers: when all objects of the last    *)
(* model would take the fast path, the buffers hold just what they would   *)
(* append (BufferInv).  It is proved when the last model is unambiguous,   *)
(* that is for one document, or for documents of one model each.           *)
(*                                                                         *)
(* PipelinesMatchMode rests on the mode the renderer remembers being the   *)
(* one its pipelines were built for (ModeInv), which a switch of models    *)
(* breaks: it is proved for documents of one model.                        *)
(***************************************************************************)
EXTENDS SceneRenderer, TLAPS

\* OUTLINE renders never consume the remesh flag.
OutlineInv == \A d \in Docs, k \in Slots : mode[d][k] = Outline => remesh[d][k]

\* The size of the tessellations a model keeps.
KeptSize(d, k) ==
    IF job.pc # "idle" /\ job.doc = d /\ job.slot = k THEN job.size ELSE imageSize[d][k]

TessInv ==
    \A d \in Docs, k \in Slots :
        remesh[d][k] \/ \A o \in Objects : tess[d][k][o] \in {0, KeptSize(d, k)}

\* The last model is the same model of the same document for every render.
OneScene == Slots = {FirstSlot} \/ \E d \in Docs : Docs = {d}

Kept(d, k) == ~remesh[d][k] /\ \A o \in Objects : tess[d][k][o] # 0

BufferInv ==
    \A d \in Docs :
        ~(job.pc = "draw" /\ job.doc = d) /\ gpu[d] # NoGeometry /\ Kept(d, last)
            => gpu[d] = [slot |-> last, mesh |-> tess[d][last]]

\* The render in progress is of the last model, and what it queued is what
\* its objects keep, if all of them keep something.
JobInv ==
    /\ job.pc # "idle" => job.slot = last
    /\ job.pc = "draw" /\ Kept(job.doc, job.slot) => job.mesh = tess[job.doc][job.slot]

-----------------------------------------------------------------------------
\* The three shapes of job.
LEMMA JobTypes ==
    ASSUME TypeOK
    PROVE  /\ job.pc \in {"idle", "queue", "draw"}
           /\ job.pc = "idle" <=> job = NoJob
           /\ job.pc # "idle" => job.doc \in Docs /\ job.slot \in Slots /\ job.size \in Sizes
           /\ job.pc = "draw" => job.mesh \in Meshes
BY DEF TypeOK, NoJob

\* The members of the managers and renderers start well typed.
LEMMA TypeInit == Init => TypeOK
BY SceneAssumption DEF Init, TypeOK, PerModel, Modes, Normal, NoMesh, Meshes, NoGeometry,
                       Geometry, NoJob

\* Every step preserves the types.
LEMMA TypeStep == TypeOK /\ [Next]_vars => TypeOK'
<1> SUFFICES ASSUME TypeOK, [Next]_vars PROVE TypeOK'
  OBVIOUS
<1> USE SceneAssumption
<1>1. ASSUME NEW d \in Docs, Reload(d) PROVE TypeOK'
  <2>1. [k \in Slots |-> NoMesh] \in [Slots -> Meshes]
    BY DEF NoMesh, Meshes
  <2> QED
    BY <2>1, <1>1 DEF Reload, TypeOK, rendererVars, Modes, Normal
<1>2. ASSUME NEW d \in Docs, NEW k \in Slots, Zoom(d, k) PROVE TypeOK'
  BY <1>2 DEF Zoom, TypeOK, rendererVars
<1>3. ASSUME NEW d \in Docs, NEW k \in Slots, CycleMode(d, k) PROVE TypeOK'
  <2>1. \A m \in Modes : (m + 1) % NumModes \in Modes
    BY DEF Modes, Normal, Outline, Wireframe, NumModes
  <2> QED
    BY <2>1, <1>3 DEF CycleMode, TypeOK, rendererVars
<1>4. ASSUME NEW d \in Docs, NEW k \in Slots, NEW s \in Sizes, EnterRender(d, k, s)
      PROVE  TypeOK'
  BY <1>4 DEF EnterRender, TypeOK
<1>5. CASE QueueMesh
  <2>1. job \in [pc: {"queue"}, doc: Docs, slot: Slots, size: Sizes]
    BY <1>5 DEF QueueMesh, TypeOK, NoJob
  <2>2. PICK V \in SUBSET Objects, Full \in SUBSET Objects :
          /\ tess' = [tess EXCEPT ![job.doc][job.slot] =
              [o \in Objects |-> IF o \notin V THEN 0
                                 ELSE IF mode[job.doc][job.slot] = Outline
                                            \/ FastPath(job.doc, job.slot, o)
                                      THEN tess[job.doc][job.slot][o]
                                 ELSE IF o \in Full THEN job.size ELSE 0]]
          /\ renderCount' \in {renderCount, 0}
          /\ \/ job' = NoJob /\ UNCHANGED remesh
             \/ /\ remesh' = [remesh EXCEPT ![job.doc][job.slot] =
                                @ /\ mode[job.doc][job.slot] = Outline]
                /\ job' = [pc |-> "draw", doc |-> job.doc, slot |-> job.slot, size |-> job.size,
                           mesh |-> [o \in Objects |->
                                       IF o \notin V THEN 0
                                       ELSE IF FastPath(job.doc, job.slot, o)
                                       THEN tess[job.doc][job.slot][o] ELSE job.size]]
    BY <1>5 DEF QueueMesh
  <2>3. tess[job.doc][job.slot] \in [Objects -> Sizes \cup {0}]
    BY <2>1 DEF TypeOK, Meshes
  <2>4. tess' \in [Docs -> [Slots -> Meshes]]
    BY <2>1, <2>2, <2>3 DEF TypeOK, Meshes
  <2>5. CASE job' = NoJob /\ UNCHANGED remesh
    BY <2>5, <2>4, <2>2, <1>5 DEF QueueMesh, TypeOK, rendererVars
  <2>6. CASE job' # NoJob
    <3>1. remesh' \in [Docs -> [Slots -> BOOLEAN]]
      <4>1. PICK b \in BOOLEAN : remesh' = [remesh EXCEPT ![job.doc][job.slot] = b]
        BY <2>6, <2>2
      <4> QED BY <4>1, <2>1 DEF TypeOK
    <3>2. job' \in [pc: {"draw"}, doc: Docs, slot: Slots, size: Sizes, mesh: Meshes]
      BY <2>6, <2>1, <2>2, <2>3 DEF Meshes
    <3> QED
      BY <3>1, <3>2, <2>2, <2>4, <1>5 DEF QueueMesh, TypeOK, rendererVars
  <2> QED BY <2>2, <2>5, <2>6 DEF NoJob
<1>6. CASE Draw
  <2>1. job \in [pc: {"draw"}, doc: Docs, slot: Slots, size: Sizes, mesh: Meshes]
    BY <1>6 DEF Draw, TypeOK, NoJob
  <2>2. Drawn \in Geometry
    BY <2>1 DEF Drawn, Queued, Geometry, TypeOK
  <2>3. DrawnMode \in Modes /\ mode[job.doc][job.slot] \in Modes
    BY <2>1 DEF DrawnMode, TypeOK
  <2>4. Room \in Nat
    <3>1. capacity[job.doc] \in Nat /\ materials[job.doc][job.slot] \in MaterialCounts
      BY <2>1 DEF TypeOK
    <3> QED BY <3>1 DEF Room
  <2>5. CountFrame \in 0 .. MaxFramesInFlight
    BY DEF CountFrame, TypeOK
  <2>6. currentMode' \in [Docs -> Modes] /\ builtMode' \in [Docs -> Modes]
    BY <2>1, <2>3, <1>6 DEF Draw, TypeOK
  <2>7. gpu' \in [Docs -> Geometry] /\ capacity' \in [Docs -> Nat]
    BY <2>1, <2>2, <2>4, <1>6 DEF Draw, TypeOK
  <2>8. targetSize' \in [Docs -> Sizes \cup {0}] /\ imageSize' \in [Docs -> [Slots -> Sizes \cup {0}]]
    BY <2>1, <1>6 DEF Draw, TypeOK
  <2> QED
    BY <2>5, <2>6, <2>7, <2>8, <1>6 DEF Draw, TypeOK
<1>7. CASE DrawFails
  <2>1. job \in [pc: {"draw"}, doc: Docs, slot: Slots, size: Sizes, mesh: Meshes]
    BY <1>7 DEF DrawFails, TypeOK, NoJob
  <2>2. NoGeometry \in Geometry
    BY DEF NoGeometry, Geometry, NoMesh, Meshes
  <2>3. mode[job.doc][job.slot] \in Modes /\ currentMode[job.doc] \in Modes
    BY <2>1 DEF TypeOK
  <2>4. CountFrame \in 0 .. MaxFramesInFlight
    BY DEF CountFrame, TypeOK
  <2> QED
    BY <2>1, <2>2, <2>3, <2>4, <1>7 DEF DrawFails, TypeOK, modelVars
<1>8. CASE UNCHANGED vars
  BY <1>8 DEF TypeOK, vars, modelVars, rendererVars
<1> QED
  BY <1>1, <1>2, <1>3, <1>4, <1>5, <1>6, <1>7, <1>8 DEF Next

\* Every reachable state of the scene and its renderers is well typed.
THEOREM SceneTypes == Spec => []TypeOK
BY TypeInit, TypeStep, PTL DEF Spec

-----------------------------------------------------------------------------
(* What QueueMesh does to the model of the render in progress.             *)

\* The new tessellations of the model and the mesh queued, as functions of
\* the visible objects V and the fully visible ones.
KeptMesh(V, Full) ==
    [o \in Objects |-> IF o \notin V THEN 0
                       ELSE IF mode[job.doc][job.slot] = Outline \/ FastPath(job.doc, job.slot, o)
                       THEN tess[job.doc][job.slot][o]
                       ELSE IF o \in Full THEN job.size ELSE 0]

QueuedMesh(V) ==
    [o \in Objects |-> IF o \notin V THEN 0
                       ELSE IF FastPath(job.doc, job.slot, o) THEN tess[job.doc][job.slot][o]
                       ELSE job.size]

AllFast(V) == \A o \in Objects : o \in V /\ FastPath(job.doc, job.slot, o)

\* QueueMesh in the terms of these operators.
LEMMA QueueMeshEffect ==
    ASSUME TypeOK, QueueMesh
    PROVE  /\ job \in [pc: {"queue"}, doc: Docs, slot: Slots, size: Sizes]
           /\ UNCHANGED <<last, mode, imageSize, gpu, targetSize>>
           /\ \E V \in SUBSET Objects, Full \in SUBSET Objects :
                /\ tess' = [tess EXCEPT ![job.doc][job.slot] = KeptMesh(V, Full)]
                /\ renderCount' = IF AllFast(V) THEN renderCount ELSE 0
                /\ \/ V = {} /\ job' = NoJob /\ UNCHANGED remesh
                   \/ /\ V # {}
                      /\ remesh' = [remesh EXCEPT ![job.doc][job.slot] =
                                       @ /\ mode[job.doc][job.slot] = Outline]
                      /\ job' = [pc |-> "draw", doc |-> job.doc, slot |-> job.slot,
                                 size |-> job.size, mesh |-> QueuedMesh(V)]
<1>1. job \in [pc: {"queue"}, doc: Docs, slot: Slots, size: Sizes]
  BY DEF QueueMesh, TypeOK, NoJob
<1>2. UNCHANGED <<last, mode, imageSize, gpu, targetSize>>
  BY DEF QueueMesh, rendererVars
<1> QED
  BY <1>1, <1>2 DEF QueueMesh, KeptMesh, QueuedMesh, AllFast

-----------------------------------------------------------------------------
(* Outline renders and the remesh flag.                                    *)

\* cycleMode() into OUTLINE sets remesh, and QueueMesh leaves it set there.
LEMMA OutlineStep == TypeOK /\ OutlineInv /\ [Next]_vars => OutlineInv'
<1> SUFFICES ASSUME TypeOK, OutlineInv, [Next]_vars,
                    NEW d \in Docs, NEW k \in Slots, (mode[d][k] = Outline)'
             PROVE  remesh'[d][k]
  BY DEF OutlineInv
<1>1. ASSUME NEW e \in Docs, Reload(e) PROVE remesh'[d][k]
  BY <1>1 DEF Reload, TypeOK, OutlineInv
<1>2. ASSUME NEW e \in Docs, NEW j \in Slots, Zoom(e, j) \/ CycleMode(e, j) PROVE remesh'[d][k]
  <2>1. CASE e = d /\ j = k
    BY <1>2, <2>1 DEF Zoom, CycleMode, TypeOK
  <2>2. CASE ~(e = d /\ j = k)
    <3>1. mode'[d][k] = mode[d][k] /\ remesh'[d][k] = remesh[d][k]
      BY <1>2, <2>2 DEF Zoom, CycleMode, TypeOK
    <3> QED BY <3>1 DEF OutlineInv
  <2> QED BY <2>1, <2>2
<1>3. ASSUME NEW e \in Docs, NEW j \in Slots, NEW s \in Sizes, EnterRender(e, j, s)
      PROVE  remesh'[d][k]
  BY <1>3 DEF EnterRender, TypeOK, OutlineInv
<1>4. CASE QueueMesh
  <2>1. job.doc \in Docs /\ job.slot \in Slots /\ mode' = mode /\ remesh[d][k]
    BY <1>4, QueueMeshEffect DEF OutlineInv
  <2>2. \/ remesh' = remesh
        \/ remesh' = [remesh EXCEPT ![job.doc][job.slot] =
                        @ /\ mode[job.doc][job.slot] = Outline]
    BY <1>4, QueueMeshEffect
  <2>3. CASE d = job.doc /\ k = job.slot
    BY <2>1, <2>2, <2>3 DEF TypeOK
  <2>4. CASE ~(d = job.doc /\ k = job.slot)
    BY <2>1, <2>2, <2>4 DEF TypeOK
  <2> QED BY <2>3, <2>4
<1>5. CASE Draw \/ DrawFails
  BY <1>5 DEF Draw, DrawFails, modelVars, OutlineInv
<1>6. CASE UNCHANGED vars
  BY <1>6 DEF vars, modelVars, OutlineInv
<1> QED
  BY <1>1, <1>2, <1>3, <1>4, <1>5, <1>6 DEF Next

\* New models are in NORMAL mode and to be remeshed.
LEMMA OutlineInit == Init => OutlineInv
BY DEF Init, OutlineInv, PerModel

-----------------------------------------------------------------------------
(* Tessellations.                                                          *)

\* QueueMesh queues and keeps only tessellations of the size of the render.
LEMMA QueuedSizes ==
    ASSUME TypeOK, OutlineInv, TessInv, job.pc = "queue",
           NEW V \in SUBSET Objects, NEW Full \in SUBSET Objects, NEW o \in Objects
    PROVE  /\ QueuedMesh(V)[o] \in {0, job.size}
           /\ mode[job.doc][job.slot] # Outline => KeptMesh(V, Full)[o] \in {0, job.size}
<1>1. job.doc \in Docs /\ job.slot \in Slots
  BY JobTypes
<1>2. FastPath(job.doc, job.slot, o) => tess[job.doc][job.slot][o] \in {0, job.size}
  BY <1>1 DEF FastPath, TessInv, KeptSize
<1> QED
  BY <1>2 DEF QueuedMesh, KeptMesh

\* Every step keeps each model's tessellations at the size it will compare
\* with, or marks the model for remeshing.
LEMMA TessStep ==
    ASSUME ~RenderFails
    PROVE  TypeOK /\ OutlineInv /\ TessInv /\ [Next]_vars => TessInv'
<1> SUFFICES ASSUME TypeOK, OutlineInv, TessInv, [Next]_vars, NEW d \in Docs, NEW k \in Slots,
                    ~remesh'[d][k], NEW o \in Objects
             PROVE  tess'[d][k][o] \in {0, KeptSize(d, k)'}
  BY DEF TessInv
<1>1. ASSUME NEW e \in Docs, Reload(e) PROVE tess'[d][k][o] \in {0, KeptSize(d, k)'}
  BY <1>1 DEF Reload, TypeOK, TessInv, KeptSize
<1>2. ASSUME NEW e \in Docs, NEW j \in Slots, Zoom(e, j) \/ CycleMode(e, j)
      PROVE  tess'[d][k][o] \in {0, KeptSize(d, k)'}
  <2>1. ~remesh[d][k]
    <3>1. remesh' = [remesh EXCEPT ![e][j] = TRUE] /\ remesh \in [Docs -> [Slots -> BOOLEAN]]
      BY <1>2 DEF Zoom, CycleMode, TypeOK
    <3> QED BY <3>1
  <2> QED BY <2>1, <1>2 DEF Zoom, CycleMode, TessInv, KeptSize
<1>3. ASSUME NEW e \in Docs, NEW j \in Slots, NEW s \in Sizes, EnterRender(e, j, s)
      PROVE  tess'[d][k][o] \in {0, KeptSize(d, k)'}
  <2>1. job = NoJob /\ tess' = tess /\ imageSize' = imageSize
        /\ job' = [pc |-> "queue", doc |-> e, slot |-> j, size |-> s]
    BY <1>3 DEF EnterRender
  <2>2. ~remesh[d][k] /\ (d = e /\ k = j => imageSize[d][k] = s)
    BY <1>3 DEF EnterRender, TypeOK
  <2>3. tess[d][k][o] \in {0, imageSize[d][k]}
    BY <2>1, <2>2 DEF TessInv, KeptSize, NoJob
  <2> QED BY <2>1, <2>2, <2>3 DEF KeptSize
<1>4. CASE QueueMesh
  <2>1. job \in [pc: {"queue"}, doc: Docs, slot: Slots, size: Sizes]
        /\ mode' = mode /\ imageSize' = imageSize
    BY <1>4, QueueMeshEffect
  <2>2. PICK V \in SUBSET Objects, Full \in SUBSET Objects :
          /\ tess' = [tess EXCEPT ![job.doc][job.slot] = KeptMesh(V, Full)]
          /\ \/ V = {} /\ job' = NoJob /\ UNCHANGED remesh
             \/ /\ remesh' = [remesh EXCEPT ![job.doc][job.slot] =
                                 @ /\ mode[job.doc][job.slot] = Outline]
                /\ job' = [pc |-> "draw", doc |-> job.doc, slot |-> job.slot,
                           size |-> job.size, mesh |-> QueuedMesh(V)]
    BY <1>4, QueueMeshEffect
  <2>3. CASE ~(d = job.doc /\ k = job.slot)
    <3>1. tess'[d][k] = tess[d][k] /\ ~remesh[d][k]
      BY <2>1, <2>2, <2>3 DEF TypeOK
    <3>2. KeptSize(d, k)' = imageSize[d][k] /\ KeptSize(d, k) = imageSize[d][k]
      BY <2>1, <2>2, <2>3 DEF KeptSize, NoJob
    <3> QED BY <3>1, <3>2 DEF TessInv
  <2>4. CASE d = job.doc /\ k = job.slot
    <3>1. tess'[d][k] = KeptMesh(V, Full)
      BY <2>1, <2>2, <2>4 DEF TypeOK
    <3>2. CASE V = {}
      BY <3>1, <3>2 DEF KeptMesh
    <3>3. CASE job'.pc = "draw"
      <4>1. KeptSize(d, k)' = job.size
        BY <2>2, <2>4, <3>3 DEF KeptSize, NoJob
      <4>2. mode[d][k] # Outline
        <5>1. remesh' = [remesh EXCEPT ![job.doc][job.slot] =
                            @ /\ mode[job.doc][job.slot] = Outline]
          BY <2>2, <3>3 DEF NoJob
        <5>2. ~(remesh[d][k] /\ mode[d][k] = Outline)
          BY <5>1, <2>1, <2>4 DEF TypeOK
        <5> QED BY <5>2 DEF OutlineInv
      <4> QED BY <3>1, <4>1, <4>2, <2>1, <2>4, QueuedSizes
    <3> QED BY <2>2, <3>2, <3>3
  <2> QED BY <2>3, <2>4
<1>5. CASE Draw
  <2>1. job \in [pc: {"draw"}, doc: Docs, slot: Slots, size: Sizes, mesh: Meshes]
    BY <1>5 DEF Draw, TypeOK, NoJob
  <2>2. KeptSize(d, k)' = KeptSize(d, k)
    BY <1>5, <2>1 DEF Draw, KeptSize, TypeOK, NoJob
  <2> QED BY <2>2, <1>5 DEF Draw, TessInv
<1>6. CASE DrawFails
  BY <1>6 DEF DrawFails
<1>7. CASE UNCHANGED vars
  BY <1>7 DEF vars, modelVars, TessInv, KeptSize
<1> QED
  BY <1>1, <1>2, <1>3, <1>4, <1>5, <1>6, <1>7 DEF Next

\* A frame that is queued is queued from tessellations of its size.
LEMMA FreshStep ==
    TypeOK /\ OutlineInv /\ TessInv /\ TessellationFresh /\ [Next]_vars => TessellationFresh'
<1> SUFFICES ASSUME TypeOK, OutlineInv, TessInv, TessellationFresh, [Next]_vars
             PROVE  TessellationFresh'
  OBVIOUS
<1>1. CASE QueueMesh
  BY <1>1, QueueMeshEffect, QueuedSizes DEF TessellationFresh, NoJob
<1>2. CASE job' = NoJob \/ job' = job
  BY <1>2 DEF TessellationFresh, NoJob
<1>3. ASSUME NEW d \in Docs, NEW k \in Slots, NEW s \in Sizes, EnterRender(d, k, s)
      PROVE  TessellationFresh'
  BY <1>3 DEF EnterRender, TessellationFresh
<1> QED
  BY <1>1, <1>2, <1>3 DEF Next, Reload, Zoom, CycleMode, Draw, DrawFails, vars

\* While no render fails, every object of every frame is tessellated and
\* culled for the size of the frame, although RenderModel() consumes the
\* remesh flag and compares sizes with the cached image only.
THEOREM TessellationIsFresh == ASSUME ~RenderFails PROVE Spec => []TessellationFresh
<1>1. Init => TypeOK /\ OutlineInv /\ TessInv /\ TessellationFresh
  BY TypeInit, OutlineInit DEF Init, TessInv, TessellationFresh, PerModel, NoJob
<1>2. TypeOK /\ OutlineInv /\ TessInv /\ TessellationFresh /\ [Next]_vars
        => (TypeOK /\ OutlineInv /\ TessInv /\ TessellationFresh)'
  BY TypeStep, OutlineStep, TessStep, FreshStep
<1> QED BY <1>1, <1>2, PTL DEF Spec

-----------------------------------------------------------------------------
(* The geometry on the GPU.                                                *)

\* When QueueMesh took the fast path for every object, it queued exactly
\* what the objects keep; and what all objects keep afterwards was queued.
LEMMA QueuedKept ==
    ASSUME TypeOK, OutlineInv, job.pc = "queue",
           NEW V \in SUBSET Objects, NEW Full \in SUBSET Objects
    PROVE  /\ AllFast(V) => QueuedMesh(V) = tess[job.doc][job.slot]
           /\ mode[job.doc][job.slot] # Outline /\ (\A o \in Objects : KeptMesh(V, Full)[o] # 0)
                => QueuedMesh(V) = KeptMesh(V, Full)
<1>1. tess[job.doc][job.slot] \in [Objects -> Sizes \cup {0}]
  BY JobTypes DEF TypeOK, Meshes
<1>2. AllFast(V) => QueuedMesh(V) = tess[job.doc][job.slot]
  <2> SUFFICES ASSUME AllFast(V) PROVE QueuedMesh(V) = tess[job.doc][job.slot]
    OBVIOUS
  <2>1. \A o \in Objects : QueuedMesh(V)[o] = tess[job.doc][job.slot][o]
    BY DEF AllFast, QueuedMesh
  <2>2. QueuedMesh(V) = [o \in Objects |-> QueuedMesh(V)[o]]
    BY DEF QueuedMesh
  <2> QED BY <1>1, <2>1, <2>2
<1>3. ASSUME mode[job.doc][job.slot] # Outline, \A o \in Objects : KeptMesh(V, Full)[o] # 0
      PROVE  QueuedMesh(V) = KeptMesh(V, Full)
  <2>1. \A o \in Objects : QueuedMesh(V)[o] = KeptMesh(V, Full)[o]
    BY <1>3 DEF QueuedMesh, KeptMesh
  <2>2. /\ QueuedMesh(V) = [o \in Objects |-> QueuedMesh(V)[o]]
        /\ KeptMesh(V, Full) = [o \in Objects |-> KeptMesh(V, Full)[o]]
    BY DEF QueuedMesh, KeptMesh
  <2> QED BY <2>1, <2>2
<1> QED BY <1>2, <1>3

GeometryInv == TypeOK /\ OutlineInv /\ BufferInv /\ JobInv /\ GeometryFresh

\* A step that starts no render, queues and draws nothing, and leaves every
\* model as it is or marks it for remeshing.
LEMMA GeometryIdle ==
    ASSUME TypeOK, BufferInv, job = NoJob, job' = NoJob, last' = last, gpu' = gpu,
           \A d \in Docs, k \in Slots : remesh'[d][k] \/ (~remesh[d][k] /\ tess'[d][k] = tess[d][k])
    PROVE  BufferInv' /\ JobInv' /\ GeometryFresh'
<1>1. last \in Slots
  BY DEF TypeOK
<1>2. BufferInv'
  BY <1>1 DEF BufferInv, Kept, NoJob
<1>3. JobInv' /\ GeometryFresh'
  BY DEF JobInv, GeometryFresh, NoJob
<1> QED BY <1>2, <1>3

\* Entering a render: a model that is not remeshed is the last one rendered.
LEMMA GeometryEnter ==
    ASSUME OneScene, GeometryInv, NEW d \in Docs, NEW k \in Slots, NEW s \in Sizes,
           EnterRender(d, k, s)
    PROVE  BufferInv' /\ JobInv' /\ GeometryFresh'
<1>1. /\ job = NoJob /\ job' = [pc |-> "queue", doc |-> d, slot |-> k, size |-> s]
      /\ last' = k /\ gpu' = gpu /\ tess' = tess
  BY DEF EnterRender
<1>2. BufferInv'
  <2> SUFFICES ASSUME NEW e \in Docs, gpu[e] # NoGeometry, Kept(e, k)'
               PROVE  gpu[e] = [slot |-> k, mesh |-> tess[e][k]]
    BY <1>1 DEF BufferInv
  <2>1. ~remesh'[e][k] /\ \A o \in Objects : tess[e][k][o] # 0
    BY <1>1 DEF Kept
  <2>2. ~remesh[e][k] /\ (e = d => k = last)
    BY <2>1 DEF EnterRender, GeometryInv, TypeOK
  <2>3. k = last
    BY <2>2 DEF OneScene, GeometryInv, TypeOK
  <2> QED BY <2>1, <2>2, <2>3, <1>1 DEF GeometryInv, BufferInv, Kept, NoJob
<1>3. JobInv' /\ GeometryFresh'
  BY <1>1 DEF JobInv, GeometryFresh
<1> QED BY <1>2, <1>3

\* Queueing: the upload is skipped only when every object took the fast path.
LEMMA GeometryQueue ==
    ASSUME GeometryInv, QueueMesh
    PROVE  BufferInv' /\ JobInv' /\ GeometryFresh'
<1>0. TypeOK /\ OutlineInv /\ BufferInv /\ JobInv
  BY DEF GeometryInv
<1>1. /\ job \in [pc: {"queue"}, doc: Docs, slot: Slots, size: Sizes]
      /\ last' = last /\ mode' = mode /\ gpu' = gpu
  BY <1>0, QueueMeshEffect
<1>2. PICK V \in SUBSET Objects, Full \in SUBSET Objects :
        /\ tess' = [tess EXCEPT ![job.doc][job.slot] = KeptMesh(V, Full)]
        /\ renderCount' = IF AllFast(V) THEN renderCount ELSE 0
        /\ \/ V = {} /\ job' = NoJob /\ UNCHANGED remesh
           \/ /\ V # {}
              /\ remesh' = [remesh EXCEPT ![job.doc][job.slot] =
                               @ /\ mode[job.doc][job.slot] = Outline]
              /\ job' = [pc |-> "draw", doc |-> job.doc, slot |-> job.slot,
                         size |-> job.size, mesh |-> QueuedMesh(V)]
  BY <1>0, QueueMeshEffect
<1>3. job.slot = last /\ job.doc \in Docs /\ job.slot \in Slots
  BY <1>0, <1>1 DEF JobInv
<1>4. tess'[job.doc][job.slot] = KeptMesh(V, Full)
  BY <1>0, <1>1, <1>2 DEF TypeOK
<1>5. ASSUME NEW d \in Docs, d # job.doc
      PROVE  tess'[d][last] = tess[d][last] /\ remesh'[d][last] = remesh[d][last]
  BY <1>0, <1>1, <1>2, <1>5 DEF TypeOK
<1>6. CASE V = {} /\ job' = NoJob /\ UNCHANGED remesh
  <2>1. KeptMesh(V, Full) = NoMesh
    BY <1>6 DEF KeptMesh, NoMesh
  <2>2. BufferInv'
    <3> SUFFICES ASSUME NEW d \in Docs, gpu[d] # NoGeometry, Kept(d, last)'
                 PROVE  gpu[d] = [slot |-> last, mesh |-> tess'[d][last]]
      BY <1>1 DEF BufferInv
    <3>1. CASE d # job.doc
      BY <3>1, <1>0, <1>1, <1>5 DEF BufferInv, Kept
    <3>2. CASE d = job.doc
      <4>1. Objects = {}
        BY <3>2, <2>1, <1>1, <1>3, <1>4 DEF Kept, NoMesh
      <4>2. tess[d][last] = tess'[d][last]
        BY <4>1, <3>2, <1>0, <1>3, <1>4, <2>1 DEF TypeOK, Meshes, NoMesh
      <4>3. Kept(d, last)
        BY <4>1, <1>1, <1>6 DEF Kept
      <4> QED BY <4>2, <4>3, <1>0, <1>1 DEF BufferInv
    <3> QED BY <3>1, <3>2
  <2> QED BY <1>6, <2>2 DEF JobInv, GeometryFresh, NoJob
<1>7. CASE V # {}
  <2>1. /\ remesh' = [remesh EXCEPT ![job.doc][job.slot] =
                         @ /\ mode[job.doc][job.slot] = Outline]
        /\ job' = [pc |-> "draw", doc |-> job.doc, slot |-> job.slot,
                   size |-> job.size, mesh |-> QueuedMesh(V)]
    BY <1>2, <1>7
  <2>2. BufferInv'
    <3> SUFFICES ASSUME NEW d \in Docs, d # job.doc, gpu[d] # NoGeometry, Kept(d, last)'
                 PROVE  gpu[d] = [slot |-> last, mesh |-> tess'[d][last]]
      BY <1>1, <2>1 DEF BufferInv
    <3> QED BY <1>0, <1>1, <1>5 DEF BufferInv, Kept
  <2>3. ~remesh'[job.doc][job.slot] => mode[job.doc][job.slot] # Outline
    <3>1. remesh'[job.doc][job.slot]
            = (remesh[job.doc][job.slot] /\ mode[job.doc][job.slot] = Outline)
      BY <2>1, <1>0, <1>3 DEF TypeOK
    <3> QED BY <3>1, <1>0, <1>3 DEF OutlineInv
  <2>4. JobInv'
    <3>1. Kept(job.doc, job.slot)' /\ job'.pc = "draw" => QueuedMesh(V) = KeptMesh(V, Full)
      BY <2>1, <2>3, <1>0, <1>1, <1>4, QueuedKept DEF Kept
    <3> QED BY <3>1, <2>1, <1>1, <1>3, <1>4 DEF JobInv
  <2>5. GeometryFresh'
    <3> SUFFICES ASSUME ~Uploads' PROVE gpu[job.doc] = [slot |-> job.slot, mesh |-> QueuedMesh(V)]
      BY <2>1, <1>1 DEF GeometryFresh, Drawn, Queued
    <3>1. /\ ~(renderCount' < MaxFramesInFlight) /\ gpu[job.doc] # NoGeometry
      BY <2>1, <1>1 DEF Uploads
    <3>2. AllFast(V)
      BY <3>1, <1>2, SceneAssumption
    <3>3. Kept(job.doc, last)
      BY <3>2, <1>7, <1>3 DEF AllFast, FastPath, Kept
    <3>4. gpu[job.doc] = [slot |-> last, mesh |-> tess[job.doc][last]]
      BY <3>1, <3>3, <1>0, <1>1 DEF BufferInv
    <3> QED BY <3>2, <3>4, <1>0, <1>1, <1>3, QueuedKept
  <2> QED BY <2>2, <2>4, <2>5
<1> QED BY <1>2, <1>6, <1>7

\* Drawing leaves the queued geometry in the buffers, failing leaves none.
LEMMA GeometryDraw ==
    ASSUME GeometryInv, Draw \/ DrawFails
    PROVE  BufferInv' /\ JobInv' /\ GeometryFresh'
<1>0. TypeOK /\ BufferInv /\ JobInv /\ GeometryFresh
  BY DEF GeometryInv
<1>1. /\ job.pc = "draw" /\ job' = NoJob /\ job.doc \in Docs /\ job.slot = last
      /\ last' = last /\ remesh' = remesh /\ tess' = tess
  BY <1>0, JobTypes DEF Draw, DrawFails, modelVars, JobInv
<1>2. JobInv' /\ GeometryFresh'
  BY <1>1 DEF JobInv, GeometryFresh, NoJob
<1>3. gpu' = [gpu EXCEPT ![job.doc] = Queued] \/ gpu' = [gpu EXCEPT ![job.doc] = NoGeometry]
  BY <1>0, <1>1 DEF Draw, DrawFails, GeometryFresh
<1>4. BufferInv'
  <2> SUFFICES ASSUME NEW d \in Docs, gpu'[d] # NoGeometry, Kept(d, last)
               PROVE  gpu'[d] = [slot |-> last, mesh |-> tess[d][last]]
    BY <1>1 DEF BufferInv, Kept
  <2>1. CASE d = job.doc
    <3>1. gpu'[d] = Queued
      BY <2>1, <1>0, <1>1, <1>3 DEF TypeOK
    <3> QED BY <3>1, <2>1, <1>0, <1>1 DEF Queued, JobInv
  <2>2. CASE d # job.doc
    <3>1. gpu'[d] = gpu[d]
      BY <2>2, <1>0, <1>1, <1>3 DEF TypeOK
    <3> QED BY <3>1, <2>2, <1>0, <1>1 DEF BufferInv
  <2> QED BY <2>1, <2>2
<1> QED BY <1>2, <1>4

\* With one document, or with documents of one model each, a frame is always
\* drawn from the geometry queued for it: skipping the upload is safe, although
\* renderCount, lastPage and lastModel are shared by all documents and a frame
\* may fail at any time.
THEOREM GeometryIsFresh == ASSUME OneScene PROVE Spec => []GeometryFresh
<1>1. Init => GeometryInv
  BY TypeInit, OutlineInit DEF Init, GeometryInv, BufferInv, JobInv, GeometryFresh, NoJob
<1>2. GeometryInv /\ [Next]_vars => GeometryInv'
  <2> SUFFICES ASSUME GeometryInv, [Next]_vars PROVE GeometryInv'
    OBVIOUS
  <2>0. TypeOK /\ OutlineInv /\ BufferInv /\ TypeOK' /\ OutlineInv'
    BY TypeStep, OutlineStep DEF GeometryInv
  <2>1. ASSUME NEW d \in Docs, Reload(d) PROVE GeometryInv'
    <3>1. \A e \in Docs, k \in Slots :
             remesh'[e][k] \/ (~remesh[e][k] /\ tess'[e][k] = tess[e][k])
      BY <2>0, <2>1 DEF Reload, TypeOK
    <3> QED BY <3>1, <2>0, <2>1, GeometryIdle DEF Reload, rendererVars, GeometryInv
  <2>2. ASSUME NEW d \in Docs, NEW k \in Slots, Zoom(d, k) \/ CycleMode(d, k)
        PROVE  GeometryInv'
    <3>1. /\ remesh' = [remesh EXCEPT ![d][k] = TRUE] /\ tess' = tess
          /\ remesh \in [Docs -> [Slots -> BOOLEAN]]
      BY <2>0, <2>2 DEF Zoom, CycleMode, TypeOK
    <3>2. \A e \in Docs, j \in Slots :
             remesh'[e][j] \/ (~remesh[e][j] /\ tess'[e][j] = tess[e][j])
      BY <3>1
    <3> QED BY <3>2, <2>0, <2>2, GeometryIdle DEF Zoom, CycleMode, rendererVars, GeometryInv
  <2>3. ASSUME NEW d \in Docs, NEW k \in Slots, NEW s \in Sizes, EnterRender(d, k, s)
        PROVE  GeometryInv'
    BY <2>0, <2>3, GeometryEnter DEF GeometryInv
  <2>4. CASE QueueMesh
    BY <2>0, <2>4, GeometryQueue DEF GeometryInv
  <2>5. CASE Draw \/ DrawFails
    BY <2>0, <2>5, GeometryDraw DEF GeometryInv
  <2>6. CASE UNCHANGED vars
    <3>1. BufferInv' /\ JobInv' /\ GeometryFresh'
      BY <2>6 DEF GeometryInv, vars, modelVars, rendererVars, BufferInv, JobInv, Kept,
                  GeometryFresh, Drawn, Queued, Uploads, FullRecreate
    <3> QED BY <3>1, <2>0 DEF GeometryInv
  <2> QED BY <2>1, <2>2, <2>3, <2>4, <2>5, <2>6 DEF Next
<1>3. GeometryInv => GeometryFresh
  BY DEF GeometryInv
<1> QED BY <1>1, <1>2, <1>3, PTL DEF Spec
-----------------------------------------------------------------------------
(* Pipelines.                                                              *)

\* The mode render() compares with is the mode its pipelines were built for.
ModeInv == \A d \in Docs : targetSize[d] # 0 => currentMode[d] = builtMode[d]

\* A document of one model never switches models, so nothing but render()
\* assigns the renderer's draw mode.
LEMMA ModeStep ==
    ASSUME Slots = {FirstSlot}
    PROVE  TypeOK /\ ModeInv /\ [Next]_vars => ModeInv'
<1> SUFFICES ASSUME TypeOK, ModeInv, [Next]_vars PROVE ModeInv'
  OBVIOUS
<1>1. CASE UNCHANGED <<currentMode, builtMode, targetSize>>
  BY <1>1 DEF ModeInv
<1>2. ASSUME NEW d \in Docs, NEW k \in Slots, NEW s \in Sizes, EnterRender(d, k, s)
      PROVE  ModeInv'
  <2>1. k = last
    BY DEF TypeOK
  <2> QED BY <2>1, <1>2 DEF EnterRender, ModeInv, TypeOK
<1>3. CASE Draw
  <2>1. job.doc \in Docs /\ job.size \in Sizes
    BY <1>3, JobTypes DEF Draw
  <2>2. \A d \in Docs : d # job.doc => /\ currentMode'[d] = currentMode[d]
                                      /\ builtMode'[d] = builtMode[d]
                                      /\ targetSize'[d] = targetSize[d]
    BY <1>3 DEF Draw, TypeOK
  <2>3. currentMode'[job.doc] = builtMode'[job.doc]
    <3>1. CASE FullRecreate \/ RebuildPipelines
      BY <1>3, <2>1, <3>1 DEF Draw, DrawnMode, TypeOK
    <3>2. CASE ~(FullRecreate \/ RebuildPipelines)
      <4>1. targetSize[job.doc] # 0
        BY <2>1, <3>2, SceneAssumption DEF FullRecreate
      <4> QED BY <1>3, <2>1, <3>2, <4>1 DEF Draw, DrawnMode, ModeInv, TypeOK
    <3> QED BY <3>1, <3>2
  <2> QED BY <2>2, <2>3 DEF ModeInv
<1>4. CASE DrawFails
  <2>1. job.doc \in Docs
    BY <1>4, JobTypes DEF DrawFails
  <2>2. targetSize'[job.doc] = 0 /\ builtMode' = builtMode
    BY <1>4, <2>1 DEF DrawFails, TypeOK
  <2>3. \A d \in Docs : d # job.doc => /\ currentMode'[d] = currentMode[d]
                                      /\ targetSize'[d] = targetSize[d]
    BY <1>4 DEF DrawFails, TypeOK
  <2> QED BY <2>2, <2>3 DEF ModeInv
<1> QED
  BY <1>1, <1>2, <1>3, <1>4 DEF Next, Reload, Zoom, CycleMode, QueueMesh, rendererVars, vars

\* For documents of one model, a frame is drawn with pipelines of its model's
\* polygon mode, however often the mode is cycled and renders fail.
THEOREM PipelinesFollowMode == ASSUME Slots = {FirstSlot} PROVE Spec => []PipelinesMatchMode
<1>1. Init => TypeOK /\ ModeInv
  BY TypeInit DEF Init, ModeInv
<1>2. TypeOK /\ ModeInv /\ [Next]_vars => (TypeOK /\ ModeInv)'
  BY TypeStep, ModeStep
<1>3. TypeOK /\ ModeInv => PipelinesMatchMode
  <2> SUFFICES ASSUME TypeOK, ModeInv, job.pc = "draw"
               PROVE  DrawnMode = mode[job.doc][job.slot]
    BY DEF PipelinesMatchMode
  <2>1. job.doc \in Docs /\ job.size \in Sizes
    BY JobTypes
  <2>2. CASE FullRecreate \/ RebuildPipelines
    BY <2>2 DEF DrawnMode
  <2>3. CASE ~(FullRecreate \/ RebuildPipelines)
    <3>1. targetSize[job.doc] # 0 /\ mode[job.doc][job.slot] = currentMode[job.doc]
      BY <2>1, <2>3, SceneAssumption DEF FullRecreate, RebuildPipelines
    <3> QED BY <2>1, <2>3, <3>1 DEF DrawnMode, ModeInv
  <2> QED BY <2>2, <2>3
<1> QED BY <1>1, <1>2, <1>3, PTL DEF Spec

-----------------------------------------------------------------------------
(* What is taken of HeadlessRenderer.                                      *)

\* A step that draws nothing and leaves currentTargetSize alone is no step of
\* the contract.
LEMMA NoRenderStep ==
    ASSUME job.pc # "draw", job'.pc # "draw", UNCHANGED targetSize
    PROVE  UNCHANGED Contract!vars
<1>1. Drawing = [d \in Docs |-> 0] /\ Drawing' = [d \in Docs |-> 0]
  BY DEF Drawing
<1>2. /\ Available = [d \in Docs |-> targetSize[d]] /\ Available' = [d \in Docs |-> targetSize'[d]]
      /\ Reusing = [d \in Docs |-> FALSE] /\ Reusing' = [d \in Docs |-> FALSE]
  BY <1>1 DEF Available, Reusing
<1> QED
  BY <1>1, <1>2 DEF Contract!vars

\* Every render of a scene is a call of render() that finds its objects or
\* has them created, and ends in an image or in a failure.
LEMMA RenderStep ==
    ASSUME TypeOK, [Next]_vars
    PROVE  [Contract!Next]_(Contract!vars)
<1>z. 0 \notin Sizes
  BY SceneAssumption
<1>1. CASE \E d \in Docs : \/ Reload(d)
                           \/ \E k \in Slots : \/ Zoom(d, k) \/ CycleMode(d, k)
                                               \/ \E s \in Sizes : EnterRender(d, k, s)
  <2>1. job = NoJob /\ job'.pc # "draw" /\ UNCHANGED targetSize
    BY <1>1 DEF Reload, Zoom, CycleMode, EnterRender, rendererVars, NoJob
  <2> QED BY <2>1, NoRenderStep DEF NoJob
<1>2. CASE QueueMesh
  <2>1. /\ job \in [pc: {"queue"}, doc: Docs, slot: Slots, size: Sizes]
        /\ targetSize' = targetSize
    BY <1>2, QueueMeshEffect
  <2>2. CASE job' = NoJob
    BY <2>1, <2>2, NoRenderStep DEF NoJob
  <2>3. CASE job' # NoJob
    <3>1. job'.pc = "draw" /\ job'.doc = job.doc /\ job'.size = job.size
      BY <1>2, <2>3, QueueMeshEffect
    <3>2. Drawing = [d \in Docs |-> 0] /\ Drawing' = [Drawing EXCEPT ![job.doc] = job.size]
      BY <2>1, <3>1 DEF Drawing
    <3>3. PICK d \in Docs, s \in Sizes : d = job.doc /\ s = job.size
      BY <2>1
    <3>4. /\ Reusing' = [Reusing EXCEPT ![d] = (targetSize[d] = s)]
          /\ Available' = [Available EXCEPT ![d] = IF targetSize[d] = s THEN @ ELSE 0]
          /\ Available[d] = targetSize[d]
          /\ Reusing = [e \in Docs |-> FALSE]
      BY <1>z, <2>1, <3>2, <3>3 DEF Available, Reusing
    <3>5. CASE targetSize[d] = s
      <4>1. Available' = Available
        BY <3>4, <3>5 DEF Available
      <4>2. Contract!Begin(d, s)
        BY <3>2, <3>3, <3>4, <3>5, <4>1 DEF Contract!Begin
      <4> QED BY <4>2 DEF Contract!Next
    <3>6. CASE targetSize[d] # s
      <4>1. Reusing' = Reusing
        BY <3>4, <3>6
      <4>2. Contract!Recreate(d, s)
        BY <3>2, <3>3, <3>4, <3>6, <4>1 DEF Contract!Recreate
      <4> QED BY <4>2 DEF Contract!Next
    <3> QED BY <3>5, <3>6
  <2> QED BY <2>2, <2>3
<1>3. CASE Draw \/ DrawFails
  <2>1. job.pc = "draw" /\ job.doc \in Docs /\ job.size \in Sizes /\ job' = NoJob
    BY <1>3, JobTypes DEF Draw, DrawFails
  <2>r. PICK r \in Docs : r = job.doc
    BY <2>1
  <2>2. /\ Drawing[job.doc] = job.size
        /\ Drawing' = [Drawing EXCEPT ![job.doc] = 0]
        /\ Drawing' = [d \in Docs |-> 0]
    BY <2>1 DEF Drawing, NoJob
  <2>3. Reusing' = [Reusing EXCEPT ![job.doc] = FALSE]
    BY <2>1, <2>2 DEF Reusing, Drawing
  <2>4. /\ targetSize \in [Docs -> Sizes \cup {0}] /\ targetSize' \in [Docs -> Sizes \cup {0}]
        /\ Available' = targetSize'
        /\ \A d \in Docs \ {job.doc} : Available[d] = targetSize[d]
    <3>1. targetSize \in [Docs -> Sizes \cup {0}]
      BY DEF TypeOK
    <3>2. targetSize' \in [Docs -> Sizes \cup {0}]
      BY <3>1, <2>1, <1>3 DEF Draw, DrawFails
    <3>3. Available' = targetSize'
      BY <2>2, <3>2 DEF Available
    <3>4. \A d \in Docs \ {job.doc} : Available[d] = targetSize[d]
      BY <2>1 DEF Available, Drawing
    <3> QED BY <3>1, <3>2, <3>3, <3>4
  <2>5. CASE Draw
    <3>1. Available' = [Available EXCEPT ![job.doc] = job.size]
      BY <2>1, <2>4, <2>5 DEF Draw, Available
    <3>2. Contract!Finish(r)
      BY <1>z, <2>r, <2>1, <2>2, <2>3, <3>1 DEF Contract!Finish
    <3> QED BY <3>2 DEF Contract!Next
  <2>6. CASE DrawFails
    <3>1. Available' = [Available EXCEPT ![job.doc] = 0]
      BY <2>1, <2>4, <2>6 DEF DrawFails, Available
    <3>2. Contract!Fail(r)
      BY <1>z, <2>r, <2>1, <2>2, <2>3, <3>1 DEF Contract!Fail
    <3> QED BY <3>2 DEF Contract!Next
  <2> QED BY <1>3, <2>5, <2>6
<1>4. CASE UNCHANGED vars
  BY <1>4 DEF vars, rendererVars, Contract!vars, Drawing, Reusing, Available
<1> QED
  BY <1>1, <1>2, <1>3, <1>4 DEF Next

\* For any number of documents and sizes, the renders of scenes, successful
\* or not, use their renderers only as RenderTarget allows.
THEOREM TargetIsAssumed == Spec => AssumesTarget
<1>1. Init => Contract!Init
  <2> SUFFICES ASSUME Init PROVE Contract!Init
    OBVIOUS
  <2>1. Drawing = [d \in Docs |-> 0]
    BY DEF Init, Drawing, NoJob
  <2>2. Available = [d \in Docs |-> 0]
    BY <2>1 DEF Init, Available
  <2>3. Reusing = [d \in Docs |-> FALSE]
    BY <2>1 DEF Reusing
  <2> QED BY <2>1, <2>2, <2>3 DEF Contract!Init
<1>2. TypeOK /\ [Next]_vars => [Contract!Next]_(Contract!vars)
  BY RenderStep
<1> QED BY <1>1, <1>2, SceneTypes, PTL DEF Spec, AssumesTarget, Contract!Spec
=============================================================================
