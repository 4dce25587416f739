---------------------------- MODULE SceneRenderer ----------------------------
(***************************************************************************)
(* What a rendered frame shows: the part of RenderModel() that runs under  *)
(* v3dRenderGlobalsMutex, and HeadlessRenderer::render().                  *)
(*                                                                         *)
(* State at three levels decides whether stale data is drawn.  Shared by   *)
(* the process: the slot (page, index) of the last model rendered, and the *)
(* renderCount of the scene buffers.  Per model: the remesh flag, the draw *)
(* mode, the tessellation its objects keep while they are on screen, and   *)
(* the size of its cached image.  Per renderer, that is per document: the  *)
(* geometry in its GPU buffers, the draw mode its pipelines were built     *)
(* for, the target size and the capacity of the material buffer.           *)
(*                                                                         *)
(* ModelManager shows that renders exclude each other, so one render is in *)
(* progress at a time; it also covers input during a render.  Here input   *)
(* arrives between renders.  A tessellation is known by the size it was    *)
(* made for, and the vertex buffers of the five primitive types are one.   *)
(***************************************************************************)
EXTENDS Naturals

CONSTANTS
    Docs,              \* open documents, one HeadlessRenderer each
    Slots,             \* positions (page, index) of models in a document
    FirstSlot,         \* the slot (0, 0)
    Objects,           \* objects of a model
    Sizes,             \* sizes a model is rendered at
    MaterialCounts,    \* how many materials a model can have
    MaxFramesInFlight, \* maxFramesInFlight
    RenderFails        \* TRUE when render() may return nullptr

ASSUME SceneAssumption ==
    /\ FirstSlot \in Slots
    /\ Sizes \subseteq Nat \ {0}
    /\ MaterialCounts \subseteq Nat
    /\ MaxFramesInFlight \in Nat \ {0}
    /\ RenderFails \in BOOLEAN

\* DrawMode
Normal    == 0
Outline   == 1
Wireframe == 2
Modes     == {Normal, Outline, Wireframe}
NumModes  == 3

\* createMaterialPipeline() and its siblings: lines or filled polygons.
PolygonMode(m) == IF m \in {Outline, Wireframe} THEN "line" ELSE "fill"

\* The tessellation of every object of a scene; 0 for one that has none.
Meshes  == [Objects -> Sizes \cup {0}]
NoMesh  == [o \in Objects |-> 0]

\* The content of a renderer's vertex buffers: whose objects, and which
\* tessellation of them.
Geometry   == [slot: Slots, mesh: Meshes]
NoGeometry == [slot |-> FirstSlot, mesh |-> NoMesh]   \* null buffers

VARIABLES
    last,        \* the static lastPage, lastModel
    renderCount, \* VertexBuffer::renderCount, up to MaxFramesInFlight
    remesh,      \* V3dModel::remesh
    mode,        \* V3dModel::drawMode
    tess,        \* what each object keeps for the fast path while on screen
    materials,   \* number of materials of each model
    imageSize,   \* size of the cached image in m_ModelImages, 0 if null
    gpu,         \* content of each renderer's vertex buffers
    currentMode, \* HeadlessRenderer::currentDrawMode
    builtMode,   \* the draw mode the pipelines were created for
    targetSize,  \* currentTargetSize, 0 when not initialized
    capacity,    \* materials the material buffer has room for
    job          \* the render in progress

modelVars    == <<remesh, mode, tess, materials, imageSize>>
rendererVars == <<gpu, currentMode, builtMode, targetSize, capacity>>
vars == <<last, renderCount, modelVars, rendererVars, job>>

NoJob == [pc |-> "idle"]

PerModel(x) == [d \in Docs |-> [k \in Slots |-> x]]

Init ==
    /\ last = FirstSlot /\ renderCount = 0
    /\ remesh = PerModel(TRUE) /\ mode = PerModel(Normal) /\ tess = PerModel(NoMesh)
    /\ materials \in [Docs -> [Slots -> MaterialCounts]]
    /\ imageSize = PerModel(0)
    /\ gpu = [d \in Docs |-> NoGeometry]
    /\ currentMode = [d \in Docs |-> Normal] /\ builtMode = [d \in Docs |-> Normal]
    /\ targetSize = [d \in Docs |-> 0] /\ capacity = [d \in Docs |-> 0]
    /\ job = NoJob

-----------------------------------------------------------------------------
(* Between renders.                                                        *)

\* SetDocument() and AddModel(): new models; the renderer stays.
Reload(d) ==
    /\ job = NoJob
    /\ remesh' = [remesh EXCEPT ![d] = [k \in Slots |-> TRUE]]
    /\ mode' = [mode EXCEPT ![d] = [k \in Slots |-> Normal]]
    /\ tess' = [tess EXCEPT ![d] = [k \in Slots |-> NoMesh]]
    /\ \E c \in [Slots -> MaterialCounts] : materials' = [materials EXCEPT ![d] = c]
    /\ imageSize' = [imageSize EXCEPT ![d] = [k \in Slots |-> 0]]
    /\ UNCHANGED <<last, renderCount, rendererVars, job>>

\* home() and dragModeZoom() set remesh; panning, rotating and the wheel only
\* move the camera, which shows here as the choice of visible objects in
\* QueueMesh.
Zoom(d, k) ==
    /\ job = NoJob
    /\ remesh' = [remesh EXCEPT ![d][k] = TRUE]
    /\ UNCHANGED <<last, renderCount, mode, tess, materials, imageSize, rendererVars, job>>

CycleMode(d, k) ==
    /\ job = NoJob
    /\ mode' = [mode EXCEPT ![d][k] = (@ + 1) % NumModes]
    /\ remesh' = [remesh EXCEPT ![d][k] = TRUE]
    /\ UNCHANGED <<last, renderCount, tess, materials, imageSize, rendererVars, job>>

-----------------------------------------------------------------------------
(* RenderModel() under the globals lock.                                   *)

\* A switch of model or of size forces a remesh; a switch also makes the
\* renderer's draw mode that of the entering model.
EnterRender_NoSwitch(d, k, s) ==
    /\ job = NoJob
    /\ remesh' = [remesh EXCEPT ![d][k] = @ \/ imageSize[d][k] # s]
    /\ last' = k
    /\ job' = [pc |-> "queue", doc |-> d, slot |-> k, size |-> s]
    /\ UNCHANGED <<renderCount, mode, tess, materials, imageSize, rendererVars>>

EnterRender_NoResize(d, k, s) ==
    /\ job = NoJob
    /\ remesh' = [remesh EXCEPT ![d][k] = @ \/ k # last]
    /\ currentMode' = [currentMode EXCEPT ![d] = IF k # last THEN mode[d][k] ELSE @]
    /\ last' = k
    /\ job' = [pc |-> "queue", doc |-> d, slot |-> k, size |-> s]
    /\ UNCHANGED <<renderCount, mode, tess, materials, imageSize,
                   gpu, builtMode, targetSize, capacity>>

EnterRender(d, k, s) ==
    /\ job = NoJob
    /\ remesh' = [remesh EXCEPT ![d][k] = @ \/ k # last \/ imageSize[d][k] # s]
    /\ currentMode' = [currentMode EXCEPT ![d] = IF k # last THEN mode[d][k] ELSE @]
    /\ last' = k
    /\ job' = [pc |-> "queue", doc |-> d, slot |-> k, size |-> s]
    /\ UNCHANGED <<renderCount, mode, tess, materials, imageSize,
                   gpu, builtMode, targetSize, capacity>>

\* An object that was fully on screen when it was last tessellated takes the
\* fast path, appending the tessellation it kept, unless the scene is remeshed.
FastPath(d, k, o) == ~remesh[d][k] /\ tess[d][k][o] # 0 /\ mode[d][k] # Outline

\* clearData() and QueueMesh() for the visible objects V, of which those in
\* Full are fully on screen.  Objects that are tessellated anew or are off
\* screen reset renderCount.  In OUTLINE mode the edges are queued and what
\* the objects keep is left alone.
QueueMesh ==
    /\ job.pc = "queue"
    /\ \E V \in SUBSET Objects : \E Full \in SUBSET V :
         LET d == job.doc
             k == job.slot
             outline == mode[d][k] = Outline
             queued == [o \in Objects |-> IF o \notin V THEN 0
                                          ELSE IF FastPath(d, k, o) THEN tess[d][k][o]
                                          ELSE job.size]
         IN
         /\ tess' = [tess EXCEPT ![d][k] =
              [o \in Objects |-> IF o \notin V THEN 0
                                 ELSE IF outline \/ FastPath(d, k, o) THEN tess[d][k][o]
                                 ELSE IF o \in Full THEN job.size ELSE 0]]
         /\ renderCount' = IF \A o \in Objects : o \in V /\ FastPath(d, k, o)
                           THEN renderCount ELSE 0
         /\ \/ /\ V = {}                    \* everything culled: the background
               /\ job' = NoJob
               /\ UNCHANGED remesh
            \/ /\ V # {}
               /\ remesh' = [remesh EXCEPT ![d][k] = @ /\ outline]
               /\ job' = [pc |-> "draw", doc |-> d, slot |-> k, size |-> job.size,
                          mesh |-> queued]
    /\ UNCHANGED <<last, mode, materials, imageSize, rendererVars>>

-----------------------------------------------------------------------------
(* HeadlessRenderer::render().                                             *)

\* needsFullRecreate: the vertex buffers are destroyed, the pipelines built
\* for the draw mode and the material buffer sized for the model.
FullRecreate == targetSize[job.doc] # job.size

\* Only the draw mode changed: the pipelines are rebuilt.
RebuildPipelines_Never == FALSE

RebuildPipelines ==
    mode[job.doc][job.slot] # currentMode[job.doc] /\ ~FullRecreate

\* The gate of uploadBuffer(), after the buffers a recreation destroyed.
Uploads_NoBadBuffer == remesh[job.doc][job.slot] \/ renderCount < MaxFramesInFlight

Uploads ==
    \/ remesh[job.doc][job.slot]
    \/ renderCount < MaxFramesInFlight
    \/ gpu[job.doc] = NoGeometry
    \/ FullRecreate

\* What the frame is drawn from: the geometry queued for it, the geometry in
\* the buffers, the mode its pipelines were built for, and the room for its
\* materials (a buffer for none has room for one).
Queued    == [slot |-> job.slot, mesh |-> job.mesh]
Drawn     == IF Uploads THEN Queued ELSE gpu[job.doc]
DrawnMode == IF FullRecreate \/ RebuildPipelines THEN mode[job.doc][job.slot]
             ELSE builtMode[job.doc]

Room ==
    IF ~FullRecreate THEN capacity[job.doc]
    ELSE IF materials[job.doc][job.slot] = 0 THEN 1
    ELSE materials[job.doc][job.slot]

\* Drawing a frame counts it for the buffers; more frames than are in flight
\* need no counting.
CountFrame == IF renderCount < MaxFramesInFlight THEN renderCount + 1 ELSE renderCount

\* render() and the caching of its image.
Draw ==
    /\ job.pc = "draw"
    /\ gpu' = [gpu EXCEPT ![job.doc] = Drawn]
    /\ builtMode' = [builtMode EXCEPT ![job.doc] = DrawnMode]
    /\ currentMode' = [currentMode EXCEPT ![job.doc] =
                         IF FullRecreate \/ RebuildPipelines
                         THEN mode[job.doc][job.slot] ELSE @]
    /\ targetSize' = [targetSize EXCEPT ![job.doc] = job.size]
    /\ capacity' = [capacity EXCEPT ![job.doc] = Room]
    /\ imageSize' = [imageSize EXCEPT ![job.doc][job.slot] = job.size]
    /\ renderCount' = CountFrame
    /\ job' = NoJob
    /\ UNCHANGED <<last, remesh, mode, tess, materials>>

DrawFails_KeepSize ==
    /\ job.pc = "draw" /\ RenderFails
    /\ gpu' = [gpu EXCEPT ![job.doc] = NoGeometry]
    /\ job' = NoJob
    /\ UNCHANGED <<last, renderCount, modelVars, currentMode, builtMode, targetSize, capacity>>

\* render() returns nullptr: GPU memory ran out or a Vulkan call failed, and
\* cleanup() destroyed the buffers.  The image in m_ModelImages stays.
DrawFails ==
    /\ job.pc = "draw" /\ RenderFails
    /\ gpu' = [gpu EXCEPT ![job.doc] = NoGeometry]
    /\ targetSize' = [targetSize EXCEPT ![job.doc] = 0]
    /\ \E m \in {currentMode[job.doc], mode[job.doc][job.slot]} :
          currentMode' = [currentMode EXCEPT ![job.doc] = m]
    /\ renderCount' \in {renderCount, CountFrame}
    /\ job' = NoJob
    /\ UNCHANGED <<last, modelVars, builtMode, capacity>>

-----------------------------------------------------------------------------
Next ==
    \/ \E d \in Docs :
        \/ Reload(d)
        \/ \E k \in Slots :
            \/ Zoom(d, k) \/ CycleMode(d, k)
            \/ \E s \in Sizes : EnterRender(d, k, s)
    \/ QueueMesh \/ Draw \/ DrawFails

Spec == Init /\ [][Next]_vars

-----------------------------------------------------------------------------
(* Properties.                                                             *)

TypeOK ==
    /\ last \in Slots
    /\ renderCount \in 0 .. MaxFramesInFlight
    /\ remesh \in [Docs -> [Slots -> BOOLEAN]]
    /\ mode \in [Docs -> [Slots -> Modes]]
    /\ tess \in [Docs -> [Slots -> Meshes]]
    /\ materials \in [Docs -> [Slots -> MaterialCounts]]
    /\ imageSize \in [Docs -> [Slots -> Sizes \cup {0}]]
    /\ gpu \in [Docs -> Geometry]
    /\ currentMode \in [Docs -> Modes] /\ builtMode \in [Docs -> Modes]
    /\ targetSize \in [Docs -> Sizes \cup {0}]
    /\ capacity \in [Docs -> Nat]
    /\ \/ job = NoJob
       \/ job \in [pc: {"queue"}, doc: Docs, slot: Slots, size: Sizes]
       \/ job \in [pc: {"draw"}, doc: Docs, slot: Slots, size: Sizes, mesh: Meshes]

\* The geometry a frame draws from the GPU is the geometry that QueueMesh()
\* queued for it: when uploadBuffer() skips the upload, the buffers of this
\* document's renderer already hold the same objects and tessellation,
\* although renderCount and the last model are shared by all documents.
GeometryFresh == job.pc = "draw" => Drawn = Queued

\* A frame draws with pipelines of its model's polygon mode: a change of the
\* draw mode always reaches the pipelines, whichever model was drawn between.
PipelinesMatchMode ==
    job.pc = "draw" => PolygonMode(DrawnMode) = PolygonMode(mode[job.doc][job.slot])

\* Every object of a frame is tessellated and culled for the frame's size,
\* although objects on screen keep their tessellation from frame to frame.
TessellationFresh ==
    job.pc = "draw" => \A o \in Objects : job.mesh[o] \in {0, job.size}

\* Not true when models differ in it: the materials copied into the mapped
\* material buffer fit into it.  The buffer is sized at the last full
\* recreation, for the model drawn then.
MaterialsFit == job.pc = "draw" => materials[job.doc][job.slot] <= Room

\* What is taken of HeadlessRenderer: the size a document's renderer is
\* drawing at, whether it reuses what it has for that, and the size its
\* objects exist for.
Drawing   == [d \in Docs |-> IF job.pc = "draw" /\ job.doc = d THEN job.size ELSE 0]
Reusing   == [d \in Docs |-> Drawing[d] # 0 /\ targetSize[d] = Drawing[d]]
Available == [d \in Docs |-> IF Drawing[d] = 0 \/ Reusing[d] THEN targetSize[d] ELSE 0]

Contract == INSTANCE RenderTarget WITH
    Renderers <- Docs, busy <- Drawing, recording <- Reusing, ready <- Available

\* The renders of this module, as they succeed or fail in any order and for
\* any document, ask of render() no more than RenderTarget promises and
\* RendererResources is shown to keep.
AssumesTarget == Contract!Spec
=============================================================================
