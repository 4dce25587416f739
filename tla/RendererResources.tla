-------------------------- MODULE RendererResources --------------------------
(***************************************************************************)
(* The life of the Vulkan objects of one HeadlessRenderer: what render()   *)
(* creates and destroys when the target size or the draw mode changes, how *)
(* the transparency buffers grow, and the ways a frame can fail: GPU       *)
(* memory running out in createAttachments(), createTransparencyBuffers()  *)
(* or readFeedback(), a V3dVulkanError thrown while resources are created, *)
(* grown or copied from, and an allocation whose failure createBuffer()    *)
(* returns to a caller that does not look at it.                           *)
(*                                                                         *)
(* Objects are grouped by how the code treats their handles.  A handle is  *)
(* "null", "live", or "dangling": not null, but naming no object, because  *)
(* the object was destroyed or the member never initialized.               *)
(* The per-frame sync objects, which cleanup() replaces in place, and the  *)
(* persistent vertex and staging buffers are not modelled.  leaked and     *)
(* invalid are kept for the properties.                                    *)
(***************************************************************************)
EXTENDS Naturals, Sequences

CONSTANTS
    Sizes,      \* target sizes, as a number of pixels
    Layers,     \* most transparent fragments a scene puts on one pixel
    Memory,     \* device memory, in units of four bytes
    Faults      \* Vulkan calls that may fail: see FaultKinds

\* "alloc": vkAllocateMemory() in a createBuffer() whose result is ignored.
FaultKinds == {"create", "alloc", "shader", "host", "frame"}

ASSUME ResourceAssumption ==
    /\ Sizes \subseteq Nat \ {0}
    /\ Layers \in Nat
    /\ Memory \in Nat
    /\ Faults \subseteq FaultKinds

VARIABLES
    pc,           \* where render() is: "idle", "create", "pipelines", "frame", "copy"
    step,         \* index in CreateOrder of the next group to create
    target,       \* targetSize of the current call
    handle,       \* state of each group of handles
    initialized,  \* HeadlessRenderer::initialized
    initFailed,   \* HeadlessRenderer::initFailed
    size,         \* currentTargetSize (0 when reset)
    shaders,      \* shaderModules: none compiled, some created, or all of them
    maxFragments, \* capacity of the fragment buffers
    hostSize,     \* hostReadableDestinationImageSize
    hostInit,     \* hostReadableDestinationImageInitalized
    leaked,       \* groups whose live objects the last create or close forgot
    invalid       \* groups whose dangling handles the last destroy calls were given

vars == <<pc, step, target, handle, initialized, initFailed, size, shaders,
          maxFragments, hostSize, hostInit, leaked, invalid>>

-----------------------------------------------------------------------------
(* The groups of handles.                                                  *)

\* The order in which a full recreation creates them.
CreateOrder ==
    <<"attachments", "setLayout", "ibl", "passes", "opaquePass", "pipelines",
      "pointPipeline", "uniform", "material", "light", "descriptorPool",
      "counts", "fragments", "depthFrags", "compute", "transparentPipelines">>

CreatedGroups == {CreateOrder[i] : i \in 1 .. Len(CreateOrder)}

\* The image the pixels are read from, and its memory.
HostGroups == {"hostImage", "hostMemory"}
Groups     == CreatedGroups \cup HostGroups

\* Buffers created without a look at what createBuffer() returns: the
\* uniforms, and the single entry that stands for no materials or no lights.
Unchecked == {"uniform", "material", "light"}

\* Destroyed by render() itself and by the destructor, not by cleanup().
OwnGroups == {"setLayout", "uniform", "material", "light", "descriptorPool"}

Pipelines == {"pipelines", "pointPipeline", "transparentPipelines"}

CleanupGroups == CreatedGroups \ OwnGroups

\* cleanup() destroys these and leaves their handles as they are.
KeptByCleanup == {"attachments", "opaquePass", "pointPipeline"}

TransparencyGroups == {"counts", "fragments", "depthFrags"}

\* Device memory in units of four bytes: three attachments; count, offset,
\* colour and depth buffers per pixel; two buffers of a vec4 per fragment.
AttachmentCost(s) == 3 * s
PixelCost(s)      == 10 * s
FragmentCost(n)   == 4 * n

\* h after destroying the groups gs, of which those in kept are not nulled.
Destroyed(h, gs, kept) ==
    [g \in Groups |-> IF g \notin gs \/ h[g] = "null" THEN h[g]
                      ELSE IF g \in kept THEN "dangling" ELSE "null"]

Dangling(h, gs) == {g \in gs : h[g] = "dangling"}

-----------------------------------------------------------------------------
\* The members of a new renderer: FrameBufferAttachment has no initializer.
\* Its constructor may fail to get an instance or a device; render() then
\* returns nullptr at once.  (A failing shader compiler makes it return before
\* there is a device, with initFailed still false; that renderer is left out.)
FreshHandles ==
    {[g \in Groups |-> IF g = "attachments" THEN a ELSE "null"] : a \in {"null", "dangling"}}

Init ==
    /\ pc = "idle" /\ step = 1 /\ target = 0
    /\ handle \in FreshHandles
    /\ initialized = FALSE /\ initFailed \in BOOLEAN
    /\ size = 0 /\ shaders = "none" /\ maxFragments = 0
    /\ hostSize = 0 /\ hostInit = FALSE
    /\ leaked = {} /\ invalid = {}

\* The vulkan objects of a failed frame: cleanup(), from handles h.
cleanup(h) ==
    /\ handle' = Destroyed(h, CleanupGroups, KeptByCleanup)
    /\ invalid' = Dangling(h, CleanupGroups)

\* return nullptr with the renderer reset to its un-initialized state.
ReturnNull ==
    /\ pc' = "idle" /\ step' = 1 /\ target' = 0
    /\ initialized' = FALSE /\ size' = 0

\* The catch block of render().
CatchVulkanError_KeepState(h) ==
    /\ cleanup(h)
    /\ pc' = "idle" /\ step' = 1 /\ target' = 0
    /\ UNCHANGED <<initialized, size>>

CatchVulkanError(h) == cleanup(h) /\ ReturnNull

-----------------------------------------------------------------------------
(* The start of render(): what must be recreated.                          *)

\* Only the draw mode changed: all pipelines are destroyed, to be rebuilt.
StartPipelines(s) ==
    /\ pc = "idle" /\ ~initFailed
    /\ size = s
    /\ handle' = Destroyed(handle, Pipelines, Pipelines)
    /\ invalid' = Dangling(handle, Pipelines)
    /\ pc' = "pipelines" /\ target' = s
    /\ UNCHANGED <<step, initialized, initFailed, size, shaders, maxFragments,
                   hostSize, hostInit, leaked>>

\* The size changed or there is nothing yet: everything is recreated.
StartRecreate(s) ==
    /\ pc = "idle" /\ ~initFailed
    /\ size # s \/ ~initialized
    /\ IF initialized
       THEN /\ handle' = Destroyed(handle, CleanupGroups \cup OwnGroups,
                                   KeptByCleanup \cup OwnGroups)
            /\ invalid' = Dangling(handle, CleanupGroups \cup OwnGroups)
       ELSE UNCHANGED <<handle, invalid>>
    /\ initialized' = FALSE
    /\ pc' = "create" /\ step' = 1 /\ target' = s
    /\ UNCHANGED <<initFailed, size, shaders, maxFragments, hostSize, hostInit, leaked>>

\* Same size and draw mode as the last frame.
StartFrame(s) ==
    /\ pc = "idle" /\ ~initFailed
    /\ size = s /\ initialized
    /\ pc' = "frame" /\ target' = s
    /\ UNCHANGED <<step, handle, initialized, initFailed, size, shaders,
                   maxFragments, hostSize, hostInit, leaked, invalid>>

-----------------------------------------------------------------------------
(* Full recreation, group by group.                                        *)

Group == CreateOrder[step]

\* maxFragments as createTransparencyBuffers() sets it before it allocates.
FragmentCapacity == IF maxFragments > 0 THEN maxFragments ELSE target

\* Device memory in use once the next group is created.
MemoryNeeded ==
    CASE Group = "attachments" -> AttachmentCost(target)
      [] Group = "counts"      -> AttachmentCost(target) + PixelCost(target)
      [] Group = "fragments"   -> AttachmentCost(target) + PixelCost(target)
                                  + FragmentCost(FragmentCapacity)
      [] Group = "depthFrags"  -> AttachmentCost(target) + PixelCost(target)
                                  + 2 * FragmentCost(FragmentCapacity)
      [] OTHER                 -> 0

Created(g) ==
    /\ handle' = [handle EXCEPT ![g] = "live"]
    /\ leaked' = {x \in {g} : handle[x] = "live"}

\* One create*() call succeeds; the last one completes the recreation.
CreateGroup_NoReset ==
    /\ pc = "create"
    /\ MemoryNeeded <= Memory
    /\ Created(Group)
    /\ step' = step + 1
    /\ pc' = IF step < Len(CreateOrder) THEN "create" ELSE "frame"
    /\ UNCHANGED <<target, initialized, size, maxFragments, initFailed, shaders,
                   hostSize, hostInit, invalid>>

CreateGroup ==
    /\ pc = "create"
    /\ MemoryNeeded <= Memory
    /\ Group = "pipelines" => shaders # "none"
    /\ Created(Group)
    /\ maxFragments' = IF Group = "fragments" THEN FragmentCapacity ELSE maxFragments
    /\ IF step < Len(CreateOrder)
       THEN step' = step + 1 /\ UNCHANGED <<pc, initialized, size>>
       ELSE step' = 1 /\ pc' = "frame" /\ initialized' = TRUE /\ size' = target
    /\ UNCHANGED <<target, initFailed, shaders, hostSize, hostInit, invalid>>

\* createShaderModules() does nothing once the vector of modules is not
\* empty.  Its calls can fail in the compiler, which disables rendering, or
\* in vkCreateShaderModule(), which only throws.
CreateShaders ==
    /\ pc = "create" /\ Group = "pipelines" /\ shaders = "none"
    /\ \/ /\ shaders' = "complete"
          /\ UNCHANGED <<pc, step, target, handle, initialized, initFailed, size, invalid>>
       \/ /\ "shader" \in Faults
          /\ shaders' = "partial"
          /\ initFailed' \in BOOLEAN
          /\ CatchVulkanError(handle)
    /\ UNCHANGED <<maxFragments, hostSize, hostInit, leaked>>

\* createAttachments() runs out of memory: cleanupOnFail() destroys every
\* attachment whose handle is not null.
AttachmentsOOM ==
    /\ pc = "create" /\ Group = "attachments"
    /\ MemoryNeeded > Memory
    /\ handle' = Destroyed(handle, {"attachments"}, {})
    /\ invalid' = Dangling(handle, {"attachments"})
    /\ ReturnNull
    /\ UNCHANGED <<initFailed, shaders, maxFragments, hostSize, hostInit, leaked>>

\* createTransparencyBuffers() runs out of memory: its own cleanupOnFail(),
\* then cleanup().  maxFragments keeps the capacity that did not fit.
TransparencyOOM_NotNulled ==
    /\ pc = "create" /\ Group \in TransparencyGroups
    /\ MemoryNeeded > Memory
    /\ maxFragments' = IF Group = "counts" THEN maxFragments ELSE FragmentCapacity
    /\ cleanup(Destroyed(handle, TransparencyGroups, TransparencyGroups))
    /\ ReturnNull
    /\ UNCHANGED <<initFailed, shaders, hostSize, hostInit, leaked>>

TransparencyOOM_NoCleanup ==
    /\ pc = "create" /\ Group \in TransparencyGroups
    /\ MemoryNeeded > Memory
    /\ maxFragments' = IF Group = "counts" THEN maxFragments ELSE FragmentCapacity
    /\ handle' = Destroyed(handle, TransparencyGroups, {})
    /\ ReturnNull
    /\ UNCHANGED <<initFailed, shaders, hostSize, hostInit, leaked, invalid>>

TransparencyOOM ==
    /\ pc = "create" /\ Group \in TransparencyGroups
    /\ MemoryNeeded > Memory
    /\ maxFragments' = IF Group = "counts" THEN maxFragments ELSE FragmentCapacity
    /\ cleanup(Destroyed(handle, TransparencyGroups, {}))
    /\ ReturnNull
    /\ UNCHANGED <<initFailed, shaders, hostSize, hostInit, leaked>>

\* createBuffer() gets no memory for a buffer nobody checks: it has nulled the
\* handle, and the recreation goes on.
CreateIgnored_Stale ==
    /\ pc = "create" /\ Group \in Unchecked
    /\ "alloc" \in Faults
    /\ step' = step + 1
    /\ UNCHANGED <<pc, target, handle, initialized, initFailed, size, shaders,
                   maxFragments, hostSize, hostInit, leaked, invalid>>

CreateIgnored ==
    /\ pc = "create" /\ Group \in Unchecked
    /\ "alloc" \in Faults
    /\ handle' = [handle EXCEPT ![Group] = "null"]
    /\ leaked' = {x \in {Group} : handle[x] = "live"}
    /\ step' = step + 1
    /\ UNCHANGED <<pc, target, initialized, initFailed, size, shaders,
                   maxFragments, hostSize, hostInit, invalid>>

\* A Vulkan call of the recreation that is checked fails and throws.
CreateError ==
    /\ pc = "create" /\ "create" \in Faults
    /\ CatchVulkanError(handle)
    /\ maxFragments' \in {maxFragments} \cup
                          {c \in {FragmentCapacity} : Group = "fragments"}
    /\ UNCHANGED <<initFailed, shaders, hostSize, hostInit, leaked>>

\* recreateGraphicsPipelines() rebuilds what StartPipelines destroyed.
RecreatePipelines ==
    /\ pc = "pipelines"
    /\ handle' = [g \in Groups |-> IF g \in Pipelines THEN "live" ELSE handle[g]]
    /\ pc' = "frame"
    /\ UNCHANGED <<step, target, initialized, initFailed, size, shaders,
                   maxFragments, hostSize, hostInit, leaked, invalid>>

PipelineError ==
    /\ pc = "pipelines" /\ "create" \in Faults
    /\ CatchVulkanError(handle)
    /\ UNCHANGED <<initFailed, shaders, maxFragments, hostSize, hostInit, leaked>>

-----------------------------------------------------------------------------
(* Recording a frame.                                                      *)

\* An opaque scene, or a transparent one whose fragments fit the buffers.
CountFragments ==
    /\ pc = "frame"
    /\ pc' = "copy"
    /\ UNCHANGED <<step, target, handle, initialized, initFailed, size, shaders,
                   maxFragments, hostSize, hostInit, leaked, invalid>>

\* readFeedback(): more fragments than capacity.  Both fragment buffers are
\* destroyed, the capacity is raised by a tenth and the buffers allocated
\* again; either allocation can run out of memory.
GrowFragments ==
    /\ pc = "frame"
    /\ \E n \in maxFragments + 1 .. Layers * target :
         LET capacity == (n * 11) \div 10
             base     == AttachmentCost(target) + PixelCost(target)
         IN
         /\ maxFragments' = capacity
         /\ \/ /\ base + 2 * FragmentCost(capacity) <= Memory
               /\ pc' = "copy"
               /\ UNCHANGED <<step, target, handle, initialized, size, invalid>>
            \/ /\ base + FragmentCost(capacity) > Memory
               /\ cleanup([handle EXCEPT !["fragments"] = "null", !["depthFrags"] = "dangling"])
               /\ ReturnNull
            \/ /\ base + FragmentCost(capacity) <= Memory
               /\ base + 2 * FragmentCost(capacity) > Memory
               /\ cleanup([handle EXCEPT !["depthFrags"] = "null"])
               /\ ReturnNull
    /\ UNCHANGED <<initFailed, shaders, hostSize, hostInit, leaked>>

\* A call inside createBuffer() throws while they are replaced: neither handle
\* was nulled, and none, the first or both of them name a new buffer.
GrowError ==
    /\ pc = "frame" /\ "frame" \in Faults
    /\ \E n \in maxFragments + 1 .. Layers * target, made \in 0 .. 2 :
         LET capacity == (n * 11) \div 10
             base     == AttachmentCost(target) + PixelCost(target)
         IN
         /\ base + made * FragmentCost(capacity) <= Memory
         /\ maxFragments' = capacity
         /\ CatchVulkanError([handle EXCEPT
                !["fragments"]  = IF made > 0 THEN "live" ELSE "dangling",
                !["depthFrags"] = IF made > 1 THEN "live" ELSE "dangling"])
    /\ UNCHANGED <<initFailed, shaders, hostSize, hostInit, leaked>>

\* A Vulkan call of the frame fails: command buffers, fences, submission, or
\* updateIBL() after it destroyed the old environment images (which leaves
\* what cleanup() leaves).
FrameError ==
    /\ pc \in {"frame", "copy"} /\ "frame" \in Faults
    /\ CatchVulkanError(handle)
    /\ UNCHANGED <<initFailed, shaders, maxFragments, hostSize, hostInit, leaked>>

\* The host handles once the old image is destroyed and the groups made are
\* created: destroyHostReadableDestinationImage() nulls nothing, and is
\* only called when hostInit says that there is an image.
HostReplaced(made) ==
    LET h == IF hostInit THEN Destroyed(handle, HostGroups, HostGroups) ELSE handle
    IN  [g \in Groups |-> IF g \in made THEN "live" ELSE h[g]]

HostForgotten(made) == {g \in made : ~hostInit /\ handle[g] = "live"}
HostInvalid         == {g \in Dangling(handle, HostGroups) : hostInit}

\* recordCopyToHost() replaces the host image when the size changed.
ReplaceHostImage ==
    /\ pc = "copy" /\ hostSize # target
    /\ handle' = HostReplaced(HostGroups)
    /\ leaked' = HostForgotten(HostGroups)
    /\ invalid' = HostInvalid
    /\ hostSize' = target /\ hostInit' = TRUE
    /\ UNCHANGED <<pc, step, target, initialized, initFailed, size, shaders, maxFragments>>

\* Creating the image, allocating its memory or binding the two fails, after
\* the old image was destroyed and the new size recorded.
HostImageError ==
    /\ pc = "copy" /\ "host" \in Faults
    /\ hostSize # target
    /\ \E made \in {{}, {"hostImage"}, HostGroups} :
         /\ handle' = Destroyed(HostReplaced(made), CleanupGroups, KeptByCleanup)
         /\ leaked' = HostForgotten(made)
    /\ invalid' = Dangling(handle, CleanupGroups) \cup HostInvalid
    /\ ReturnNull
    /\ hostSize' = target
    /\ UNCHANGED <<initFailed, shaders, maxFragments, hostInit>>

\* The frame is submitted, awaited and its pixels copied.
CopyToHost ==
    /\ pc = "copy" /\ hostSize = target
    /\ pc' = "idle" /\ target' = 0
    /\ UNCHANGED <<step, handle, initialized, initFailed, size, shaders, maxFragments,
                   hostSize, hostInit, leaked, invalid>>

\* The destructor, when the document is closed; the next document gets a
\* renderer of its own.
Close ==
    /\ pc = "idle"
    /\ LET gs == {g \in HostGroups : hostInit} \cup {"ibl"}
                 \cup (IF initialized THEN CleanupGroups \cup OwnGroups ELSE {})
       IN  /\ invalid' = Dangling(handle, gs)
           /\ leaked' = {g \in Groups \ gs : handle[g] = "live"}
    /\ step' = 1 /\ target' = 0
    /\ handle' \in FreshHandles
    /\ initialized' = FALSE /\ initFailed' \in BOOLEAN
    /\ size' = 0 /\ shaders' = "none" /\ maxFragments' = 0
    /\ hostSize' = 0 /\ hostInit' = FALSE
    /\ UNCHANGED pc

-----------------------------------------------------------------------------
Next ==
    \/ \E s \in Sizes : StartPipelines(s) \/ StartRecreate(s) \/ StartFrame(s)
    \/ CreateGroup \/ CreateShaders \/ AttachmentsOOM \/ TransparencyOOM
    \/ CreateIgnored \/ CreateError
    \/ RecreatePipelines \/ PipelineError
    \/ CountFragments \/ GrowFragments \/ GrowError \/ FrameError
    \/ ReplaceHostImage \/ HostImageError \/ CopyToHost
    \/ Close

Spec == Init /\ [][Next]_vars

-----------------------------------------------------------------------------
(* Properties.                                                             *)

TypeOK ==
    /\ pc \in {"idle", "create", "pipelines", "frame", "copy"}
    /\ step \in 1 .. Len(CreateOrder)
    /\ target \in Sizes \cup {0}
    /\ handle \in [Groups -> {"null", "live", "dangling"}]
    /\ initialized \in BOOLEAN /\ initFailed \in BOOLEAN
    /\ size \in Sizes \cup {0}
    /\ shaders \in {"none", "partial", "complete"}
    /\ maxFragments \in Nat
    /\ hostSize \in Sizes \cup {0} /\ hostInit \in BOOLEAN
    /\ leaked \subseteq Groups /\ invalid \subseteq Groups

\* A group is in place when its objects exist or, for the buffers whose
\* creation nobody checks, when its handle says that they do not.
InPlace(g) == handle[g] = "live" \/ (g \in Unchecked /\ handle[g] = "null")

\* A frame is recorded with nothing left over from a frame before: whatever
\* failed, at whichever call, every attachment, pass, pipeline and buffer the
\* draw commands use was created again before recording starts.  The three
\* unchecked buffers may be null, never the handle of a destroyed object.
FrameObjectsInPlace ==
    pc \in {"frame", "copy"} => \A g \in CreatedGroups : InPlace(g)

\* "A failed Vulkan call must never be silently ignored and continued on with
\* invalid handles": a frame is recorded only with objects that exist.  Not so
\* when an allocation fails that nobody checks.
FrameObjectsLive ==
    pc \in {"frame", "copy"} => \A g \in CreatedGroups : handle[g] = "live"

\* Pipelines are only drawn with when all their shader modules were created.
ShadersComplete == pc \in {"frame", "copy"} => shaders = "complete"

\* The image the pixels are copied to and read from exists, unless it is
\* about to be created for a new size.
HostImageLive ==
    pc = "copy" /\ hostSize = target => \A g \in HostGroups : handle[g] = "live"

\* No destroy call is given a handle that names no object.  The frames that
\* fail do not have this property for every group; BuffersFreedOnce says for
\* which they have it.
DestroysLiveOnly == invalid = {}

\* Whatever fails, and wherever: the environment images, render passes,
\* compute pipelines, the buffers of uniforms, materials, lights and counts
\* and the descriptor pool are destroyed at most once.
BuffersFreedOnce ==
    invalid \cap (OwnGroups \cup {"ibl", "passes", "compute", "counts"}) = {}

\* No Vulkan object is forgotten.  A frame that fails after it created the
\* groups cleanup() does not destroy, or part of the host image, breaks this.
NothingLeaked == leaked = {}

\* Whatever fails, a recreation or the destructor forgets no object that
\* cleanup() is responsible for: every error path runs cleanup() before the
\* handles are overwritten, and no path leaves a live object behind it.
CleanupForgetsNothing == leaked \cap CleanupGroups = {}

\* After a frame that ran out of memory there is a smaller size at which
\* the renderer can build its buffers.
ZoomOutRecovers ==
    pc = "idle" =>
        \E s \in Sizes :
            AttachmentCost(s) + PixelCost(s)
            + 2 * FragmentCost(IF maxFragments > 0 THEN maxFragments ELSE s) <= Memory

\* The size for which every object of a frame is in place.
Usable == IF \A g \in CreatedGroups : InPlace(g) THEN size ELSE 0

Contract == INSTANCE RenderTarget WITH
    Renderers <- {"renderer"},
    busy <- [r \in {"renderer"} |-> target],
    recording <- [r \in {"renderer"} |-> pc \in {"frame", "copy"}],
    ready <- [r \in {"renderer"} |-> Usable]

\* Every call of render() keeps the promise of RenderTarget: it records a
\* frame only when all objects are in place for the size it was asked for,
\* which currentTargetSize then names; when it fails, at whichever Vulkan call
\* that is checked, the next one finds nothing to reuse.
KeepsTarget == Contract!Spec
=============================================================================
