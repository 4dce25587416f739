----------------------- MODULE RendererResourcesProofs -----------------------
(***************************************************************************)
(* Proofs about RendererResources, for every set of target sizes, every    *)
(* amount of device memory, every scene depth and every set of faults.     *)
(*                                                                         *)
(* FrameObjectsInPlace is not inductive: that a frame may start without    *)
(* creating anything depends on what the renderer remembers between calls. *)
(* ResourceInv adds it: a remembered size means an initialized renderer,   *)
(* an initialized renderer at rest has all its objects in place, so has a  *)
(* recreation the groups before step, and while the pipelines are rebuilt  *)
(* everything else is there.  With it, FreedInv (handles that cleanup()    *)
(* clears never dangle) gives BuffersFreedOnce, and LeakInv (what is still *)
(* to be created is not live) gives CleanupForgetsNothing.                 *)
(***************************************************************************)
EXTENDS RendererResources, TLAPS

AllInPlace(gs) == \A g \in gs : InPlace(g)

\* currentTargetSize is only kept while the renderer is initialized: every
\* way out of render() with an error clears both.
SizeMeansInitialized == pc # "create" /\ size # 0 => initialized

\* What is in place at each point of render().
IdleInPlace     == pc = "idle" /\ initialized => AllInPlace(CreatedGroups)
CreateInPlace   == pc = "create" => \A i \in 1 .. step - 1 : InPlace(CreateOrder[i])
PipelineInPlace == pc = "pipelines" => AllInPlace(CreatedGroups \ Pipelines)

ResourceInv ==
    /\ TypeOK
    /\ SizeMeansInitialized
    /\ IdleInPlace
    /\ CreateInPlace
    /\ PipelineInPlace
    /\ FrameObjectsInPlace

-----------------------------------------------------------------------------
\* The recreation creates sixteen groups, each of them a group of handles.
LEMMA CreateOrderFacts ==
    /\ Len(CreateOrder) = 16
    /\ CreatedGroups \subseteq Groups
    /\ \A i \in 1 .. Len(CreateOrder) : CreateOrder[i] \in CreatedGroups
    /\ \A g \in CreatedGroups : \E i \in 1 .. Len(CreateOrder) : g = CreateOrder[i]
    /\ TransparencyGroups \subseteq Groups
    /\ Pipelines \subseteq Groups
    /\ OwnGroups \subseteq Groups
    /\ CleanupGroups \subseteq Groups
    /\ HostGroups \subseteq Groups
    /\ {"attachments", "ibl", "fragments", "depthFrags"} \subseteq Groups
<1>1. Len(CreateOrder) = 16
  BY DEF CreateOrder
<1>2. CreatedGroups \subseteq Groups /\ HostGroups \subseteq Groups
  BY DEF Groups
<1>3. \A i \in 1 .. Len(CreateOrder) : CreateOrder[i] \in CreatedGroups
  BY DEF CreatedGroups
<1>4. \A g \in CreatedGroups : \E i \in 1 .. Len(CreateOrder) : g = CreateOrder[i]
  BY DEF CreatedGroups
<1>5. /\ CreateOrder[1] = "attachments" /\ CreateOrder[2] = "setLayout"
      /\ CreateOrder[3] = "ibl" /\ CreateOrder[6] = "pipelines"
      /\ CreateOrder[7] = "pointPipeline" /\ CreateOrder[8] = "uniform"
      /\ CreateOrder[9] = "material" /\ CreateOrder[10] = "light"
      /\ CreateOrder[11] = "descriptorPool" /\ CreateOrder[12] = "counts"
      /\ CreateOrder[13] = "fragments" /\ CreateOrder[14] = "depthFrags"
      /\ CreateOrder[16] = "transparentPipelines"
  BY DEF CreateOrder
<1>6. {"attachments", "setLayout", "ibl", "pipelines", "pointPipeline", "uniform",
       "material", "light", "descriptorPool", "counts", "fragments", "depthFrags",
       "transparentPipelines"} \subseteq CreatedGroups
  BY <1>1, <1>3, <1>5
<1>7. /\ TransparencyGroups \subseteq CreatedGroups
      /\ Pipelines \subseteq CreatedGroups
      /\ OwnGroups \subseteq CreatedGroups
  BY <1>6 DEF TransparencyGroups, Pipelines, OwnGroups
<1> QED
  BY <1>1, <1>2, <1>3, <1>4, <1>6, <1>7 DEF CleanupGroups

\* No group is created twice by one recreation, and the host image
\* and its memory by none.
LEMMA CreateOrderDistinct ==
    /\ HostGroups \cap CreatedGroups = {}
    /\ \A i, j \in 1 .. Len(CreateOrder) : CreateOrder[i] = CreateOrder[j] => i = j
<1>1. Len(CreateOrder) = 16
  BY CreateOrderFacts
<1>2. /\ CreateOrder[1] = "attachments" /\ CreateOrder[2] = "setLayout"
      /\ CreateOrder[3] = "ibl" /\ CreateOrder[4] = "passes"
      /\ CreateOrder[5] = "opaquePass" /\ CreateOrder[6] = "pipelines"
      /\ CreateOrder[7] = "pointPipeline" /\ CreateOrder[8] = "uniform"
      /\ CreateOrder[9] = "material" /\ CreateOrder[10] = "light"
      /\ CreateOrder[11] = "descriptorPool" /\ CreateOrder[12] = "counts"
      /\ CreateOrder[13] = "fragments" /\ CreateOrder[14] = "depthFrags"
      /\ CreateOrder[15] = "compute" /\ CreateOrder[16] = "transparentPipelines"
  BY DEF CreateOrder
<1>3. \A i, j \in 1 .. 16 : CreateOrder[i] = CreateOrder[j] => i = j
  BY <1>2, SMTT(60)
<1>4. \A i \in 1 .. 16 : CreateOrder[i] \notin HostGroups
  BY <1>2 DEF HostGroups
<1> QED
  BY <1>1, <1>3, <1>4, CreateOrderFacts

\* cleanup() and the recreations destroy and create no part of the host image.
LEMMA HostApart ==
    /\ CreatedGroups \cap HostGroups = {}
    /\ CleanupGroups \subseteq CreatedGroups /\ OwnGroups \subseteq CreatedGroups
    /\ CleanupGroups \cup OwnGroups = CreatedGroups
    /\ Pipelines \subseteq CreatedGroups /\ TransparencyGroups \subseteq CreatedGroups
    /\ {"attachments", "ibl", "fragments", "depthFrags"} \subseteq CreatedGroups
<1>1. /\ OwnGroups \cap HostGroups = {} /\ Pipelines \cap HostGroups = {}
      /\ TransparencyGroups \cap HostGroups = {}
      /\ {"attachments", "ibl", "fragments", "depthFrags"} \cap HostGroups = {}
  BY DEF OwnGroups, Pipelines, TransparencyGroups, HostGroups
<1>2. /\ OwnGroups \subseteq CreatedGroups /\ Pipelines \subseteq CreatedGroups
      /\ TransparencyGroups \subseteq CreatedGroups
      /\ {"attachments", "ibl", "fragments", "depthFrags"} \subseteq CreatedGroups
  BY <1>1, CreateOrderFacts DEF Groups
<1> QED BY <1>2, CreateOrderDistinct DEF CleanupGroups

\* A recreation starts with a group.
LEMMA FirstStep == 1 \in 1 .. Len(CreateOrder)
BY CreateOrderFacts

Handles == [Groups -> {"null", "live", "dangling"}]

\* Destroying groups leaves each handle null, live or dangling.
LEMMA DestroyedType ==
    ASSUME NEW h \in Handles, NEW gs, NEW kept
    PROVE  Destroyed(h, gs, kept) \in Handles
BY DEF Destroyed, Handles

\* Only groups that are destroyed change.
LEMMA DestroyedKeeps ==
    ASSUME NEW h \in Handles, NEW gs, NEW kept, NEW g \in Groups \ gs
    PROVE  Destroyed(h, gs, kept)[g] = h[g]
BY DEF Destroyed, Handles

\* cleanup() keeps the types.
LEMMA CleanupType ==
    ASSUME NEW h \in Handles, invalid \subseteq Groups, cleanup(h)
    PROVE  handle' \in Handles /\ invalid' \subseteq Groups
BY DestroyedType, CreateOrderFacts DEF cleanup, Dangling

\* A frame that ends in an error leaves nothing to rely on: whatever cleanup()
\* was given, the renderer is at rest and not initialized.
LEMMA ReturnNullInv ==
    ASSUME ReturnNull, TypeOK'
    PROVE  ResourceInv'
BY DEF ReturnNull, ResourceInv, SizeMeansInitialized, IdleInPlace, CreateInPlace,
       PipelineInPlace, FrameObjectsInPlace

\* What ReturnNull assigns is well typed.
LEMMA ReturnNullType ==
    ASSUME ReturnNull
    PROVE  /\ pc' = "idle" /\ step' \in 1 .. Len(CreateOrder) /\ target' = 0
           /\ initialized' = FALSE /\ size' = 0
BY CreateOrderFacts DEF ReturnNull

-----------------------------------------------------------------------------
\* A new renderer has nothing and remembers nothing.
LEMMA InitInv == Init => ResourceInv
<1> SUFFICES ASSUME Init PROVE ResourceInv
  OBVIOUS
<1>1. handle \in Handles
  BY DEF Init, FreshHandles, Handles
<1>2. TypeOK
  BY <1>1, FirstStep DEF Init, TypeOK, Handles
<1> QED
  BY <1>2 DEF Init, ResourceInv, SizeMeansInitialized, IdleInPlace, CreateInPlace,
              PipelineInPlace, FrameObjectsInPlace

\* The fragment capacity of a recreation is a natural number.
LEMMA CapacityType ==
    ASSUME TypeOK
    PROVE  FragmentCapacity \in Nat
BY ResourceAssumption DEF TypeOK, FragmentCapacity

\* So is the capacity the fragment buffers grow to.
LEMMA GrownCapacity ==
    ASSUME TypeOK, NEW n \in maxFragments + 1 .. Layers * target
    PROVE  (n * 11) \div 10 \in Nat
<1>1. maxFragments \in Nat /\ target \in Nat /\ Layers \in Nat
  BY ResourceAssumption DEF TypeOK
<1>2. Layers * target \in Nat
  BY <1>1
<1>3. n \in Nat
  BY <1>1, <1>2
<1> QED BY <1>3

\* The handles when createBuffer() throws in readFeedback().
Regrown(made) ==
    [handle EXCEPT !["fragments"]  = IF made > 0 THEN "live" ELSE "dangling",
                   !["depthFrags"] = IF made > 1 THEN "live" ELSE "dangling"]

\* Only the two fragment buffers differ.
LEMMA RegrownFacts ==
    ASSUME handle \in Handles, NEW made \in 0 .. 2
    PROVE  /\ Regrown(made) \in Handles
           /\ \A g \in Groups \ {"fragments", "depthFrags"} : Regrown(made)[g] = handle[g]
BY DEF Regrown, Handles

\* Replacing the host image changes no other handle.
LEMMA HostReplacedFacts ==
    ASSUME handle \in Handles, NEW made \in SUBSET HostGroups
    PROVE  /\ HostReplaced(made) \in Handles
           /\ \A g \in Groups \ HostGroups : HostReplaced(made)[g] = handle[g]
           /\ \A g \in made : HostReplaced(made)[g] = "live"
BY DestroyedType, DestroyedKeeps, CreateOrderFacts DEF HostReplaced, Handles

\* Every step preserves the types.
LEMMA TypeStep == TypeOK /\ [Next]_vars => TypeOK'
<1> SUFFICES ASSUME TypeOK, [Next]_vars PROVE TypeOK'
  OBVIOUS
<1> USE DEF Handles
<1>a. handle \in Handles /\ invalid \subseteq Groups /\ leaked \subseteq Groups
  BY DEF TypeOK
<1>1. ASSUME NEW s \in Sizes, StartPipelines(s) PROVE TypeOK'
  <2>1. handle' \in Handles /\ invalid' \subseteq Groups
    BY <1>1, <1>a, DestroyedType, CreateOrderFacts DEF StartPipelines, Dangling
  <2> QED BY <2>1, <1>1 DEF TypeOK, StartPipelines
<1>2. ASSUME NEW s \in Sizes, StartRecreate(s) PROVE TypeOK'
  <2>1. handle' \in Handles /\ invalid' \subseteq Groups
    <3>1. CASE initialized
      BY <3>1, <1>2, <1>a, DestroyedType, CreateOrderFacts DEF StartRecreate, Dangling
    <3>2. CASE ~initialized
      BY <3>2, <1>2, <1>a DEF StartRecreate
    <3> QED BY <3>1, <3>2
  <2> QED BY <2>1, <1>2, FirstStep DEF TypeOK, StartRecreate
<1>3. ASSUME NEW s \in Sizes, StartFrame(s) PROVE TypeOK'
  BY <1>3 DEF TypeOK, StartFrame
<1>4. CASE CreateGroup
  <2>1. Group \in Groups
    BY CreateOrderFacts DEF TypeOK, Group
  <2>2. handle' \in Handles /\ leaked' \subseteq Groups
    BY <2>1, <1>4, <1>a DEF CreateGroup, Created
  <2>3. maxFragments' \in Nat
    BY <1>4, CapacityType DEF TypeOK, CreateGroup
  <2>4. /\ step' \in 1 .. Len(CreateOrder) /\ pc' \in {"create", "frame"}
        /\ initialized' \in BOOLEAN /\ size' \in Sizes \cup {0}
    <3>1. CASE step < Len(CreateOrder)
      BY <3>1, <1>4, CreateOrderFacts DEF TypeOK, CreateGroup
    <3>2. CASE ~(step < Len(CreateOrder))
      BY <3>2, <1>4, CreateOrderFacts DEF TypeOK, CreateGroup
    <3> QED BY <3>1, <3>2
  <2> QED BY <2>2, <2>3, <2>4, <1>4 DEF TypeOK, CreateGroup
<1>5. CASE CreateShaders
  <2>1. CASE UNCHANGED <<pc, step, target, handle, initialized, initFailed, size, invalid>>
                /\ shaders' = "complete"
    BY <2>1, <1>5 DEF TypeOK, CreateShaders
  <2>2. CASE CatchVulkanError(handle) /\ initFailed' \in BOOLEAN /\ shaders' = "partial"
    <3>1. handle' \in Handles /\ invalid' \subseteq Groups
      BY <2>2, <1>a, CleanupType DEF CatchVulkanError
    <3> QED BY <3>1, <2>2, <1>5, ReturnNullType DEF TypeOK, CreateShaders, CatchVulkanError
  <2> QED BY <2>1, <2>2, <1>5 DEF CreateShaders
<1>6. CASE AttachmentsOOM
  <2>1. handle' \in Handles /\ invalid' \subseteq Groups
    BY <1>6, <1>a, DestroyedType, CreateOrderFacts DEF AttachmentsOOM, Dangling
  <2> QED BY <2>1, <1>6, ReturnNullType DEF TypeOK, AttachmentsOOM
<1>7. CASE TransparencyOOM
  <2>1. Destroyed(handle, TransparencyGroups, {}) \in Handles
    BY <1>a, DestroyedType
  <2>2. handle' \in Handles /\ invalid' \subseteq Groups
    BY <2>1, <1>7, <1>a, CleanupType DEF TransparencyOOM
  <2>3. maxFragments' \in Nat
    BY <1>7, CapacityType DEF TypeOK, TransparencyOOM
  <2> QED BY <2>2, <2>3, <1>7, ReturnNullType DEF TypeOK, TransparencyOOM
<1>8. CASE CreateError \/ PipelineError \/ FrameError
  <2>1. CatchVulkanError(handle) /\ UNCHANGED <<initFailed, shaders, hostSize, hostInit, leaked>>
    BY <1>8 DEF CreateError, PipelineError, FrameError
  <2>2. handle' \in Handles /\ invalid' \subseteq Groups
    BY <2>1, <1>a, CleanupType DEF CatchVulkanError
  <2>3. maxFragments' \in Nat
    BY <1>8, CapacityType DEF TypeOK, CreateError, PipelineError, FrameError
  <2> QED BY <2>1, <2>2, <2>3, ReturnNullType DEF TypeOK, CatchVulkanError
<1>i. CASE CreateIgnored
  <2>1. Group \in Groups /\ step \in 1 .. 16
    BY CreateOrderFacts DEF TypeOK, Group
  <2>2. step # 16
    BY <1>i DEF CreateIgnored, Group, Unchecked, CreateOrder
  <2>3. handle' \in Handles /\ leaked' \subseteq Groups
    BY <2>1, <1>i, <1>a DEF CreateIgnored
  <2>4. step' \in 1 .. Len(CreateOrder)
    BY <2>1, <2>2, <1>i, CreateOrderFacts DEF CreateIgnored
  <2> QED BY <2>3, <2>4, <1>i DEF TypeOK, CreateIgnored
<1>g. CASE GrowError
  <2>1. PICK n \in maxFragments + 1 .. Layers * target, made \in 0 .. 2 :
          /\ maxFragments' = (n * 11) \div 10
          /\ CatchVulkanError(Regrown(made))
    BY <1>g DEF GrowError, Regrown
  <2>2. maxFragments' \in Nat
    BY <2>1, GrownCapacity
  <2>3. handle' \in Handles /\ invalid' \subseteq Groups
    BY <2>1, <1>a, RegrownFacts, CleanupType DEF CatchVulkanError
  <2> QED BY <2>1, <2>2, <2>3, <1>g, ReturnNullType DEF TypeOK, GrowError, CatchVulkanError
<1>9. CASE RecreatePipelines
  <2>1. handle' \in Handles
    BY <1>9, <1>a DEF RecreatePipelines
  <2> QED BY <2>1, <1>9 DEF TypeOK, RecreatePipelines
<1>10. CASE CountFragments
  BY <1>10 DEF TypeOK, CountFragments
<1>11. CASE GrowFragments
  <2>1. PICK n \in maxFragments + 1 .. Layers * target :
          /\ maxFragments' = (n * 11) \div 10
          /\ \/ pc' = "copy" /\ UNCHANGED <<step, target, handle, initialized, size, invalid>>
             \/ /\ cleanup([handle EXCEPT !["fragments"] = "null", !["depthFrags"] = "dangling"])
                /\ ReturnNull
             \/ cleanup([handle EXCEPT !["depthFrags"] = "null"]) /\ ReturnNull
    BY <1>11 DEF GrowFragments
  <2>2. maxFragments' \in Nat
    BY <2>1, GrownCapacity
  <2>3. /\ [handle EXCEPT !["fragments"] = "null", !["depthFrags"] = "dangling"] \in Handles
        /\ [handle EXCEPT !["depthFrags"] = "null"] \in Handles
    BY <1>a
  <2>4. UNCHANGED <<initFailed, shaders, hostSize, hostInit, leaked>>
    BY <1>11 DEF GrowFragments
  <2>5. CASE pc' = "copy" /\ UNCHANGED <<step, target, handle, initialized, size, invalid>>
    BY <2>5, <2>2, <2>4 DEF TypeOK
  <2>6. CASE /\ ReturnNull
             /\ \/ cleanup([handle EXCEPT !["fragments"] = "null", !["depthFrags"] = "dangling"])
                \/ cleanup([handle EXCEPT !["depthFrags"] = "null"])
    <3>1. handle' \in Handles /\ invalid' \subseteq Groups
      BY <2>6, <2>3, <1>a, CleanupType
    <3> QED BY <3>1, <2>6, <2>2, <2>4, ReturnNullType DEF TypeOK
  <2> QED BY <2>1, <2>5, <2>6
<1>12. CASE CopyToHost
  BY <1>12 DEF TypeOK, CopyToHost
<1>r. CASE ReplaceHostImage
  <2>1. handle' \in Handles
    BY <1>r, <1>a, HostReplacedFacts DEF ReplaceHostImage
  <2>2. leaked' \subseteq Groups /\ invalid' \subseteq Groups
    BY <1>r, CreateOrderFacts DEF ReplaceHostImage, HostForgotten, HostInvalid, Dangling
  <2> QED BY <2>1, <2>2, <1>r DEF TypeOK, ReplaceHostImage
<1>13. CASE HostImageError
  <2>1. PICK made \in {{}, {"hostImage"}, HostGroups} :
          /\ handle' = Destroyed(HostReplaced(made), CleanupGroups, KeptByCleanup)
          /\ leaked' = HostForgotten(made)
    BY <1>13 DEF HostImageError
  <2>2. made \in SUBSET HostGroups
    BY DEF HostGroups
  <2>3. handle' \in Handles
    BY <2>1, <2>2, <1>a, HostReplacedFacts, DestroyedType
  <2>4. leaked' \subseteq Groups
    BY <2>1, <2>2, CreateOrderFacts DEF HostForgotten
  <2>5. invalid' \subseteq Groups
    BY <1>13, CreateOrderFacts DEF HostImageError, HostInvalid, Dangling
  <2> QED BY <2>3, <2>4, <2>5, <1>13, ReturnNullType DEF TypeOK, HostImageError
<1>14. CASE Close
  <2>1. handle' \in Handles
    BY <1>14 DEF Close, FreshHandles
  <2>2. invalid' \subseteq Groups /\ leaked' \subseteq Groups
    BY <1>14, <1>a, CreateOrderFacts DEF Close, Dangling
  <2> QED BY <2>1, <2>2, <1>14, FirstStep DEF TypeOK, Close
<1>15. CASE UNCHANGED vars
  BY <1>15 DEF TypeOK, vars
<1> QED
  BY <1>1, <1>2, <1>3, <1>4, <1>5, <1>6, <1>7, <1>8, <1>9, <1>10, <1>11, <1>12,
     <1>13, <1>14, <1>15, <1>i, <1>g, <1>r DEF Next

-----------------------------------------------------------------------------
\* A group that becomes live, or null when nobody checks it, is in place
\* along with those created before it.
LEMMA StepInPlace ==
    ASSUME CreateInPlace, pc = "create", handle \in Handles,
           step \in 1 .. Len(CreateOrder), Len(CreateOrder) \in Nat,
           \A i \in 1 .. Len(CreateOrder) : CreateOrder[i] \in Groups,
           NEW v, v = "live" \/ (v = "null" /\ CreateOrder[step] \in Unchecked),
           handle' = [handle EXCEPT ![CreateOrder[step]] = v]
    PROVE  \A i \in 1 .. step : InPlace(CreateOrder[i])'
<1> SUFFICES ASSUME NEW i \in 1 .. step PROVE InPlace(CreateOrder[i])'
  OBVIOUS
<1>1. CreateOrder[i] \in Groups /\ CreateOrder[step] \in Groups
  OBVIOUS
<1>2. CASE CreateOrder[i] = CreateOrder[step]
  BY <1>1, <1>2 DEF InPlace, Handles
<1>3. CASE CreateOrder[i] # CreateOrder[step]
  <2>1. i \in 1 .. step - 1
    BY <1>3
  <2>2. InPlace(CreateOrder[i])
    BY <2>1 DEF CreateInPlace
  <2>3. handle'[CreateOrder[i]] = handle[CreateOrder[i]]
    BY <1>1, <1>3 DEF Handles
  <2> QED BY <2>2, <2>3 DEF InPlace
<1> QED BY <1>2, <1>3

\* Every step preserves the inductive invariant.
LEMMA StepInv == ResourceInv /\ [Next]_vars => ResourceInv'
<1> SUFFICES ASSUME ResourceInv, [Next]_vars PROVE ResourceInv'
  OBVIOUS
<1>t. TypeOK /\ TypeOK'
  BY TypeStep DEF ResourceInv
<1>h. handle \in Handles
  BY <1>t DEF TypeOK, Handles
<1>1. ASSUME NEW s \in Sizes, StartPipelines(s) PROVE ResourceInv'
  <2>1. s # 0
    BY ResourceAssumption
  <2>2. AllInPlace(CreatedGroups)
    BY <1>1, <2>1 DEF StartPipelines, ResourceInv, SizeMeansInitialized, IdleInPlace
  <2>3. \A g \in CreatedGroups \ Pipelines : handle'[g] = handle[g]
    BY <1>1, <1>h, DestroyedKeeps, CreateOrderFacts DEF StartPipelines
  <2>4. PipelineInPlace'
    BY <2>2, <2>3 DEF PipelineInPlace, AllInPlace, InPlace
  <2> QED
    BY <1>1, <1>t, <2>1, <2>4 DEF StartPipelines, ResourceInv, SizeMeansInitialized, IdleInPlace,
                            CreateInPlace, FrameObjectsInPlace
<1>2. ASSUME NEW s \in Sizes, StartRecreate(s) PROVE ResourceInv'
  <2>1. pc' = "create" /\ step' = 1
    BY <1>2 DEF StartRecreate
  <2> QED
    BY <2>1, <1>t DEF ResourceInv, SizeMeansInitialized, IdleInPlace, CreateInPlace,
                      PipelineInPlace, FrameObjectsInPlace
<1>3. ASSUME NEW s \in Sizes, StartFrame(s) PROVE ResourceInv'
  BY <1>3, <1>t DEF StartFrame, ResourceInv, SizeMeansInitialized, IdleInPlace, CreateInPlace,
                    PipelineInPlace, FrameObjectsInPlace, AllInPlace, InPlace
<1>4. CASE CreateGroup
  <2>1. pc = "create" /\ handle' = [handle EXCEPT ![CreateOrder[step]] = "live"]
    BY <1>4 DEF CreateGroup, Created, Group
  <2>2. step \in 1 .. Len(CreateOrder) /\ Len(CreateOrder) \in Nat
    BY <1>t, CreateOrderFacts DEF TypeOK
  <2>3. \A i \in 1 .. Len(CreateOrder) : CreateOrder[i] \in Groups
    BY CreateOrderFacts
  <2>4. \A i \in 1 .. step : InPlace(CreateOrder[i])'
    BY <2>1, <2>2, <2>3, <1>h, StepInPlace DEF ResourceInv
  <2>5. CASE step < Len(CreateOrder)
    <3>1. pc' = "create" /\ step' = step + 1
      BY <2>5, <1>4 DEF CreateGroup
    <3>2. CreateInPlace'
      BY <2>2, <2>4, <3>1 DEF CreateInPlace
    <3> QED
      BY <3>1, <3>2, <1>t DEF ResourceInv, SizeMeansInitialized, IdleInPlace, PipelineInPlace,
                              FrameObjectsInPlace
  <2>6. CASE ~(step < Len(CreateOrder))
    <3>1. pc' = "frame" /\ initialized'
      BY <2>6, <1>4 DEF CreateGroup
    <3>2. \A g \in CreatedGroups : InPlace(g)'
      BY <2>2, <2>4, <2>6, CreateOrderFacts
    <3> QED
      BY <3>1, <3>2, <1>t DEF ResourceInv, SizeMeansInitialized, IdleInPlace, CreateInPlace,
                              PipelineInPlace, FrameObjectsInPlace
  <2> QED BY <2>5, <2>6
<1>5. CASE CreateShaders
  <2>1. CASE UNCHANGED <<pc, step, target, handle, initialized, initFailed, size, invalid>>
    BY <2>1, <1>t DEF ResourceInv, SizeMeansInitialized, IdleInPlace, CreateInPlace,
                      PipelineInPlace, FrameObjectsInPlace, AllInPlace, InPlace
  <2>2. CASE CatchVulkanError(handle)
    BY <2>2, <1>t, ReturnNullInv DEF CatchVulkanError
  <2> QED BY <2>1, <2>2, <1>5 DEF CreateShaders
<1>6. CASE AttachmentsOOM \/ TransparencyOOM \/ HostImageError
  BY <1>6, <1>t, ReturnNullInv DEF AttachmentsOOM, TransparencyOOM, HostImageError
<1>7. CASE CreateError \/ PipelineError \/ GrowError \/ FrameError
  BY <1>7, <1>t, ReturnNullInv
     DEF CreateError, PipelineError, GrowError, FrameError, CatchVulkanError
<1>i. CASE CreateIgnored
  <2>1. /\ pc = "create" /\ pc' = "create" /\ step' = step + 1
        /\ CreateOrder[step] \in Unchecked
        /\ handle' = [handle EXCEPT ![CreateOrder[step]] = "null"]
    BY <1>i DEF CreateIgnored, Group
  <2>2. step \in 1 .. Len(CreateOrder) /\ Len(CreateOrder) \in Nat
    BY <1>t, CreateOrderFacts DEF TypeOK
  <2>3. \A i \in 1 .. Len(CreateOrder) : CreateOrder[i] \in Groups
    BY CreateOrderFacts
  <2>4. \A i \in 1 .. step : InPlace(CreateOrder[i])'
    BY <2>1, <2>2, <2>3, <1>h, StepInPlace DEF ResourceInv
  <2>5. CreateInPlace'
    BY <2>1, <2>2, <2>4 DEF CreateInPlace
  <2> QED
    BY <2>1, <2>5, <1>t DEF ResourceInv, SizeMeansInitialized, IdleInPlace, PipelineInPlace,
                            FrameObjectsInPlace
<1>8. CASE RecreatePipelines
  <2>1. \A g \in CreatedGroups : InPlace(g)'
    BY <1>8, CreateOrderFacts
       DEF RecreatePipelines, ResourceInv, PipelineInPlace, AllInPlace, InPlace
  <2> QED
    BY <2>1, <1>8, <1>t DEF RecreatePipelines, ResourceInv, SizeMeansInitialized, IdleInPlace,
                            CreateInPlace, PipelineInPlace, FrameObjectsInPlace
<1>9. CASE CountFragments
  BY <1>9, <1>t DEF CountFragments, ResourceInv, SizeMeansInitialized, IdleInPlace, CreateInPlace,
                    PipelineInPlace, FrameObjectsInPlace, InPlace
<1>10. CASE GrowFragments
  <2>1. CASE ReturnNull
    BY <2>1, <1>t, ReturnNullInv
  <2>2. CASE pc' = "copy" /\ UNCHANGED <<step, target, handle, initialized, size, invalid>>
    <3>1. pc = "frame"
      BY <1>10 DEF GrowFragments
    <3> QED
      BY <2>2, <3>1, <1>t DEF ResourceInv, SizeMeansInitialized, IdleInPlace, CreateInPlace,
                              PipelineInPlace, FrameObjectsInPlace, InPlace
  <2> QED BY <2>1, <2>2, <1>10 DEF GrowFragments
<1>11. CASE CopyToHost
  BY <1>11, <1>t DEF CopyToHost, ResourceInv, SizeMeansInitialized, IdleInPlace, CreateInPlace,
                     PipelineInPlace, FrameObjectsInPlace, AllInPlace, InPlace
<1>r. CASE ReplaceHostImage
  <2>1. \A g \in CreatedGroups : handle'[g] = handle[g]
    BY <1>r, <1>h, HostReplacedFacts, HostApart, CreateOrderFacts DEF ReplaceHostImage
  <2>2. pc = "copy" /\ pc' = "copy" /\ UNCHANGED <<initialized, size>>
    BY <1>r DEF ReplaceHostImage
  <2> QED
    BY <2>1, <2>2, <1>t DEF ResourceInv, SizeMeansInitialized, IdleInPlace, CreateInPlace,
                            PipelineInPlace, FrameObjectsInPlace, InPlace
<1>12. CASE Close
  BY <1>12, <1>t DEF Close, ResourceInv, SizeMeansInitialized, IdleInPlace, CreateInPlace,
                     PipelineInPlace, FrameObjectsInPlace
<1>13. CASE UNCHANGED vars
  BY <1>13, <1>t DEF vars, ResourceInv, SizeMeansInitialized, IdleInPlace, CreateInPlace,
                     PipelineInPlace, FrameObjectsInPlace, AllInPlace, InPlace
<1> QED
  BY <1>1, <1>2, <1>3, <1>4, <1>5, <1>6, <1>7, <1>8, <1>9, <1>10, <1>11, <1>12,
     <1>13, <1>i, <1>r DEF Next

-----------------------------------------------------------------------------
\* What the renderer remembers between calls of render() is true of its
\* objects, whatever failed: the inductive invariant holds always.
THEOREM ResourcesTracked == Spec => []ResourceInv
<1>1. Init => ResourceInv
  BY InitInv
<1>2. ResourceInv /\ [Next]_vars => ResourceInv'
  BY StepInv
<1> QED BY <1>1, <1>2, PTL DEF Spec

\* Every reachable state of the renderer is well typed; in particular the
\* recreation never runs past its last group.
THEOREM ResourceTypes == Spec => []TypeOK
<1>1. ResourceInv => TypeOK
  BY DEF ResourceInv
<1> QED BY <1>1, ResourcesTracked, PTL

\* For every memory size, scene and combination of failing Vulkan calls,
\* render() records a frame with no handle of a destroyed object: attachments,
\* passes, pipelines and buffers all exist, but for the three buffers whose
\* creation nobody checks, which may be null.
THEOREM FramesUseObjectsInPlace == Spec => []FrameObjectsInPlace
<1>1. ResourceInv => FrameObjectsInPlace
  BY DEF ResourceInv
<1> QED BY <1>1, ResourcesTracked, PTL

-----------------------------------------------------------------------------
(* Nothing is destroyed twice among the groups whose handles are cleared.  *)

\* cleanup() clears these handles, so they never name a destroyed object.
NulledGroups  == {"ibl", "passes", "compute", "counts"}
NeverDangling == \A g \in NulledGroups : handle[g] # "dangling"

FreedInv == BuffersFreedOnce /\ NeverDangling

\* Which destroyer is responsible for them.
LEMMA NulledFacts ==
    /\ NulledGroups \subseteq Groups
    /\ NulledGroups \cap KeptByCleanup = {}
    /\ NulledGroups \cap Pipelines = {}
    /\ NulledGroups \cap OwnGroups = {}
    /\ OwnGroups \cap CleanupGroups = {}
    /\ OwnGroups \cap Pipelines = {}
    /\ OwnGroups \subseteq CreatedGroups
    /\ NulledGroups \subseteq CreatedGroups
<1>1. /\ CreateOrder[3] = "ibl" /\ CreateOrder[4] = "passes" /\ CreateOrder[12] = "counts"
      /\ CreateOrder[15] = "compute" /\ CreateOrder[2] = "setLayout" /\ CreateOrder[8] = "uniform"
      /\ CreateOrder[9] = "material" /\ CreateOrder[10] = "light"
      /\ CreateOrder[11] = "descriptorPool"
  BY DEF CreateOrder
<1>2. NulledGroups \subseteq CreatedGroups /\ OwnGroups \subseteq CreatedGroups
  BY <1>1, CreateOrderFacts DEF NulledGroups, OwnGroups
<1>3. /\ NulledGroups \cap KeptByCleanup = {}
      /\ NulledGroups \cap Pipelines = {}
      /\ NulledGroups \cap OwnGroups = {}
      /\ OwnGroups \cap Pipelines = {}
  BY DEF NulledGroups, KeptByCleanup, Pipelines, OwnGroups
<1> QED
  BY <1>2, <1>3, CreateOrderFacts DEF CleanupGroups

\* Destroying groups makes a handle dangle only if its destroyer keeps it.
LEMMA DestroyedNotDangling ==
    ASSUME NEW h \in Handles, NEW gs, NEW kept, NEW g \in Groups \ kept, h[g] # "dangling"
    PROVE  Destroyed(h, gs, kept)[g] # "dangling"
BY DEF Destroyed, Handles

\* cleanup() destroys none of these groups twice, and clears their handles.
LEMMA CleanupFrees ==
    ASSUME NEW h \in Handles, BuffersFreedOnce, cleanup(h),
           \A g \in NulledGroups : h[g] # "dangling"
    PROVE  FreedInv'
<1>1. NeverDangling'
  BY NulledFacts, DestroyedNotDangling DEF cleanup, NeverDangling
<1>2. Dangling(h, CleanupGroups) \cap (OwnGroups \cup NulledGroups) = {}
  BY NulledFacts DEF Dangling
<1>3. BuffersFreedOnce'
  BY <1>2 DEF cleanup, BuffersFreedOnce, NulledGroups
<1> QED
  BY <1>1, <1>3 DEF FreedInv

\* Every step preserves it: a recreation destroys the objects of an
\* initialized renderer, which are all live.
LEMMA FreedStep == ResourceInv /\ FreedInv /\ [Next]_vars => FreedInv'
<1> SUFFICES ASSUME ResourceInv, FreedInv, [Next]_vars PROVE FreedInv'
  OBVIOUS
<1>h. handle \in Handles
  BY DEF ResourceInv, TypeOK, Handles
<1>i. BuffersFreedOnce /\ NeverDangling
  BY DEF FreedInv
<1>e. ASSUME CatchVulkanError(handle) PROVE FreedInv'
  BY <1>e, <1>h, <1>i, CleanupFrees DEF CatchVulkanError, NeverDangling
<1>u. ASSUME UNCHANGED <<handle, invalid>> PROVE FreedInv'
  BY <1>u DEF FreedInv, BuffersFreedOnce, NeverDangling
<1>1. ASSUME NEW s \in Sizes, StartPipelines(s) PROVE FreedInv'
  <2>1. NeverDangling'
    BY <1>1, <1>h, <1>i, NulledFacts, DestroyedNotDangling DEF StartPipelines, NeverDangling
  <2>2. Dangling(handle, Pipelines) \cap (OwnGroups \cup NulledGroups) = {}
    BY NulledFacts DEF Dangling
  <2> QED
    BY <1>1, <1>i, <2>1, <2>2 DEF StartPipelines, FreedInv, BuffersFreedOnce, NulledGroups
<1>2. ASSUME NEW s \in Sizes, StartRecreate(s) PROVE FreedInv'
  <2>1. CASE ~initialized
    BY <2>1, <1>2, <1>u DEF StartRecreate
  <2>2. CASE initialized
    <3>1. \A g \in CreatedGroups : handle[g] # "dangling"
      BY <2>2, <1>2 DEF StartRecreate, ResourceInv, IdleInPlace, AllInPlace, InPlace
    <3>2. Dangling(handle, CleanupGroups \cup OwnGroups) = {}
      BY <3>1, NulledFacts DEF Dangling, CleanupGroups
    <3>3. NeverDangling'
      BY <2>2, <1>2, <1>h, <1>i, NulledFacts, DestroyedNotDangling
         DEF StartRecreate, NeverDangling
    <3> QED
      BY <2>2, <1>2, <1>i, <3>2, <3>3 DEF StartRecreate, FreedInv, BuffersFreedOnce
  <2> QED BY <2>1, <2>2
<1>3. ASSUME NEW s \in Sizes, StartFrame(s) PROVE FreedInv'
  BY <1>3, <1>u DEF StartFrame
<1>4. CASE CreateGroup
  BY <1>4, <1>h, <1>i, NulledFacts
     DEF CreateGroup, Created, Handles, FreedInv, BuffersFreedOnce, NeverDangling
<1>g. CASE CreateIgnored
  BY <1>g, <1>h, <1>i, NulledFacts
     DEF CreateIgnored, Handles, FreedInv, BuffersFreedOnce, NeverDangling
<1>5. CASE CreateShaders
  BY <1>5, <1>e, <1>u DEF CreateShaders
<1>6. CASE AttachmentsOOM
  <2>1. "attachments" \notin OwnGroups \cup NulledGroups
    BY DEF OwnGroups, NulledGroups
  <2>2. NeverDangling'
    BY <1>6, <1>h, <1>i, NulledFacts, DestroyedNotDangling DEF AttachmentsOOM, NeverDangling
  <2> QED
    BY <1>6, <1>i, <2>1, <2>2
       DEF AttachmentsOOM, Dangling, FreedInv, BuffersFreedOnce, NulledGroups
<1>7. CASE TransparencyOOM
  <2> DEFINE h == Destroyed(handle, TransparencyGroups, {})
  <2>1. h \in Handles
    BY <1>h, DestroyedType
  <2>2. \A g \in NulledGroups : h[g] # "dangling"
    BY <1>h, <1>i, NulledFacts, DestroyedNotDangling DEF NeverDangling
  <2>3. cleanup(h)
    BY <1>7 DEF TransparencyOOM
  <2> HIDE DEF h
  <2> QED BY <2>1, <2>2, <2>3, <1>i, CleanupFrees
<1>8. CASE CreateError \/ PipelineError \/ FrameError
  BY <1>8, <1>e DEF CreateError, PipelineError, FrameError
<1>9. CASE RecreatePipelines
  BY <1>9, <1>i, NulledFacts
     DEF RecreatePipelines, FreedInv, BuffersFreedOnce, NeverDangling
<1>10. CASE CountFragments
  BY <1>10, <1>u DEF CountFragments
<1>11. CASE GrowFragments
  <2> DEFINE h1 == [handle EXCEPT !["fragments"] = "null", !["depthFrags"] = "dangling"]
             h2 == [handle EXCEPT !["depthFrags"] = "null"]
  <2>1. UNCHANGED <<handle, invalid>> \/ cleanup(h1) \/ cleanup(h2)
    BY <1>11 DEF GrowFragments
  <2>2. h1 \in Handles /\ h2 \in Handles
    BY <1>h DEF Handles
  <2>3. \A g \in NulledGroups : h1[g] # "dangling" /\ h2[g] # "dangling"
    <3>1. "depthFrags" \notin NulledGroups
      BY DEF NulledGroups
    <3> QED BY <3>1, <1>h, <1>i, NulledFacts DEF NeverDangling, Handles
  <2> HIDE DEF h1, h2
  <2> QED BY <2>1, <2>2, <2>3, <1>i, <1>u, CleanupFrees
<1>12. CASE GrowError
  <2>1. PICK made \in 0 .. 2 : CatchVulkanError(Regrown(made))
    BY <1>12 DEF GrowError, Regrown
  <2>2. Regrown(made) \in Handles
    BY <1>h, RegrownFacts
  <2>3. \A g \in NulledGroups : Regrown(made)[g] # "dangling"
    <3>1. "depthFrags" \notin NulledGroups /\ "fragments" \notin NulledGroups
      BY DEF NulledGroups
    <3> QED BY <3>1, <1>h, <1>i, NulledFacts, RegrownFacts DEF NeverDangling
  <2> QED BY <2>1, <2>2, <2>3, <1>i, CleanupFrees DEF CatchVulkanError
<1>c. CASE CopyToHost
  BY <1>c, <1>u DEF CopyToHost
<1>r. CASE ReplaceHostImage \/ HostImageError
  <2>1. HostGroups \cap (OwnGroups \cup NulledGroups) = {}
    BY DEF HostGroups, OwnGroups, NulledGroups
  <2>2. HostInvalid \cap (OwnGroups \cup NulledGroups) = {}
    BY <2>1 DEF HostInvalid, Dangling
  <2>3. CASE ReplaceHostImage
    <3>1. NeverDangling'
      BY <2>3, <2>1, <1>h, <1>i, NulledFacts, HostReplacedFacts
         DEF ReplaceHostImage, NeverDangling
    <3> QED
      BY <2>3, <2>2, <3>1 DEF ReplaceHostImage, FreedInv, BuffersFreedOnce, NulledGroups
  <2>4. CASE HostImageError
    <3>1. PICK made \in {{}, {"hostImage"}, HostGroups} :
            handle' = Destroyed(HostReplaced(made), CleanupGroups, KeptByCleanup)
      BY <2>4 DEF HostImageError
    <3>2. made \in SUBSET HostGroups
      BY DEF HostGroups
    <3>3. HostReplaced(made) \in Handles
      BY <3>2, <1>h, HostReplacedFacts
    <3>4. \A g \in NulledGroups : HostReplaced(made)[g] # "dangling"
      BY <3>2, <2>1, <1>h, <1>i, NulledFacts, HostReplacedFacts DEF NeverDangling
    <3>5. NeverDangling'
      BY <3>1, <3>3, <3>4, NulledFacts, DestroyedNotDangling DEF NeverDangling
    <3>6. Dangling(handle, CleanupGroups) \cap (OwnGroups \cup NulledGroups) = {}
      BY <1>i, NulledFacts DEF Dangling, NeverDangling
    <3>7. invalid' = Dangling(handle, CleanupGroups) \cup HostInvalid
      BY <2>4 DEF HostImageError
    <3> QED
      BY <3>5, <3>6, <3>7, <2>2 DEF FreedInv, BuffersFreedOnce, NulledGroups
  <2> QED BY <1>r, <2>3, <2>4
<1>13. CASE Close
  <2>1. pc = "idle" /\ handle' \in FreshHandles
    BY <1>13 DEF Close
  <2>2. NeverDangling'
    BY <2>1, NulledFacts DEF FreshHandles, NeverDangling, NulledGroups
  <2> DEFINE gs == {g \in HostGroups : hostInit} \cup {"ibl"}
                   \cup (IF initialized THEN CleanupGroups \cup OwnGroups ELSE {})
  <2>3. invalid' = Dangling(handle, gs)
    BY <1>13 DEF Close
  <2>4. Dangling(handle, gs) \cap (OwnGroups \cup NulledGroups) = {}
    <3>1. CASE initialized
      <4>1. \A g \in CreatedGroups : handle[g] # "dangling"
        BY <2>1, <3>1 DEF ResourceInv, IdleInPlace, AllInPlace, InPlace
      <4> QED BY <4>1, NulledFacts DEF Dangling
    <3>2. CASE ~initialized
      <4>1. HostGroups \cap (OwnGroups \cup NulledGroups) = {} /\ "ibl" \in NulledGroups
        BY DEF HostGroups, OwnGroups, NulledGroups
      <4> QED BY <4>1, <3>2, <1>i DEF Dangling, NeverDangling
    <3> QED BY <3>1, <3>2
  <2> HIDE DEF gs
  <2> QED BY <2>2, <2>3, <2>4 DEF FreedInv, BuffersFreedOnce, NulledGroups
<1>14. CASE UNCHANGED vars
  BY <1>14, <1>u DEF vars
<1> QED
  BY <1>1, <1>2, <1>3, <1>4, <1>5, <1>6, <1>7, <1>8, <1>9, <1>10, <1>11, <1>12,
     <1>13, <1>14, <1>g, <1>c, <1>r DEF Next

\* Whatever Vulkan call fails, the images, passes, pipelines and buffers of
\* BuffersFreedOnce are destroyed at most once.
THEOREM BuffersAreFreedOnce == Spec => []BuffersFreedOnce
<1>1. Init => FreedInv
  BY NulledFacts DEF Init, FreshHandles, FreedInv, BuffersFreedOnce, NeverDangling, NulledGroups
<1>2. ResourceInv /\ FreedInv /\ [Next]_vars => FreedInv'
  BY FreedStep
<1>3. FreedInv => BuffersFreedOnce
  BY DEF FreedInv
<1> QED BY <1>1, <1>2, <1>3, ResourcesTracked, PTL DEF Spec

-----------------------------------------------------------------------------
(* Nothing cleanup() is responsible for is forgotten.                      *)

\* A renderer that is not initialized has none of cleanup()'s objects, and a
\* recreation has none of those it is still to create.
IdleNotLive   == pc = "idle" /\ ~initialized => \A g \in CleanupGroups : handle[g] # "live"
CreateNotLive ==
    pc = "create" =>
        \A i \in step .. Len(CreateOrder) :
            CreateOrder[i] \in CleanupGroups => handle[CreateOrder[i]] # "live"
BusyMeansInitialized == pc \in {"pipelines", "frame", "copy"} => initialized

LeakInv ==
    /\ CleanupForgetsNothing
    /\ IdleNotLive
    /\ CreateNotLive
    /\ BusyMeansInitialized

\* Destroying groups leaves none of them live, and makes nothing live.
LEMMA DestroyedNotLive ==
    ASSUME NEW h \in Handles, NEW gs, NEW kept, NEW g \in Groups
    PROVE  Destroyed(h, gs, kept)[g] = "live" => h[g] = "live" /\ g \notin gs
BY DEF Destroyed, Handles

\* A failed frame that ran cleanup() leaves none of its objects.
LEMMA FailureLeaksNothing ==
    ASSUME NEW h \in Handles, CleanupForgetsNothing', ReturnNull,
           handle' = Destroyed(h, CleanupGroups, KeptByCleanup)
    PROVE  LeakInv'
<1>1. \A g \in CleanupGroups : handle'[g] # "live"
  BY CreateOrderFacts, DestroyedNotLive
<1> QED
  BY <1>1 DEF ReturnNull, LeakInv, IdleNotLive, CreateNotLive, BusyMeansInitialized

\* Every step preserves it.
LEMMA LeakStep == ResourceInv /\ LeakInv /\ [Next]_vars => LeakInv'
<1> SUFFICES ASSUME ResourceInv, LeakInv, [Next]_vars PROVE LeakInv'
  OBVIOUS
<1> USE DEF LeakInv, CleanupForgetsNothing
<1>h. handle \in Handles
  BY DEF ResourceInv, TypeOK, Handles
<1>e. ASSUME NEW h \in Handles, CatchVulkanError(h), UNCHANGED leaked PROVE LeakInv'
  BY <1>e, FailureLeaksNothing DEF CatchVulkanError, cleanup
<1>1. ASSUME NEW s \in Sizes, StartPipelines(s) PROVE LeakInv'
  <2>1. initialized
    BY <1>1, ResourceAssumption DEF StartPipelines, ResourceInv, SizeMeansInitialized
  <2> QED
    BY <1>1, <2>1 DEF StartPipelines, IdleNotLive, CreateNotLive, BusyMeansInitialized
<1>2. ASSUME NEW s \in Sizes, StartRecreate(s) PROVE LeakInv'
  <2>1. \A g \in CleanupGroups : handle'[g] # "live"
    <3>1. CASE initialized
      BY <3>1, <1>2, <1>h, CreateOrderFacts, DestroyedNotLive DEF StartRecreate
    <3>2. CASE ~initialized
      BY <3>2, <1>2 DEF StartRecreate, IdleNotLive
    <3> QED BY <3>1, <3>2
  <2> QED
    BY <1>2, <2>1 DEF StartRecreate, IdleNotLive, CreateNotLive, BusyMeansInitialized
<1>3. ASSUME NEW s \in Sizes, StartFrame(s) PROVE LeakInv'
  BY <1>3 DEF StartFrame, IdleNotLive, CreateNotLive, BusyMeansInitialized
<1>c. ASSUME NEW v \in {"live", "null"}, pc = "create", step < Len(CreateOrder),
             pc' = "create", step' = step + 1,
             handle' = [handle EXCEPT ![CreateOrder[step]] = v]
      PROVE  CreateNotLive'
  <2>1. step \in 1 .. Len(CreateOrder) /\ Len(CreateOrder) = 16
    BY CreateOrderFacts DEF ResourceInv, TypeOK
  <2>2. ASSUME NEW i \in step + 1 .. Len(CreateOrder), CreateOrder[i] \in CleanupGroups
        PROVE  handle'[CreateOrder[i]] # "live"
    <3>1. i \in step .. Len(CreateOrder) /\ i \in 1 .. Len(CreateOrder) /\ i # step
      BY <2>1
    <3>2. handle[CreateOrder[i]] # "live"
      BY <3>1, <2>2, <1>c DEF CreateNotLive
    <3>3. CreateOrder[i] # CreateOrder[step] /\ CreateOrder[i] \in Groups
      BY <3>1, <2>1, CreateOrderDistinct, CreateOrderFacts
    <3> QED BY <3>2, <3>3, <1>c, <1>h DEF Handles
  <2> QED BY <2>1, <2>2, <1>c DEF CreateNotLive
<1>4. CASE CreateGroup
  <2>1. /\ pc = "create"
        /\ handle' = [handle EXCEPT ![CreateOrder[step]] = "live"]
        /\ leaked' = {x \in {CreateOrder[step]} : handle[x] = "live"}
    BY <1>4 DEF CreateGroup, Created, Group
  <2>2. step \in 1 .. Len(CreateOrder) /\ Len(CreateOrder) = 16
    BY CreateOrderFacts DEF ResourceInv, TypeOK
  <2>3. CleanupForgetsNothing'
    BY <2>1, <2>2 DEF CreateNotLive
  <2>4. CASE step < Len(CreateOrder)
    <3>1. pc' = "create" /\ step' = step + 1
      BY <2>4, <2>1, <1>4 DEF CreateGroup
    <3>2. CreateNotLive'
      BY <3>1, <2>1, <2>4, <1>c
    <3> QED
      BY <3>1, <3>2, <2>3 DEF IdleNotLive, BusyMeansInitialized
  <2>5. CASE ~(step < Len(CreateOrder))
    <3>1. pc' = "frame" /\ initialized'
      BY <2>5, <1>4 DEF CreateGroup
    <3> QED
      BY <3>1, <2>3 DEF IdleNotLive, CreateNotLive, BusyMeansInitialized
  <2> QED BY <2>4, <2>5
<1>i. CASE CreateIgnored
  <2>1. /\ pc = "create" /\ pc' = "create" /\ step' = step + 1
        /\ CreateOrder[step] \in Unchecked
        /\ handle' = [handle EXCEPT ![CreateOrder[step]] = "null"]
        /\ leaked' = {x \in {CreateOrder[step]} : handle[x] = "live"}
    BY <1>i DEF CreateIgnored, Group
  <2>2. CleanupForgetsNothing'
    <3>1. Unchecked \cap CleanupGroups = {}
      BY DEF Unchecked, CleanupGroups, OwnGroups
    <3> QED BY <2>1, <3>1
  <2>3. step' \in 1 .. Len(CreateOrder)
    BY TypeStep DEF ResourceInv, TypeOK
  <2>4. step < Len(CreateOrder)
    BY <2>1, <2>3, CreateOrderFacts DEF ResourceInv, TypeOK
  <2>5. CreateNotLive'
    BY <2>1, <2>4, <1>c
  <2> QED BY <2>1, <2>2, <2>5 DEF IdleNotLive, BusyMeansInitialized
<1>5. CASE CreateShaders
  <2>1. CASE UNCHANGED <<pc, step, target, handle, initialized, initFailed, size, invalid>>
    BY <2>1, <1>5 DEF CreateShaders, IdleNotLive, CreateNotLive, BusyMeansInitialized
  <2>2. CASE CatchVulkanError(handle)
    BY <2>2, <1>5, <1>e, <1>h DEF CreateShaders
  <2> QED BY <2>1, <2>2, <1>5 DEF CreateShaders
<1>6. CASE AttachmentsOOM
  <2>1. pc = "create" /\ step = 1
    <3>1. CreateOrder[1] = "attachments"
      BY DEF CreateOrder
    <3>2. step \in 1 .. Len(CreateOrder) /\ CreateOrder[step] = "attachments" /\ pc = "create"
      BY <1>6 DEF AttachmentsOOM, Group, ResourceInv, TypeOK
    <3> QED BY <3>1, <3>2, FirstStep, CreateOrderDistinct
  <2>2. \A g \in CleanupGroups : handle[g] # "live"
    BY <2>1, CreateOrderFacts DEF CreateNotLive, CleanupGroups
  <2>3. \A g \in CleanupGroups : handle'[g] # "live"
    BY <1>6, <1>h, <2>2, CreateOrderFacts, DestroyedNotLive DEF AttachmentsOOM
  <2> QED
    BY <1>6, <2>3 DEF AttachmentsOOM, ReturnNull, IdleNotLive, CreateNotLive,
                      BusyMeansInitialized
<1>7. CASE TransparencyOOM
  <2>1. Destroyed(handle, TransparencyGroups, {}) \in Handles
    BY <1>h, DestroyedType
  <2>2. CatchVulkanError(Destroyed(handle, TransparencyGroups, {})) /\ UNCHANGED leaked
    BY <1>7 DEF TransparencyOOM, CatchVulkanError
  <2> QED BY <2>1, <2>2, <1>e
<1>8. CASE CreateError \/ PipelineError \/ FrameError
  BY <1>8, <1>e, <1>h DEF CreateError, PipelineError, FrameError
<1>9. CASE RecreatePipelines
  BY <1>9 DEF RecreatePipelines, IdleNotLive, CreateNotLive, BusyMeansInitialized
<1>10. CASE CountFragments
  BY <1>10 DEF CountFragments, IdleNotLive, CreateNotLive, BusyMeansInitialized
<1>11. CASE GrowFragments
  <2> DEFINE h1 == [handle EXCEPT !["fragments"] = "null", !["depthFrags"] = "dangling"]
             h2 == [handle EXCEPT !["depthFrags"] = "null"]
  <2>1. \/ pc' = "copy" /\ UNCHANGED <<handle, initialized>>
        \/ CatchVulkanError(h1) \/ CatchVulkanError(h2)
    BY <1>11 DEF GrowFragments, CatchVulkanError
  <2>2. h1 \in Handles /\ h2 \in Handles
    BY <1>h DEF Handles
  <2>3. pc = "frame" /\ UNCHANGED leaked
    BY <1>11 DEF GrowFragments
  <2> HIDE DEF h1, h2
  <2>4. CASE pc' = "copy" /\ UNCHANGED <<handle, initialized>>
    BY <2>3, <2>4 DEF IdleNotLive, CreateNotLive, BusyMeansInitialized
  <2> QED BY <2>1, <2>2, <2>3, <2>4, <1>e
<1>12. CASE GrowError
  <2>1. PICK made \in 0 .. 2 : CatchVulkanError(Regrown(made))
    BY <1>12 DEF GrowError, Regrown
  <2>2. Regrown(made) \in Handles /\ UNCHANGED leaked
    BY <1>12, <1>h, RegrownFacts DEF GrowError
  <2> QED BY <2>1, <2>2, <1>e
<1>f. \A made \in SUBSET HostGroups : HostForgotten(made) \cap CleanupGroups = {}
  BY HostApart DEF HostForgotten
<1>13. CASE ReplaceHostImage
  BY <1>13, <1>f DEF ReplaceHostImage, IdleNotLive, CreateNotLive, BusyMeansInitialized
<1>14. CASE HostImageError
  <2>1. PICK made \in {{}, {"hostImage"}, HostGroups} :
          /\ handle' = Destroyed(HostReplaced(made), CleanupGroups, KeptByCleanup)
          /\ leaked' = HostForgotten(made)
    BY <1>14 DEF HostImageError
  <2>2. made \in SUBSET HostGroups
    BY DEF HostGroups
  <2>3. HostReplaced(made) \in Handles /\ ReturnNull
    BY <2>2, <1>h, <1>14, HostReplacedFacts DEF HostImageError
  <2>4. CleanupForgetsNothing'
    BY <2>1, <2>2, <1>f
  <2> QED BY <2>1, <2>3, <2>4, FailureLeaksNothing
<1>15. CASE CopyToHost
  BY <1>15 DEF CopyToHost, IdleNotLive, CreateNotLive, BusyMeansInitialized
<1>16. CASE Close
  <2>1. /\ pc = "idle" /\ pc' = "idle" /\ handle' \in FreshHandles
    BY <1>16 DEF Close
  <2>2. \A g \in Groups : handle'[g] # "live"
    BY <2>1 DEF FreshHandles
  <2>3. CleanupForgetsNothing'
    BY <1>16, <2>1 DEF Close, IdleNotLive
  <2> QED
    BY <2>1, <2>2, <2>3, CreateOrderFacts DEF IdleNotLive, CreateNotLive, BusyMeansInitialized
<1>17. CASE UNCHANGED vars
  BY <1>17 DEF vars, IdleNotLive, CreateNotLive, BusyMeansInitialized
<1> QED
  BY <1>1, <1>2, <1>3, <1>4, <1>5, <1>6, <1>7, <1>8, <1>9, <1>10, <1>11, <1>12,
     <1>13, <1>14, <1>15, <1>16, <1>17, <1>i DEF Next

\* A renderer without its objects knows that it has none.
THEOREM LeakInvariant == Spec => []LeakInv
<1>1. Init => LeakInv
  BY CreateOrderFacts DEF Init, FreshHandles, LeakInv, CleanupForgetsNothing, IdleNotLive,
                          CreateNotLive, BusyMeansInitialized
<1>2. ResourceInv /\ LeakInv /\ [Next]_vars => LeakInv'
  BY LeakStep
<1> QED BY <1>1, <1>2, ResourcesTracked, PTL DEF Spec

\* Whatever Vulkan call fails, no object that cleanup() destroys is ever
\* overwritten while it is live, nor left behind by the destructor.
THEOREM CleanupIsComplete == Spec => []CleanupForgetsNothing
<1>1. LeakInv => CleanupForgetsNothing
  BY DEF LeakInv
<1> QED BY <1>1, LeakInvariant, PTL

-----------------------------------------------------------------------------
(* The contract of render().                                               *)

\* render() works on a target exactly while it runs, and past the creation
\* of its objects that target is what currentTargetSize says; the pipelines
\* it rebuilds are gone until they are all rebuilt.
TargetWhileBusy == IF pc = "idle" THEN target = 0 ELSE target \in Sizes
TargetIsSize    == pc \in {"pipelines", "frame", "copy"} => size = target
PipelinesDown   == pc = "pipelines" => handle["pipelines"] # "live"

TargetInv == TargetWhileBusy /\ TargetIsSize /\ PipelinesDown

\* A new renderer has no target, and every step keeps the three facts.
LEMMA TargetStep ==
    /\ Init => TargetInv
    /\ ResourceInv /\ TargetInv /\ [Next]_vars => TargetInv'
<1> USE DEF TargetInv, TargetWhileBusy, TargetIsSize, PipelinesDown
<1>i. Init => TargetInv
  BY DEF Init
<1> SUFFICES ASSUME ResourceInv, TargetInv, [Next]_vars PROVE TargetInv'
  BY <1>i
<1>n. ReturnNull => TargetInv'
  BY DEF ReturnNull
<1>1. ASSUME NEW s \in Sizes, StartPipelines(s) PROVE TargetInv'
  <2>1. handle \in Handles /\ "pipelines" \in Groups /\ "pipelines" \in Pipelines
    BY CreateOrderFacts DEF ResourceInv, TypeOK, Handles, Pipelines
  <2>2. handle'["pipelines"] # "live"
    BY <1>1, <2>1, DestroyedNotLive DEF StartPipelines
  <2> QED BY <1>1, <2>2 DEF StartPipelines
<1>2. ASSUME NEW s \in Sizes, StartRecreate(s) \/ StartFrame(s) PROVE TargetInv'
  BY <1>2 DEF StartRecreate, StartFrame
<1>3. CASE CreateGroup
  <2>1. CASE step < Len(CreateOrder)
    BY <1>3, <2>1 DEF CreateGroup
  <2>2. CASE ~(step < Len(CreateOrder))
    BY <1>3, <2>2 DEF CreateGroup
  <2> QED BY <2>1, <2>2
<1>4. CASE CreateShaders
  BY <1>4, <1>n DEF CreateShaders, CatchVulkanError
<1>5. CASE AttachmentsOOM \/ TransparencyOOM \/ CreateError \/ PipelineError
           \/ GrowError \/ FrameError \/ HostImageError
  BY <1>5, <1>n DEF AttachmentsOOM, TransparencyOOM, CreateError, PipelineError,
                    GrowError, FrameError, HostImageError, CatchVulkanError
<1>6. CASE RecreatePipelines \/ CountFragments \/ CreateIgnored \/ ReplaceHostImage
  BY <1>6 DEF RecreatePipelines, CountFragments, CreateIgnored, ReplaceHostImage
<1>7. CASE GrowFragments
  <2>1. pc = "frame" /\ (ReturnNull \/ (pc' = "copy" /\ UNCHANGED <<target, size>>))
    BY <1>7 DEF GrowFragments
  <2> QED BY <2>1, <1>n
<1>8. CASE CopyToHost \/ Close
  BY <1>8 DEF CopyToHost, Close
<1>9. CASE UNCHANGED vars
  BY <1>9 DEF vars
<1> QED
  BY <1>1, <1>2, <1>3, <1>4, <1>5, <1>6, <1>7, <1>8, <1>9 DEF Next

\* What is ready is what currentTargetSize says, except while objects are
\* being created: then nothing is.
Ready        == IF pc \in {"create", "pipelines"} THEN 0 ELSE size
UsableIsSize == Usable = Ready

\* So it is in every reachable state.
LEMMA UsableFacts ==
    ASSUME ResourceInv, LeakInv, TargetInv
    PROVE  UsableIsSize
<1> USE DEF UsableIsSize, Ready
<1>1. ASSUME pc \in {"create", "pipelines"}
      PROVE  \E g \in CreatedGroups : ~InPlace(g)
  <2>1. CreateOrder[16] = "transparentPipelines" /\ CreateOrder[6] = "pipelines"
    BY DEF CreateOrder
  <2>2. {"transparentPipelines", "pipelines"} \subseteq CreatedGroups
    BY <2>1, CreateOrderFacts
  <2>3. /\ "transparentPipelines" \in CleanupGroups
        /\ {"transparentPipelines", "pipelines"} \cap Unchecked = {}
    BY <2>2 DEF CleanupGroups, OwnGroups, Unchecked
  <2>4. CASE pc = "create"
    <3>1. 16 \in step .. Len(CreateOrder)
      BY CreateOrderFacts DEF ResourceInv, TypeOK
    <3> QED BY <2>1, <2>2, <2>3, <2>4, <3>1 DEF LeakInv, CreateNotLive, InPlace
  <2>5. CASE pc = "pipelines"
    BY <2>2, <2>3, <2>5 DEF TargetInv, PipelinesDown, InPlace
  <2> QED BY <1>1, <2>4, <2>5
<1>2. CASE pc \in {"create", "pipelines"}
  BY <1>1, <1>2 DEF Usable
<1>3. CASE pc \in {"frame", "copy"}
  BY <1>3 DEF Usable, ResourceInv, FrameObjectsInPlace
<1>4. CASE pc = "idle"
  <2>1. CASE initialized
    BY <1>4, <2>1 DEF Usable, ResourceInv, IdleInPlace, AllInPlace
  <2>2. CASE ~initialized
    BY <1>4, <2>2 DEF Usable, ResourceInv, SizeMeansInitialized
  <2> QED BY <2>1, <2>2
<1> QED
  BY <1>2, <1>3, <1>4 DEF ResourceInv, TypeOK

\* What a step of the code does to the target, to recording and to what is
\* usable is one of the steps of the contract, or none.
LEMMA ContractStep ==
    ASSUME ResourceInv, TargetInv, UsableIsSize, ResourceInv', UsableIsSize', [Next]_vars
    PROVE  [Contract!Next]_(Contract!vars)
<1> DEFINE R == "renderer"
           Records == pc \in {"frame", "copy"}
<1> USE DEF UsableIsSize, TargetInv, TargetWhileBusy, TargetIsSize
<1>z. 0 \notin Sizes
  BY ResourceAssumption
<1>s. ASSUME UNCHANGED <<target, Usable, Records>> PROVE UNCHANGED Contract!vars
  BY <1>s DEF Contract!vars
<1>f. ASSUME ReturnNull, pc # "idle" PROVE Contract!Next
  <2>1. target # 0 /\ target' = 0 /\ Records' = FALSE /\ Usable' = 0
    BY <1>f, <1>z DEF ReturnNull, Ready
  <2>2. Contract!Fail(R)
    BY <2>1 DEF Contract!Fail
  <2> QED BY <2>2 DEF Contract!Next
<1>r. ASSUME NEW t \in Sizes, pc = "idle", pc' \in {"create", "pipelines"}, target' = t
      PROVE  Contract!Next
  <2>1. target = 0 /\ Usable' = 0 /\ Records = FALSE /\ Records' = FALSE
    BY <1>r DEF Ready
  <2>2. Contract!Recreate(R, t)
    BY <1>r, <2>1 DEF Contract!Recreate
  <2> QED BY <2>2 DEF Contract!Next
<1>p. ASSUME pc \in {"create", "pipelines"}, pc' = "frame", target' = target, size' = target
      PROVE  Contract!Next
  <2>1. target # 0 /\ Usable' = target /\ ~Records /\ Records'
    BY <1>p, <1>z DEF Ready
  <2>2. Contract!Prepare(R)
    BY <1>p, <2>1 DEF Contract!Prepare
  <2> QED BY <2>2 DEF Contract!Next
<1>1. ASSUME NEW t \in Sizes, StartPipelines(t) \/ StartRecreate(t) PROVE Contract!Next
  BY <1>1, <1>r DEF StartPipelines, StartRecreate
<1>2. ASSUME NEW t \in Sizes, StartFrame(t) PROVE Contract!Next
  <2>1. target = 0 /\ target' = t /\ Records' /\ Usable = t /\ Usable' = t
    BY <1>2 DEF StartFrame, Ready
  <2>2. Contract!Begin(R, t)
    BY <2>1 DEF Contract!Begin
  <2> QED BY <2>2 DEF Contract!Next
<1>3. CASE CreateGroup
  <2>1. CASE step < Len(CreateOrder)
    <3>1. UNCHANGED <<target, Usable, Records>>
      BY <1>3, <2>1 DEF CreateGroup, Ready
    <3> QED BY <3>1, <1>s
  <2>2. CASE ~(step < Len(CreateOrder))
    BY <1>3, <2>2, <1>p DEF CreateGroup
  <2> QED BY <2>1, <2>2
<1>4. CASE CreateShaders
  <2>1. CASE UNCHANGED <<pc, target, size>>
    <3>1. UNCHANGED <<target, Usable, Records>>
      BY <2>1 DEF Ready
    <3> QED BY <3>1, <1>s
  <2>2. CASE ReturnNull
    BY <1>4, <2>2, <1>f DEF CreateShaders
  <2> QED BY <1>4, <2>1, <2>2 DEF CreateShaders, CatchVulkanError
<1>5. CASE AttachmentsOOM \/ TransparencyOOM \/ CreateError \/ PipelineError
           \/ GrowError \/ FrameError \/ HostImageError
  BY <1>5, <1>f DEF AttachmentsOOM, TransparencyOOM, CreateError, PipelineError,
                    GrowError, FrameError, HostImageError, CatchVulkanError
<1>6. CASE RecreatePipelines
  BY <1>6, <1>p DEF RecreatePipelines
<1>i. CASE CreateIgnored \/ ReplaceHostImage
  <2>1. UNCHANGED <<target, Usable, Records>>
    BY <1>i DEF CreateIgnored, ReplaceHostImage, Ready
  <2> QED BY <2>1, <1>s
<1>7. CASE CountFragments \/ GrowFragments
  <2>1. pc = "frame" /\ (ReturnNull \/ (pc' = "copy" /\ UNCHANGED <<target, size>>))
    BY <1>7 DEF CountFragments, GrowFragments
  <2>2. CASE pc' = "copy" /\ UNCHANGED <<target, size>>
    <3>1. UNCHANGED <<target, Usable, Records>>
      BY <2>1, <2>2 DEF Ready
    <3> QED BY <3>1, <1>s
  <2> QED BY <2>1, <2>2, <1>f
<1>8. CASE CopyToHost
  <2>1. target # 0 /\ Records' = FALSE /\ target' = 0 /\ Usable' = target
    BY <1>8, <1>z DEF CopyToHost, Ready
  <2>2. Contract!Finish(R)
    BY <2>1 DEF Contract!Finish
  <2> QED BY <2>2 DEF Contract!Next
<1>9. CASE Close
  <2>1. target = 0 /\ target' = 0 /\ Records' = Records /\ Usable' = 0
    BY <1>9 DEF Close, Ready
  <2>2. Contract!Discard(R)
    BY <2>1 DEF Contract!Discard
  <2> QED BY <2>2 DEF Contract!Next
<1>10. CASE UNCHANGED vars
  <2>1. UNCHANGED <<target, Usable, Records>>
    BY <1>10 DEF vars, Ready
  <2> QED BY <2>1, <1>s
<1> QED
  BY <1>1, <1>2, <1>3, <1>4, <1>5, <1>6, <1>7, <1>8, <1>9, <1>10, <1>i DEF Next

\* render() keeps its contract for every set of sizes, every amount of memory
\* and every set of failing Vulkan calls: each step of the code is a step of
\* RenderTarget or leaves the target, recording and the usable size alone.
THEOREM TargetIsKept == Spec => KeepsTarget
<1>1. Init => Contract!Init
  <2> SUFFICES ASSUME Init PROVE Contract!Init
    OBVIOUS
  <2>1. target = 0 /\ size = 0 /\ (pc \in {"frame", "copy"}) = FALSE
    BY DEF Init
  <2>2. Usable = 0
    BY <2>1 DEF Usable
  <2> QED BY <2>1, <2>2 DEF Contract!Init
<1>2. ResourceInv /\ LeakInv /\ TargetInv => UsableIsSize
  BY UsableFacts
<1>3. Spec => [](ResourceInv /\ LeakInv /\ TargetInv)
  BY ResourcesTracked, LeakInvariant, TargetStep, PTL DEF Spec
<1>4. /\ ResourceInv /\ TargetInv /\ UsableIsSize /\ ResourceInv' /\ UsableIsSize'
      /\ [Next]_vars
      => [Contract!Next]_(Contract!vars)
  BY ContractStep
<1> QED BY <1>1, <1>2, <1>3, <1>4, PTL DEF Spec, KeepsTarget, Contract!Spec

-----------------------------------------------------------------------------
(* Which failures the properties that do not hold in general depend on.    *)

\* As long as no unchecked allocation fails, the unchecked buffers of an
\* initialized renderer, or those a recreation has come past, are not null.
CheckedInv ==
    /\ pc = "create" =>
          \A i \in 1 .. step - 1 : CreateOrder[i] \in Unchecked => handle[CreateOrder[i]] # "null"
    /\ pc \in {"pipelines", "frame", "copy"} \/ (pc = "idle" /\ initialized) =>
          \A g \in Unchecked : handle[g] # "null"

\* Every step but an ignored failure keeps it.
LEMMA CheckedStep ==
    ASSUME "alloc" \notin Faults
    PROVE  ResourceInv /\ CheckedInv /\ [Next]_vars => CheckedInv'
<1> SUFFICES ASSUME ResourceInv, CheckedInv, [Next]_vars PROVE CheckedInv'
  OBVIOUS
<1> USE DEF CheckedInv
<1>h. handle \in Handles
  BY DEF ResourceInv, TypeOK, Handles
<1>u. Unchecked \subseteq Groups /\ Unchecked \cap Pipelines = {} /\ Unchecked \subseteq CreatedGroups
  <2>1. Unchecked \subseteq OwnGroups
    BY DEF Unchecked, OwnGroups
  <2> QED BY <2>1, NulledFacts, CreateOrderFacts
<1>n. ReturnNull => CheckedInv'
  BY DEF ReturnNull
<1>1. ASSUME NEW s \in Sizes, StartPipelines(s) PROVE CheckedInv'
  <2>1. initialized
    BY <1>1, ResourceAssumption DEF StartPipelines, ResourceInv, SizeMeansInitialized
  <2>2. \A g \in Unchecked : handle'[g] = handle[g]
    BY <1>1, <1>h, <1>u, DestroyedKeeps DEF StartPipelines
  <2> QED BY <1>1, <2>1, <2>2 DEF StartPipelines
<1>2. ASSUME NEW s \in Sizes, StartRecreate(s) PROVE CheckedInv'
  BY <1>2 DEF StartRecreate
<1>3. ASSUME NEW s \in Sizes, StartFrame(s) PROVE CheckedInv'
  BY <1>3 DEF StartFrame
<1>4. CASE CreateGroup
  <2>1. pc = "create" /\ handle' = [handle EXCEPT ![CreateOrder[step]] = "live"]
    BY <1>4 DEF CreateGroup, Created, Group
  <2>2. step \in 1 .. Len(CreateOrder) /\ Len(CreateOrder) \in Nat
    BY CreateOrderFacts DEF ResourceInv, TypeOK
  <2>3. ASSUME NEW i \in 1 .. step, CreateOrder[i] \in Unchecked
        PROVE  handle'[CreateOrder[i]] # "null"
    <3>1. CASE CreateOrder[i] = CreateOrder[step]
      BY <2>1, <2>3, <3>1, <1>h, <1>u DEF Handles
    <3>2. CASE CreateOrder[i] # CreateOrder[step]
      <4>1. i \in 1 .. step - 1
        BY <2>2, <3>2
      <4>2. handle[CreateOrder[i]] # "null"
        BY <4>1, <2>1, <2>3
      <4> QED BY <4>2, <3>2, <2>1, <2>3, <1>h, <1>u DEF Handles
    <3> QED BY <3>1, <3>2
  <2>4. CASE step < Len(CreateOrder)
    <3>1. pc' = "create" /\ step' = step + 1
      BY <2>1, <2>4, <1>4 DEF CreateGroup
    <3> QED BY <3>1, <2>2, <2>3
  <2>5. CASE ~(step < Len(CreateOrder))
    <3>1. pc' = "frame"
      BY <2>5, <1>4 DEF CreateGroup
    <3>2. \A g \in Unchecked : handle'[g] # "null"
      <4> SUFFICES ASSUME NEW g \in Unchecked PROVE handle'[g] # "null"
        OBVIOUS
      <4>1. PICK i \in 1 .. Len(CreateOrder) : g = CreateOrder[i]
        BY <1>u, CreateOrderFacts
      <4> QED BY <4>1, <2>2, <2>3, <2>5
    <3> QED BY <3>1, <3>2
  <2> QED BY <2>4, <2>5
<1>5. CASE CreateShaders
  BY <1>5, <1>n DEF CreateShaders, CatchVulkanError
<1>6. CASE AttachmentsOOM \/ TransparencyOOM \/ CreateError \/ PipelineError
           \/ GrowError \/ FrameError \/ HostImageError
  BY <1>6, <1>n DEF AttachmentsOOM, TransparencyOOM, CreateError, PipelineError,
                    GrowError, FrameError, HostImageError, CatchVulkanError
<1>7. CASE CreateIgnored
  BY <1>7 DEF CreateIgnored
<1>8. CASE RecreatePipelines
  BY <1>8, <1>u DEF RecreatePipelines
<1>9. CASE CountFragments \/ CopyToHost
  BY <1>9 DEF CountFragments, CopyToHost, ResourceInv
<1>10. CASE GrowFragments
  <2>1. pc = "frame" /\ (ReturnNull \/ (pc' = "copy" /\ UNCHANGED handle))
    BY <1>10 DEF GrowFragments
  <2> QED BY <2>1, <1>n
<1>11. CASE ReplaceHostImage
  <2>1. \A g \in Unchecked : handle'[g] = handle[g]
    BY <1>11, <1>h, <1>u, HostReplacedFacts, HostApart DEF ReplaceHostImage
  <2> QED BY <1>11, <2>1 DEF ReplaceHostImage
<1>12. CASE Close
  BY <1>12 DEF Close
<1>13. CASE UNCHANGED vars
  BY <1>13 DEF vars
<1> QED
  BY <1>1, <1>2, <1>3, <1>4, <1>5, <1>6, <1>7, <1>8, <1>9, <1>10, <1>11, <1>12, <1>13 DEF Next

\* Every object a frame uses exists, whatever Vulkan call fails, as long as
\* no allocation does whose failure is ignored.
THEOREM FramesUseLiveObjects == ASSUME "alloc" \notin Faults PROVE Spec => []FrameObjectsLive
<1>1. Init => CheckedInv
  BY DEF Init, CheckedInv
<1>2. ResourceInv /\ CheckedInv /\ [Next]_vars => CheckedInv'
  BY CheckedStep
<1>3. ResourceInv /\ CheckedInv => FrameObjectsLive
  BY DEF ResourceInv, CheckedInv, FrameObjectsInPlace, FrameObjectsLive, InPlace
<1> QED BY <1>1, <1>2, <1>3, ResourcesTracked, PTL DEF Spec

\* A recorded size means an image with its memory, as no creation of them fails.
HostInv == hostSize # 0 => \A g \in HostGroups : handle[g] = "live"

\* cleanup() and the recreations leave the host image alone.
LEMMA HostUntouched ==
    ASSUME NEW h \in Handles, NEW gs \in SUBSET CreatedGroups, NEW kept
    PROVE  \A g \in HostGroups : Destroyed(h, gs, kept)[g] = h[g]
BY DestroyedKeeps, CreateOrderFacts, HostApart

\* A new renderer has no host image.
LEMMA HostFresh == \A h \in FreshHandles : \A g \in HostGroups : h[g] = "null"
<1>1. "attachments" \notin HostGroups
  BY DEF HostGroups
<1> QED BY <1>1, CreateOrderFacts DEF FreshHandles

\* Every step but a failed creation of the host image keeps it.
LEMMA HostStep ==
    ASSUME "host" \notin Faults
    PROVE  ResourceInv /\ HostInv /\ [Next]_vars => HostInv'
<1> SUFFICES ASSUME ResourceInv, HostInv, [Next]_vars PROVE HostInv'
  OBVIOUS
<1>h. handle \in Handles
  BY DEF ResourceInv, TypeOK, Handles
<1>u. ASSUME \A g \in HostGroups : handle'[g] = handle[g], hostSize' = hostSize PROVE HostInv'
  BY <1>u DEF HostInv
<1>e. ASSUME NEW h \in Handles, \A g \in HostGroups : h[g] = handle[g], cleanup(h)
      PROVE  \A g \in HostGroups : handle'[g] = handle[g]
  BY <1>e, HostApart, HostUntouched DEF cleanup
<1>1. ASSUME NEW s \in Sizes, StartPipelines(s) PROVE HostInv'
  BY <1>1, <1>h, <1>u, HostApart, HostUntouched DEF StartPipelines
<1>2. ASSUME NEW s \in Sizes, StartRecreate(s) PROVE HostInv'
  <2>1. CASE initialized
    BY <2>1, <1>2, <1>h, <1>u, HostApart, HostUntouched DEF StartRecreate
  <2>2. CASE ~initialized
    BY <2>2, <1>2, <1>u DEF StartRecreate
  <2> QED BY <2>1, <2>2
<1>3. CASE \/ \E s \in Sizes : StartFrame(s)
           \/ CountFragments \/ CopyToHost \/ UNCHANGED vars
  BY <1>3, <1>u DEF StartFrame, CountFragments, CopyToHost, vars
<1>4. CASE CreateGroup \/ CreateIgnored
  <2>1. CreateOrder[step] \in CreatedGroups
    BY CreateOrderFacts DEF ResourceInv, TypeOK
  <2>2. /\ hostSize' = hostSize
        /\ \E v : handle' = [handle EXCEPT ![CreateOrder[step]] = v]
    BY <1>4 DEF CreateGroup, CreateIgnored, Created, Group
  <2>3. \A g \in HostGroups : handle'[g] = handle[g]
    BY <2>1, <2>2, <1>h, HostApart, CreateOrderFacts DEF Handles
  <2> QED BY <2>2, <2>3, <1>u
<1>5. CASE CreateShaders
  BY <1>5, <1>h, <1>u, <1>e DEF CreateShaders, CatchVulkanError
<1>6. CASE AttachmentsOOM
  BY <1>6, <1>h, <1>u, HostApart, HostUntouched DEF AttachmentsOOM
<1>7. CASE TransparencyOOM
  <2> DEFINE h == Destroyed(handle, TransparencyGroups, {})
  <2>1. h \in Handles /\ \A g \in HostGroups : h[g] = handle[g]
    BY <1>h, HostApart, DestroyedType, HostUntouched
  <2>2. cleanup(h) /\ hostSize' = hostSize
    BY <1>7 DEF TransparencyOOM
  <2> HIDE DEF h
  <2> QED BY <2>1, <2>2, <1>e, <1>u
<1>8. CASE CreateError \/ PipelineError \/ FrameError
  BY <1>8, <1>h, <1>e, <1>u DEF CreateError, PipelineError, FrameError, CatchVulkanError
<1>9. CASE RecreatePipelines
  BY <1>9, <1>h, <1>u, HostApart, CreateOrderFacts DEF RecreatePipelines
<1>10. CASE GrowFragments
  <2> DEFINE h1 == [handle EXCEPT !["fragments"] = "null", !["depthFrags"] = "dangling"]
             h2 == [handle EXCEPT !["depthFrags"] = "null"]
  <2>1. handle' = handle \/ cleanup(h1) \/ cleanup(h2)
    BY <1>10 DEF GrowFragments
  <2>2. h1 \in Handles /\ h2 \in Handles
    BY <1>h DEF Handles
  <2>3. \A g \in HostGroups : h1[g] = handle[g] /\ h2[g] = handle[g]
    BY <1>h, HostApart, CreateOrderFacts DEF Handles
  <2>4. hostSize' = hostSize
    BY <1>10 DEF GrowFragments
  <2> HIDE DEF h1, h2
  <2> QED BY <2>1, <2>2, <2>3, <2>4, <1>e, <1>u
<1>11. CASE GrowError
  <2>1. PICK made \in 0 .. 2 : CatchVulkanError(Regrown(made))
    BY <1>11 DEF GrowError, Regrown
  <2>2. Regrown(made) \in Handles /\ \A g \in HostGroups : Regrown(made)[g] = handle[g]
    BY <1>h, RegrownFacts, HostApart, CreateOrderFacts
  <2>3. hostSize' = hostSize
    BY <1>11 DEF GrowError
  <2> QED BY <2>1, <2>2, <2>3, <1>e, <1>u DEF CatchVulkanError
<1>12. CASE ReplaceHostImage
  BY <1>12, <1>h, HostReplacedFacts DEF ReplaceHostImage, HostInv
<1>13. CASE HostImageError
  BY <1>13 DEF HostImageError
<1>14. CASE Close
  BY <1>14 DEF Close, HostInv
<1> QED
  BY <1>1, <1>2, <1>3, <1>4, <1>5, <1>6, <1>7, <1>8, <1>9, <1>10, <1>11, <1>12, <1>13,
     <1>14 DEF Next

\* The image the pixels are read from and its memory exist, whatever else
\* fails, as long as no creation of the two does.
THEOREM HostImageIsLive == ASSUME "host" \notin Faults PROVE Spec => []HostImageLive
<1>1. Init => HostInv
  BY DEF Init, HostInv
<1>2. ResourceInv /\ HostInv /\ [Next]_vars => HostInv'
  BY HostStep
<1>3. HostInv /\ TargetInv => HostImageLive
  BY ResourceAssumption DEF HostInv, HostImageLive, TargetInv, TargetWhileBusy
<1> QED BY <1>1, <1>2, <1>3, TargetStep, ResourcesTracked, PTL DEF Spec

\* When no shader module fails to be created, the modules are there from
\* the group of the pipelines on.
ShaderInv ==
    /\ shaders # "partial"
    /\ initialized => shaders # "none"
    /\ pc \in {"pipelines", "frame", "copy"} => shaders # "none"
    /\ pc = "create" /\ step > 6 => shaders # "none"

\* Every step but a failed creation of a shader module keeps it.
LEMMA ShaderStep ==
    ASSUME "shader" \notin Faults
    PROVE  ResourceInv /\ LeakInv /\ ShaderInv /\ [Next]_vars => ShaderInv'
<1> SUFFICES ASSUME ResourceInv, LeakInv, ShaderInv, [Next]_vars PROVE ShaderInv'
  OBVIOUS
<1> USE DEF ShaderInv
<1>n. ASSUME ReturnNull, shaders' = shaders PROVE ShaderInv'
  BY <1>n DEF ReturnNull
<1>1. ASSUME NEW s \in Sizes, StartPipelines(s) PROVE ShaderInv'
  BY <1>1, ResourceAssumption DEF StartPipelines, ResourceInv, SizeMeansInitialized
<1>2. ASSUME NEW s \in Sizes, StartRecreate(s) \/ StartFrame(s) PROVE ShaderInv'
  BY <1>2 DEF StartRecreate, StartFrame
<1>3. CASE CreateGroup
  <2>1. step \in 1 .. Len(CreateOrder) /\ Len(CreateOrder) = 16 /\ CreateOrder[6] = "pipelines"
    BY CreateOrderFacts DEF ResourceInv, TypeOK, CreateOrder
  <2>2. step >= 6 => shaders # "none"
    BY <1>3, <2>1 DEF CreateGroup, Group
  <2>3. CASE step < Len(CreateOrder)
    BY <1>3, <2>1, <2>2, <2>3 DEF CreateGroup
  <2>4. CASE ~(step < Len(CreateOrder))
    BY <1>3, <2>1, <2>2, <2>4 DEF CreateGroup
  <2> QED BY <2>3, <2>4
<1>4. CASE CreateShaders
  BY <1>4 DEF CreateShaders
<1>5. CASE AttachmentsOOM \/ TransparencyOOM \/ CreateError \/ PipelineError
           \/ GrowError \/ FrameError \/ HostImageError
  BY <1>5, <1>n DEF AttachmentsOOM, TransparencyOOM, CreateError, PipelineError,
                    GrowError, FrameError, HostImageError, CatchVulkanError
<1>6. CASE RecreatePipelines \/ CountFragments \/ CopyToHost \/ ReplaceHostImage
  BY <1>6 DEF RecreatePipelines, CountFragments, CopyToHost, ReplaceHostImage
<1>i. CASE CreateIgnored
  <2>1. step \in 1 .. Len(CreateOrder) /\ Len(CreateOrder) = 16
        /\ step \notin 1 .. 6
    <3>1. step \in 1 .. Len(CreateOrder) /\ Len(CreateOrder) = 16
      BY CreateOrderFacts DEF ResourceInv, TypeOK
    <3>2. step \notin 1 .. 6
      BY <1>i, <3>1 DEF CreateIgnored, Group, Unchecked, CreateOrder
    <3> QED BY <3>1, <3>2
  <2> QED BY <1>i, <2>1 DEF CreateIgnored
<1>7. CASE GrowFragments
  <2>1. /\ pc = "frame" /\ shaders' = shaders
        /\ ReturnNull \/ (pc' = "copy" /\ UNCHANGED initialized)
    BY <1>7 DEF GrowFragments
  <2> QED BY <2>1, <1>n
<1>8. CASE Close
  BY <1>8 DEF Close
<1>9. CASE UNCHANGED vars
  BY <1>9 DEF vars
<1> QED
  BY <1>1, <1>2, <1>3, <1>4, <1>5, <1>6, <1>7, <1>8, <1>9, <1>i DEF Next

\* Pipelines are drawn with only when all their shader modules exist,
\* whatever else fails, as long as no creation of a module does.
THEOREM ShadersAreComplete == ASSUME "shader" \notin Faults PROVE Spec => []ShadersComplete
<1>1. Init => ShaderInv
  BY DEF Init, ShaderInv
<1>2. ResourceInv /\ LeakInv /\ ShaderInv /\ [Next]_vars => ShaderInv'
  BY ShaderStep
<1>3. ResourceInv /\ ShaderInv => ShadersComplete
  BY DEF ResourceInv, TypeOK, ShaderInv, ShadersComplete
<1> QED BY <1>1, <1>2, <1>3, LeakInvariant, ResourcesTracked, PTL DEF Spec

-----------------------------------------------------------------------------
(* Without failures, every object is destroyed exactly once.               *)

\* The capacities the fragment buffers can have, and a device whose memory
\* holds all buffers of every size at every one of them.
Capacities ==
    Sizes \cup {c \in Nat : \E t \in Sizes : \E n \in 0 .. Layers * t : c = (n * 11) \div 10}

MemorySuffices ==
    \A s \in Sizes, c \in Capacities :
        AttachmentCost(s) + PixelCost(s) + 2 * FragmentCost(c) <= Memory

\* Nothing has been lost or destroyed twice; what is to be created does not
\* exist; the host image exists exactly when its flag says so.
CleanInv ==
    /\ NothingLeaked /\ DestroysLiveOnly
    /\ maxFragments \in Capacities \cup {0}
    /\ pc = "idle" /\ ~initialized =>
          /\ \A g \in CreatedGroups : handle[g] # "live"
          /\ handle["ibl"] # "dangling"
    /\ pc = "create" => \A i \in step .. Len(CreateOrder) : handle[CreateOrder[i]] # "live"
    /\ \A g \in HostGroups : handle[g] = IF hostInit THEN "live" ELSE "null"

\* With such a device no step runs out of memory.
LEMMA MemoryIsEnough ==
    ASSUME ResourceInv, TargetInv, CleanInv, MemorySuffices
    PROVE  /\ pc = "create" => ~(MemoryNeeded > Memory)
           /\ pc = "create" => FragmentCapacity \in Capacities
           /\ pc = "frame" => \A n \in maxFragments + 1 .. Layers * target :
                /\ (n * 11) \div 10 \in Capacities
                /\ AttachmentCost(target) + PixelCost(target)
                     + 2 * FragmentCost((n * 11) \div 10) <= Memory
<1>t. pc \in {"create", "frame"} => target \in Sizes
  BY DEF TargetInv, TargetWhileBusy
<1>n. /\ Sizes \subseteq Nat /\ Memory \in Nat /\ Layers \in Nat /\ maxFragments \in Nat
      /\ Capacities \subseteq Nat
  BY ResourceAssumption DEF ResourceInv, TypeOK, Capacities
<1>1. ASSUME pc = "create" PROVE FragmentCapacity \in Capacities /\ ~(MemoryNeeded > Memory)
  <2>1. target \in Sizes /\ target \in Nat
    BY <1>1, <1>t, <1>n
  <2>2. FragmentCapacity \in Capacities
    BY <2>1, <1>n DEF FragmentCapacity, CleanInv, Capacities
  <2>3. FragmentCapacity \in Nat
    BY <2>2, <1>n
  <2>4. AttachmentCost(target) + PixelCost(target) + 2 * FragmentCost(FragmentCapacity) <= Memory
    BY <2>1, <2>2 DEF MemorySuffices
  <2> HIDE DEF FragmentCapacity
  <2>5. ~(MemoryNeeded > Memory)
    BY <2>1, <2>3, <2>4, <1>n
       DEF MemoryNeeded, AttachmentCost, PixelCost, FragmentCost
  <2> QED BY <2>2, <2>5
<1>2. ASSUME pc = "frame", NEW n \in maxFragments + 1 .. Layers * target
      PROVE  /\ (n * 11) \div 10 \in Capacities
             /\ AttachmentCost(target) + PixelCost(target)
                  + 2 * FragmentCost((n * 11) \div 10) <= Memory
  <2>1. target \in Sizes /\ target \in Nat
    BY <1>2, <1>t, <1>n
  <2>2. Layers * target \in Nat
    BY <2>1, <1>n
  <2>3. n \in Nat /\ n \in 0 .. Layers * target
    BY <2>2, <1>n
  <2>4. (n * 11) \div 10 \in Nat
    BY <2>3
  <2>5. (n * 11) \div 10 \in Capacities
    BY <2>1, <2>3, <2>4 DEF Capacities
  <2> QED BY <2>1, <2>5 DEF MemorySuffices
<1> QED BY <1>1, <1>2

\* Every step preserves it.
LEMMA CleanStep ==
    ASSUME Faults = {}, MemorySuffices
    PROVE  ResourceInv /\ LeakInv /\ TargetInv /\ CleanInv /\ [Next]_vars => CleanInv'
<1> SUFFICES ASSUME ResourceInv, LeakInv, TargetInv, CleanInv, [Next]_vars PROVE CleanInv'
  OBVIOUS
<1> USE DEF CleanInv, NothingLeaked, DestroysLiveOnly
<1>h. handle \in Handles
  BY DEF ResourceInv, TypeOK, Handles
<1>f. pc \in {"frame", "copy"} => initialized
  BY DEF LeakInv, BusyMeansInitialized
<1>1. ASSUME NEW s \in Sizes, StartPipelines(s) PROVE CleanInv'
  <2>1. \A g \in CreatedGroups : handle[g] # "dangling"
    BY <1>1, ResourceAssumption
       DEF StartPipelines, ResourceInv, SizeMeansInitialized, IdleInPlace, AllInPlace, InPlace
  <2>2. Dangling(handle, Pipelines) = {}
    BY <2>1, HostApart DEF Dangling
  <2>3. \A g \in HostGroups : handle'[g] = handle[g]
    BY <1>1, <1>h, HostApart, HostUntouched DEF StartPipelines
  <2> QED BY <1>1, <2>2, <2>3 DEF StartPipelines
<1>2. ASSUME NEW s \in Sizes, StartRecreate(s) PROVE CleanInv'
  <2>1. pc' = "create" /\ step' = 1
        /\ UNCHANGED <<leaked, maxFragments, hostInit>>
    BY <1>2 DEF StartRecreate
  <2>2. CASE initialized
    <3>1. \A g \in CreatedGroups : handle[g] # "dangling"
      BY <1>2, <2>2 DEF StartRecreate, ResourceInv, IdleInPlace, AllInPlace, InPlace
    <3>2. invalid' = {}
      BY <1>2, HostApart, <2>2, <3>1 DEF StartRecreate, Dangling
    <3>3. \A g \in CreatedGroups : handle'[g] # "live"
      BY <1>2, HostApart, <1>h, <2>2, DestroyedNotLive, CreateOrderFacts DEF StartRecreate
    <3>4. \A g \in HostGroups : handle'[g] = handle[g]
      BY <1>2, <1>h, HostApart, <2>2, HostUntouched DEF StartRecreate
    <3> QED BY <2>1, <3>2, <3>3, <3>4, CreateOrderFacts
  <2>3. CASE ~initialized
    BY <1>2, <2>1, <2>3, CreateOrderFacts DEF StartRecreate
  <2> QED BY <2>2, <2>3
<1>3. ASSUME NEW s \in Sizes, StartFrame(s) PROVE CleanInv'
  BY <1>3 DEF StartFrame
<1>4. CASE CreateGroup
  <2>1. /\ pc = "create" /\ UNCHANGED <<invalid, hostInit>>
        /\ handle' = [handle EXCEPT ![CreateOrder[step]] = "live"]
        /\ leaked' = {x \in {CreateOrder[step]} : handle[x] = "live"}
        /\ maxFragments' \in {maxFragments, FragmentCapacity}
    BY <1>4 DEF CreateGroup, Created, Group
  <2>2. step \in 1 .. Len(CreateOrder) /\ Len(CreateOrder) = 16
    BY CreateOrderFacts DEF ResourceInv, TypeOK
  <2>3. CreateOrder[step] \in CreatedGroups /\ CreateOrder[step] \in Groups
    BY <2>2, CreateOrderFacts
  <2>4. handle[CreateOrder[step]] # "live"
    BY <2>1, <2>2
  <2>5. leaked' = {}
    BY <2>1, <2>4
  <2>6. \A g \in HostGroups : handle'[g] = handle[g]
    BY <2>1, <2>3, <1>h, HostApart, CreateOrderFacts DEF Handles
  <2>7. maxFragments' \in Capacities \cup {0}
    BY <2>1, MemoryIsEnough
  <2>8. CASE step < Len(CreateOrder)
    <3>1. pc' = "create" /\ step' = step + 1
      BY <2>8, <2>1, <1>4 DEF CreateGroup
    <3>2. ASSUME NEW i \in step + 1 .. Len(CreateOrder) PROVE handle'[CreateOrder[i]] # "live"
      <4>1. i \in step .. Len(CreateOrder) /\ i \in 1 .. Len(CreateOrder) /\ i # step
        BY <2>2
      <4>2. handle[CreateOrder[i]] # "live"
        BY <4>1, <2>1
      <4>3. CreateOrder[i] # CreateOrder[step] /\ CreateOrder[i] \in Groups
        BY <4>1, <2>2, CreateOrderDistinct, CreateOrderFacts
      <4> QED BY <4>2, <4>3, <2>1, <1>h DEF Handles
    <3> QED BY <2>1, <2>5, <2>6, <2>7, <3>1, <3>2
  <2>9. CASE ~(step < Len(CreateOrder))
    <3>1. pc' = "frame"
      BY <2>9, <1>4 DEF CreateGroup
    <3> QED BY <2>1, <2>5, <2>6, <2>7, <3>1
  <2> QED BY <2>8, <2>9
<1>5. CASE CreateShaders
  BY <1>5 DEF CreateShaders
<1>6. CASE AttachmentsOOM \/ TransparencyOOM
  BY <1>6, MemoryIsEnough DEF AttachmentsOOM, TransparencyOOM
<1>7. CASE CreateIgnored \/ CreateError \/ PipelineError \/ GrowError \/ FrameError
           \/ HostImageError
  BY <1>7 DEF CreateIgnored, CreateError, PipelineError, GrowError, FrameError, HostImageError
<1>8. CASE RecreatePipelines
  <2>1. \A g \in HostGroups : handle'[g] = handle[g]
    BY <1>8, <1>h, HostApart, CreateOrderFacts DEF RecreatePipelines
  <2> QED BY <1>8, <2>1 DEF RecreatePipelines
<1>9. CASE CountFragments
  BY <1>9 DEF CountFragments
<1>10. CASE GrowFragments
  <2> DEFINE base == AttachmentCost(target) + PixelCost(target)
  <2>0. pc = "frame" /\ UNCHANGED <<leaked, hostInit>>
    BY <1>10 DEF GrowFragments
  <2>1. PICK n \in maxFragments + 1 .. Layers * target :
          /\ maxFragments' = (n * 11) \div 10
          /\ \/ pc' = "copy" /\ UNCHANGED <<handle, initialized, invalid>>
             \/ base + FragmentCost((n * 11) \div 10) > Memory
             \/ base + 2 * FragmentCost((n * 11) \div 10) > Memory
    BY <1>10 DEF GrowFragments
  <2>2. /\ (n * 11) \div 10 \in Capacities
        /\ base + 2 * FragmentCost((n * 11) \div 10) <= Memory
    BY <2>0, MemoryIsEnough
  <2>3. (n * 11) \div 10 \in Nat /\ target \in Nat /\ Memory \in Nat
    BY <2>2, ResourceAssumption DEF Capacities, ResourceInv, TypeOK
  <2>4. ~(base + FragmentCost((n * 11) \div 10) > Memory)
        /\ ~(base + 2 * FragmentCost((n * 11) \div 10) > Memory)
    BY <2>2, <2>3 DEF AttachmentCost, PixelCost, FragmentCost
  <2> HIDE DEF base
  <2> QED BY <2>0, <2>1, <2>2, <2>4
<1>11. CASE CopyToHost
  BY <1>11, <1>f DEF CopyToHost
<1>r. CASE ReplaceHostImage
  <2>1. /\ pc = "copy" /\ pc' = "copy" /\ UNCHANGED <<initialized, maxFragments>>
        /\ leaked' = HostForgotten(HostGroups) /\ invalid' = HostInvalid /\ hostInit'
    BY <1>r DEF ReplaceHostImage
  <2>2. leaked' = {} /\ invalid' = {}
    BY <2>1 DEF HostForgotten, HostInvalid, Dangling
  <2>3. \A g \in HostGroups : handle'[g] = "live"
    BY <1>r, <1>h, HostReplacedFacts DEF ReplaceHostImage
  <2> QED BY <2>1, <2>2, <2>3
<1>12. CASE Close
  <2> DEFINE gs == {g \in HostGroups : hostInit} \cup {"ibl"}
                   \cup (IF initialized THEN CleanupGroups \cup OwnGroups ELSE {})
  <2>1. /\ pc = "idle" /\ handle' \in FreshHandles /\ maxFragments' = 0 /\ ~hostInit'
        /\ pc' = "idle"
        /\ invalid' = Dangling(handle, gs)
        /\ leaked' = {g \in Groups \ gs : handle[g] = "live"}
    BY <1>12 DEF Close
  <2>2. \A g \in Groups : g \in CreatedGroups \/ g \in HostGroups
    BY DEF Groups
  <2>3. "ibl" \in CreatedGroups
    BY HostApart
  <2>4. ASSUME initialized PROVE invalid' = {} /\ leaked' = {}
    <3>1. \A g \in CreatedGroups : handle[g] # "dangling"
      BY <2>1, <2>4 DEF ResourceInv, IdleInPlace, AllInPlace, InPlace
    <3>2. \A g \in gs : handle[g] # "dangling"
      BY <2>3, <3>1, HostApart
    <3>3. \A g \in Groups \ gs : handle[g] # "live"
      BY <2>2, <2>4, HostApart
    <3> QED BY <2>1, <3>2, <3>3 DEF Dangling
  <2>5. ASSUME ~initialized PROVE invalid' = {} /\ leaked' = {}
    <3>1. \A g \in gs : handle[g] # "dangling"
      BY <2>1, <2>5
    <3>2. \A g \in Groups \ gs : handle[g] # "live"
      BY <2>1, <2>2, <2>5
    <3> QED BY <2>1, <3>1, <3>2 DEF Dangling
  <2>6. invalid' = {} /\ leaked' = {}
    BY <2>4, <2>5
  <2>7. /\ \A g \in Groups : handle'[g] # "live"
        /\ handle'["ibl"] # "dangling" /\ \A g \in HostGroups : handle'[g] = "null"
    BY <2>1, HostFresh, CreateOrderFacts DEF FreshHandles
  <2> HIDE DEF gs
  <2> QED BY <2>1, <2>6, <2>7, CreateOrderFacts
<1>13. CASE UNCHANGED vars
  BY <1>13 DEF vars
<1> QED
  BY <1>1, <1>2, <1>3, <1>4, <1>5, <1>6, <1>7, <1>8, <1>9, <1>10, <1>11, <1>12, <1>13, <1>r DEF Next

\* On a device with enough memory where no Vulkan call fails, every object
\* ever created is destroyed exactly once, over all sizes, draw modes,
\* growths of the fragment buffers and documents: no handle is destroyed
\* that names no object, and none is forgotten.
THEOREM CleanWithoutFailures ==
    ASSUME Faults = {}, MemorySuffices
    PROVE  Spec => [](DestroysLiveOnly /\ NothingLeaked)
<1>1. Init => CleanInv
  <2> SUFFICES ASSUME Init PROVE CleanInv
    OBVIOUS
  <2>1. /\ \A g \in Groups : handle[g] # "live"
        /\ handle["ibl"] # "dangling" /\ \A g \in HostGroups : handle[g] = "null"
    BY HostFresh, CreateOrderFacts DEF Init, FreshHandles
  <2> QED BY <2>1, CreateOrderFacts DEF Init, CleanInv, NothingLeaked, DestroysLiveOnly
<1>2. ResourceInv /\ LeakInv /\ TargetInv /\ CleanInv /\ [Next]_vars => CleanInv'
  BY CleanStep
<1>3. CleanInv => DestroysLiveOnly /\ NothingLeaked
  BY DEF CleanInv
<1> QED BY <1>1, <1>2, <1>3, TargetStep, LeakInvariant, ResourcesTracked, PTL DEF Spec
=============================================================================
