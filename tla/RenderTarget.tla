---------------------------- MODULE RenderTarget ----------------------------
(***************************************************************************)
(* What HeadlessRenderer::render() promises about its target, without the  *)
(* Vulkan objects and without the scene: a renderer has its objects ready  *)
(* for one size or for none; a frame is recorded only while they are ready *)
(* for its size; a call that returns an image leaves them so, and a call   *)
(* that fails leaves nothing to reuse.  RendererResources shows that the   *)
(* code keeps this promise, SceneRenderer that it relies on no more.       *)
(***************************************************************************)
CONSTANTS
    Renderers,  \* one HeadlessRenderer per document
    Sizes       \* target sizes, none of them 0

VARIABLES
    busy,       \* the size render() was asked for, 0 when it is not running
    recording,  \* whether it has come to record the frame
    ready       \* the size all objects of a frame are in place for, or 0

vars == <<busy, recording, ready>>

Init ==
    /\ busy = [r \in Renderers |-> 0]
    /\ recording = [r \in Renderers |-> FALSE]
    /\ ready = [r \in Renderers |-> 0]

\* render() is called and finds everything it needs, ...
Begin(r, s) ==
    /\ busy[r] = 0 /\ ready[r] = s
    /\ busy' = [busy EXCEPT ![r] = s]
    /\ recording' = [recording EXCEPT ![r] = TRUE]
    /\ UNCHANGED ready

\* ... or gives up what it has, to create it again for this frame.
Recreate(r, s) ==
    /\ busy[r] = 0
    /\ busy' = [busy EXCEPT ![r] = s]
    /\ ready' = [ready EXCEPT ![r] = 0]
    /\ UNCHANGED recording

\* Everything the frame needs has been created.
Prepare(r) ==
    /\ busy[r] # 0 /\ ~recording[r]
    /\ recording' = [recording EXCEPT ![r] = TRUE]
    /\ ready' = [ready EXCEPT ![r] = busy[r]]
    /\ UNCHANGED busy

\* render() returns an image; what was created for it stays ready.
Finish(r) ==
    /\ busy[r] # 0
    /\ busy' = [busy EXCEPT ![r] = 0]
    /\ recording' = [recording EXCEPT ![r] = FALSE]
    /\ ready' = [ready EXCEPT ![r] = busy[r]]

\* render() returns nullptr.
Fail(r) ==
    /\ busy[r] # 0
    /\ busy' = [busy EXCEPT ![r] = 0]
    /\ recording' = [recording EXCEPT ![r] = FALSE]
    /\ ready' = [ready EXCEPT ![r] = 0]

\* The renderer is destroyed and the next document gets a new one.
Discard(r) ==
    /\ busy[r] = 0
    /\ ready' = [ready EXCEPT ![r] = 0]
    /\ UNCHANGED <<busy, recording>>

Next ==
    \E r \in Renderers :
        \/ \E s \in Sizes : Begin(r, s) \/ Recreate(r, s)
        \/ Prepare(r) \/ Finish(r) \/ Fail(r) \/ Discard(r)

Spec == Init /\ [][Next]_vars
=============================================================================
