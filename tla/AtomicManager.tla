--------------------------- MODULE AtomicManager ----------------------------
(***************************************************************************)
(* What V3dModelManager promises to the user, without its threads, locks   *)
(* and request steps: every model has a look (camera and draw mode) and a  *)
(* cached frame; a frame is made in one step, from the look of that very   *)
(* moment, while a pixmap request of the document is being served; and a   *)
(* frame counts as fresh only until the look changes.                      *)
(***************************************************************************)
CONSTANTS
    Docs,      \* open documents
    Models,    \* models a document may hold
    Looks,     \* camera positions combined with draw modes
    HomeLook,  \* the look of a model that was just loaded
    NoFrame    \* no image has been cached

VARIABLES
    serving,   \* the documents a pixmap request is executing for
    loaded,    \* the models of each document
    look,      \* the present look of each model
    frame,     \* the look its cached image shows
    fresh      \* whether RenderModel() may return the cached image

vars == <<serving, loaded, look, frame, fresh>>

Blank(x) == [d \in Docs |-> [m \in Models |-> x]]

Init ==
    /\ serving = {}
    /\ loaded = [d \in Docs |-> {}]
    /\ look = Blank(HomeLook)
    /\ frame = Blank(NoFrame)
    /\ fresh = Blank(FALSE)

\* Documents are loaded and reloaded only while none of their requests runs.
Forget(d) ==
    /\ d \notin serving
    /\ loaded' = [loaded EXCEPT ![d] = {}]
    /\ look' = [look EXCEPT ![d] = [m \in Models |-> HomeLook]]
    /\ frame' = [frame EXCEPT ![d] = [m \in Models |-> NoFrame]]
    /\ fresh' = [fresh EXCEPT ![d] = [m \in Models |-> FALSE]]
    /\ UNCHANGED serving

Load(d, m) ==
    /\ d \notin serving
    /\ m \notin loaded[d]
    /\ loaded' = [loaded EXCEPT ![d] = @ \cup {m}]
    /\ look' = [look EXCEPT ![d][m] = HomeLook]
    /\ frame' = [frame EXCEPT ![d][m] = NoFrame]
    /\ fresh' = [fresh EXCEPT ![d][m] = FALSE]
    /\ UNCHANGED serving

Begin(d) ==
    /\ d \notin serving
    /\ serving' = serving \cup {d}
    /\ UNCHANGED <<loaded, look, frame, fresh>>

End(d) ==
    /\ d \in serving
    /\ serving' = serving \ {d}
    /\ UNCHANGED <<loaded, look, frame, fresh>>

\* The user moves a model: at any time, also in the middle of a request.
Input(d, m, x) ==
    /\ m \in loaded[d]
    /\ look' = [look EXCEPT ![d][m] = x]
    /\ fresh' = [fresh EXCEPT ![d][m] = FALSE]
    /\ UNCHANGED <<serving, loaded, frame>>

\* A request finds that the cached frame will not do (another size).
Invalidate(d, m) ==
    /\ d \in serving
    /\ m \in loaded[d]
    /\ fresh' = [fresh EXCEPT ![d][m] = FALSE]
    /\ UNCHANGED <<serving, loaded, look, frame>>

\* A whole RenderModel(), seen from outside.
Render(d, m) ==
    /\ d \in serving
    /\ m \in loaded[d]
    /\ frame' = [frame EXCEPT ![d][m] = look[d][m]]
    /\ fresh' = [fresh EXCEPT ![d][m] = TRUE]
    /\ UNCHANGED <<serving, loaded, look>>

Next ==
    \E d \in Docs :
        \/ Forget(d) \/ Begin(d) \/ End(d)
        \/ \E m \in Models :
             \/ Load(d, m) \/ Invalidate(d, m) \/ Render(d, m)
             \/ \E x \in Looks : Input(d, m, x)

Spec == Init /\ [][Next]_vars
=============================================================================
