-------------------------- MODULE PresentationGate --------------------------
(***************************************************************************)
(* Which window a V3dModelManager refreshes.  A document is shown by its   *)
(* PageView and, during a presentation, by a PresentationWidget as well.   *)
(* When both are on one screen only the window the user drives is          *)
(* refreshed, and while the presentation is driven the generator answers   *)
(* page-view requests with the last rendered image                         *)
(* (m_SuppressPageViewRender).                                             *)
(*                                                                         *)
(* Input events, the refresh timers and Okular's windows act on the GUI    *)
(* thread in any order; pixmap requests are served in between.  Whether a  *)
(* window shows the present state of the models of a page is all that is   *)
(* kept of its pixels.                                                     *)
(***************************************************************************)
EXTENDS FiniteSets

CONSTANTS
    Pages,         \* pages with a model
    View,          \* the viewport of m_PageView
    Presentations, \* addresses PresentationWidgets are created at
    None           \* a null pointer, and no page

ASSUME WindowAssumption ==
    /\ View \notin Presentations
    /\ None \notin Presentations \cup {View} \cup Pages

VARIABLES
    visible,    \* m_PageView->isVisible()
    sameScreen, \* both windows are on one screen
    viewport,   \* the document's current page
    button,     \* the window in which the left button was pressed and is held
    pres,       \* m_PresentationWidget
    source,     \* m_LastEventSource
    drag,       \* m_ActiveModelPage while m_Dragging
    suppress,   \* m_SuppressPageViewRender
    pages,      \* m_Pages
    sized,      \* pages with an entry in m_PresentationRequestSizes
    observer,   \* m_PageViewObserver is set
    asked,      \* pixmap requests not yet served
    fresh,      \* the pixmaps that show the present state of the models
    last        \* per page, the last rendered image of its models

Windows == {View} \cup Presentations
Pixmaps == Windows \X Pages

envVars    == <<visible, sameScreen, viewport>>
cacheVars  == <<pages, sized, observer>>
pixmapVars == <<asked, fresh, last>>
vars == <<visible, sameScreen, viewport, button, pres, source, drag, suppress, pages,
          sized, observer, asked, fresh, last>>

TypeOK ==
    /\ visible \in BOOLEAN
    /\ sameScreen \in BOOLEAN
    /\ viewport \in Pages
    /\ button \in Windows \cup {None}
    /\ pres \in Presentations \cup {None}
    /\ source \in Windows \cup {None}
    /\ drag \in Pages \cup {None}
    /\ suppress \in BOOLEAN
    /\ pages \subseteq Pages
    /\ sized \subseteq Pages
    /\ observer \in BOOLEAN
    /\ asked \subseteq Pixmaps
    /\ fresh \subseteq Pixmaps
    /\ last \in [Pages -> {"none", "old", "latest"}]

Init ==
    /\ visible = TRUE
    /\ sameScreen \in BOOLEAN
    /\ viewport \in Pages
    /\ button = None
    /\ pres = None
    /\ source = None
    /\ drag = None
    /\ suppress = FALSE
    /\ pages = {}
    /\ sized = {}
    /\ observer = FALSE
    /\ asked = {}
    /\ fresh = {}
    /\ last = [p \in Pages |-> "none"]

-----------------------------------------------------------------------------
(* The gate.                                                                *)

\* What w->inherits("PresentationWidget") may answer; w is a plain pointer, and
\* nothing can be said when the widget it pointed to is gone.
Inherits(w) ==
    IF w \in Presentations
    THEN IF w = pres THEN {TRUE} ELSE BOOLEAN
    ELSE {FALSE}

dualScreen == ~(pres # None /\ sameScreen)

\* inh: m_LastEventSource inherits PresentationWidget.
interactingWithPresentation(inh) == pres # None /\ inh

\* Mutant: the page view is refreshed by every window's events.
refreshPageView_Ungated(inh) == visible

refreshPageView(inh) ==
    visible /\ (~interactingWithPresentation(inh) \/ dualScreen)

\* The resize event re-requests the page the presentation shows.
refreshPresentation(p, inh) ==
    /\ pres # None
    /\ viewport = p
    /\ interactingWithPresentation(inh) \/ dualScreen

\* The pixmaps that are deleted and requested again.
Refreshed(p, inh) ==
    {x \in Pixmaps :
        /\ p \in pages
        /\ \/ x = <<View, p>> /\ observer /\ refreshPageView(inh)
           \/ x = <<pres, p>> /\ refreshPresentation(p, inh)}

\* Mutant: the page view is frozen on two screens as well.
suppresses_AnyScreen(p, inh) ==
    /\ p \in pages
    /\ refreshPresentation(p, inh)
    /\ interactingWithPresentation(inh)

suppresses(p, inh) ==
    /\ p \in pages
    /\ refreshPresentation(p, inh)
    /\ interactingWithPresentation(inh)
    /\ ~dualScreen

refreshPixmap(p, inh) ==
    /\ asked' = asked \cup Refreshed(p, inh)
    /\ suppress' = (suppress \/ suppresses(p, inh))

\* A model of page p was turned; no pixmap shows it as it is now.
Changed(p) ==
    /\ fresh' = fresh \ (Windows \X {p})
    /\ last' = [last EXCEPT ![p] = IF @ = "none" THEN @ ELSE "old"]

\* At most one refresh in 1/60 s; what comes earlier is dropped.
requestPixmapRefresh(p, inh) ==
    \/ refreshPixmap(p, inh)
    \/ UNCHANGED <<asked, suppress>>

\* The pages the mouse may be over: the frame of the presentation, once it has
\* requested one, or any page of the page view.
GetPageMouseIsOver(inh) ==
    IF inh THEN {p \in sized : pres # None /\ p = viewport} ELSE Pages

-----------------------------------------------------------------------------
(* Input events.                                                            *)

\* Windows whose events reach an EventFilter of the manager.
Drivable(w) == (w = View /\ visible) \/ (w = pres /\ pres # None)

\* Qt sends the mouse events of a held button to the window it was pressed in.
MouseIn(w) == Drivable(w) /\ button \in {w, None}

\* The left button on a model, or on none.
mouseButtonPressEvent(w) ==
    /\ Drivable(w)
    /\ button = None
    /\ button' = w
    /\ source' = w
    /\ drag' \in {drag} \cup GetPageMouseIsOver(w = pres)
    /\ UNCHANGED <<envVars, pres, suppress, cacheVars, pixmapVars>>

mouseMoveEvent(w) ==
    /\ MouseIn(w)
    /\ source' = w
    /\ IF drag = None
       THEN UNCHANGED <<suppress, pixmapVars>>
       ELSE Changed(drag) /\ requestPixmapRefresh(drag, w = pres)
    /\ UNCHANGED <<envVars, button, pres, drag, cacheVars>>

mouseButtonReleaseEvent(w) ==
    /\ Drivable(w)
    /\ button = w
    /\ button' = None
    /\ source' = w
    /\ drag' = None
    /\ suppress' = FALSE
    /\ UNCHANGED <<envVars, pres, cacheVars, pixmapVars>>

\* The wheel zooms the model being dragged, or that of a document which is
\* nothing but one model.
wheelEvent(w) ==
    /\ MouseIn(w)
    /\ source' = w
    /\ \E p \in (IF drag # None THEN {drag}
                 ELSE IF Cardinality(Pages) = 1 THEN Pages ELSE {}) :
          Changed(p) /\ requestPixmapRefresh(p, w = pres)
    /\ UNCHANGED <<envVars, button, pres, drag, cacheVars>>

\* H and M, in either window: the hit test and the gate go by the window of the
\* last mouse event.
keyPressEvent ==
    /\ \E inh \in Inherits(source) : \E p \in GetPageMouseIsOver(inh) :
          Changed(p) /\ refreshPixmap(p, inh)
    /\ UNCHANGED <<envVars, button, pres, source, drag, cacheVars>>

\* The timer set when an environment map has been downloaded.
refreshAfterDownload(p) ==
    /\ \E inh \in Inherits(source) : Changed(p) /\ refreshPixmap(p, inh)
    /\ UNCHANGED <<envVars, button, pres, source, drag, cacheVars>>

-----------------------------------------------------------------------------
(* The presentation window and the document.                                *)

PresentationShown(w) ==
    /\ pres = None
    /\ pres' = w
    /\ asked' = asked \cup {<<w, viewport>>}
    /\ UNCHANGED <<envVars, button, source, drag, suppress, cacheVars, fresh, last>>

\* The button held in a window that goes away is released nowhere, or over the
\* page view.
ButtonLost == button' \in (IF button = pres THEN {None, View} ELSE {button})

\* What the window requested or showed is gone with it.
OfOthers(S) == {x \in S : x[1] # pres}

\* Qt sends QEvent::Destroy from ~QWidget, where the object inherits
\* PresentationWidget no more: handlePresentationWidgetEvent() returns at once,
\* and all that the manager sees is its QPointer become null.
PresentationDestroyed ==
    /\ pres # None
    /\ pres' = None
    /\ ButtonLost
    /\ asked' = OfOthers(asked)
    /\ fresh' = OfOthers(fresh)
    /\ UNCHANGED <<envVars, source, drag, suppress, cacheVars, last>>

\* SetDocument(): Clear() while Okular drops every pixmap and request.
SetDocument ==
    /\ pages' = {}
    /\ sized' = {}
    /\ drag' = None
    /\ source' = None
    /\ suppress' = FALSE
    /\ asked' = {}
    /\ fresh' = {}
    /\ last' = [p \in Pages |-> "none"]
    /\ UNCHANGED <<envVars, button, pres, observer>>

-----------------------------------------------------------------------------
(* Okular: its windows, and the requests they make on their own.            *)

TurnPage(p) ==
    /\ p # viewport
    /\ viewport' = p
    /\ UNCHANGED <<visible, sameScreen, button, pres, source, drag, suppress, cacheVars,
                   pixmapVars>>

\* The page view is covered or uncovered.
CoverView ==
    /\ visible' = ~visible
    /\ UNCHANGED <<sameScreen, viewport, button, pres, source, drag, suppress, cacheVars,
                   pixmapVars>>

MoveToOtherScreen ==
    /\ sameScreen' = ~sameScreen
    /\ UNCHANGED <<visible, viewport, button, pres, source, drag, suppress, cacheVars,
                   pixmapVars>>

\* After scrolling, zooming, or a request that was cancelled.
Request(w, p) ==
    /\ Drivable(w)
    /\ asked' = asked \cup {<<w, p>>}
    /\ fresh' = fresh \ {<<w, p>>}
    /\ UNCHANGED <<envVars, button, pres, source, drag, suppress, cacheVars, last>>

\* Mutant: the page view gets the last image during any presentation.
generatePixmap_Presenting(w, p) ==
    /\ <<w, p>> \in asked
    /\ asked' = asked \ {<<w, p>>}
    /\ pages' = pages \cup {p}
    /\ sized' = IF w = View THEN sized ELSE sized \cup {p}
    /\ observer' = (observer \/ w = View)
    /\ IF w = View /\ pres # None /\ last[p] # "none"
       THEN /\ fresh' = IF last[p] = "latest" THEN fresh \cup {<<w, p>>}
                        ELSE fresh \ {<<w, p>>}
            /\ UNCHANGED last
       ELSE /\ fresh' = fresh \cup {<<w, p>>}
            /\ last' = [last EXCEPT ![p] = "latest"]
    /\ UNCHANGED <<envVars, button, pres, source, drag, suppress>>

\* generatePixmap(): CacheRequest(), then the last image or a new one.
generatePixmap(w, p) ==
    /\ <<w, p>> \in asked
    /\ asked' = asked \ {<<w, p>>}
    /\ pages' = pages \cup {p}
    /\ sized' = IF w = View THEN sized ELSE sized \cup {p}
    /\ observer' = (observer \/ w = View)
    /\ IF w = View /\ suppress /\ last[p] # "none"
       THEN /\ fresh' = IF last[p] = "latest" THEN fresh \cup {<<w, p>>}
                        ELSE fresh \ {<<w, p>>}
            /\ UNCHANGED last
       ELSE /\ fresh' = fresh \cup {<<w, p>>}
            /\ last' = [last EXCEPT ![p] = "latest"]
    /\ UNCHANGED <<envVars, button, pres, source, drag, suppress>>

Next ==
    \/ \E w \in Windows :
          \/ mouseButtonPressEvent(w) \/ mouseMoveEvent(w)
          \/ mouseButtonReleaseEvent(w) \/ wheelEvent(w)
    \/ keyPressEvent
    \/ \E w \in Presentations : PresentationShown(w)
    \/ PresentationDestroyed
    \/ SetDocument
    \/ CoverView
    \/ MoveToOtherScreen
    \/ \E p \in Pages : TurnPage(p) \/ refreshAfterDownload(p)
    \/ \E w \in Windows, p \in Pages : Request(w, p) \/ generatePixmap(w, p)

\* Okular serves the requests it has accepted.
Spec ==
    /\ Init /\ [][Next]_vars
    /\ \A w \in Windows, p \in Pages : WF_vars(generatePixmap(w, p))

-----------------------------------------------------------------------------
(* Properties.                                                              *)

\* On one screen no step makes both windows render, which would recreate the
\* renderer's images at two sizes on every frame of a drag.
OneWindowPerFrame ==
    [][pres # None /\ sameScreen =>
          \A x, y \in asked' \ asked : x[1] = y[1]]_vars

\* The normal window is frozen only by the one event the flag is for: a refresh
\* driven from a presentation that is there and on the same screen.  Neither a
\* pointer left over from a closed presentation nor a second screen does it.
FreezeStartsDriven ==
    [][~suppress /\ suppress' =>
          pres # None /\ sameScreen /\ source' \in Presentations]_vars

\* The normal window catches up: a pixmap it asked for when nothing was
\* suppressed comes to show the models as they are, however they were turned
\* and the windows opened and closed meanwhile, unless a presentation freezes
\* it again or the document is loaded anew.
ViewCatchesUp ==
    \A p \in Pages :
        (<<View, p>> \in asked /\ ~suppress) ~>
            (<<View, p>> \in fresh \/ suppress \/ pages = {})

\* Not true: the suppression is over by "the matching mouse release (or
\* PresentationWidget destroy)" (V3dModelManager.cpp:662).  A presentation
\* closed with the button down, or after a key, leaves the flag set, and the
\* normal window frozen until a button is released in it.
SuppressOnlyPresenting == suppress => pres # None

\* Not true: "While the user is actively driving the presentation window (same
\* screen), serve PageView requests from the last rendered image"
\* (v3d_generator.cpp:40).  A key press sets the flag and only a mouse release
\* clears it, so a drag in the normal window may find it set.
FrozenWhileDriven == suppress => source \in Presentations

\* Not true: a drag ends with its window.  "A drag in the presentation window
\* can never be released now" (V3dModelManager.cpp:1434), but m_Dragging stays
\* and the next mouse moves over the page view turn the model.
DragHasWindow == drag # None => button # None

\* Not true: the pointer read by the gate and the hit test is null or a widget
\* that exists.
SourceExists == source \in {None, View, pres}

=============================================================================
