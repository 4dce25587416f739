--------------------------- MODULE PageViewBinding ---------------------------
(***************************************************************************)
(* How one V3dModelManager finds the PageView that shows its document.     *)
(* The constructor guesses, because the generator has no document yet; the *)
(* first page-view pixmap request, on a worker thread, posts a             *)
(* PageViewRebindEvent to qApp, and the GUI thread then resolves the view  *)
(* again by the url of the document.                                       *)
(*                                                                         *)
(* Every manager has an event filter on qApp, and the filter installed     *)
(* last takes every such event.  The managers of other documents are the   *)
(* environment: they may be younger than this one, and they post events.   *)
(***************************************************************************)
EXTENDS Naturals, FiniteSets, Sequences

CONSTANTS
    Views,     \* the PageViews of the process
    Own,       \* the one in the part that opens this manager's documents
    Tabbed,    \* the views are tabs of one window, not windows of their own
    SameUrl,   \* the other windows show the same file
    None,      \* a null pointer
    MaxEvents  \* bound on the PageViewRebindEvents in the queue

ASSUME ViewAssumption ==
    /\ Own \in Views
    /\ None \notin Views
    /\ Tabbed \in BOOLEAN
    /\ SameUrl \in BOOLEAN
    /\ MaxEvents \in Nat \ {0}

VARIABLES
    views,    \* the PageViews that exist
    active,   \* the one in the active window, or the visible tab
    phase,    \* of the manager: "gone", "built", "open" or "closed"
    bound,    \* m_PageView
    filterOn, \* viewports m_EventFilter is installed on
    observer, \* m_LastSeenPageViewObserver
    pending,  \* m_PendingRebindPosted
    queue,    \* the PageViewRebindEvents posted to qApp, by who posted them
    younger,  \* another manager's filter was installed after this one's
    missed    \* history: the event this manager waited for resolved nothing

envVars     == <<views, active>>
managerVars == <<phase, bound, filterOn, observer, pending>>
vars        == <<views, active, phase, bound, filterOn, observer, pending,
                 queue, younger, missed>>

TypeOK ==
    /\ views \subseteq Views
    /\ active \in views \cup {None}
    /\ phase \in {"gone", "built", "open", "closed"}
    /\ bound \in views \cup {None}
    /\ filterOn \subseteq views
    /\ observer \in Views \cup {None}
    /\ pending \in BOOLEAN
    /\ queue \in Seq({"own", "other"})
    /\ Len(queue) <= MaxEvents
    /\ younger \in BOOLEAN
    /\ missed \in BOOLEAN

Init ==
    /\ views = {}
    /\ active = None
    /\ phase = "gone"
    /\ bound = None
    /\ filterOn = {}
    /\ observer = None
    /\ pending = FALSE
    /\ queue = <<>>
    /\ younger = FALSE
    /\ missed = FALSE

-----------------------------------------------------------------------------
(* Resolution: the set of views it may return, for every order in which Qt  *)
(* lists the widgets.                                                       *)

\* Views of the windows a part of which reports the url of the document; a
\* closed document has an empty url.
resolvePageViewForDocument ==
    IF phase # "open" \/ Own \notin views THEN {}
    ELSE IF Tabbed /\ views # {Own} THEN {active} \ {None}
    ELSE IF SameUrl THEN views
    ELSE {Own}

\* The only view, or one in the active window, or any.
resolvePageViewHeuristic ==
    IF active # None /\ Cardinality(views) > 1 /\ ~Tabbed
    THEN {active}
    ELSE views

\* Mutant: the heuristic is asked first.
resolvePageView_GuessFirst ==
    IF views # {} THEN resolvePageViewHeuristic ELSE {None}

resolvePageView ==
    IF resolvePageViewForDocument # {} THEN resolvePageViewForDocument
    ELSE IF views # {} THEN resolvePageViewHeuristic
    ELSE {None}

-----------------------------------------------------------------------------
(* Windows, tabs and the documents of other managers.                       *)

OpenWindow(v) ==
    /\ v \notin views
    /\ views' = views \cup {v}
    /\ active' \in {active, v}
    /\ UNCHANGED <<managerVars, queue, younger, missed>>

\* The user activates another window or tab, or leaves the application.
Activate(v) ==
    /\ v \in views \cup {None}
    /\ v # active
    /\ active' = v
    /\ UNCHANGED <<views, managerVars, queue, younger, missed>>

\* The window of another document closes; a QPointer to its view becomes null
\* and Qt forgets the filters on it.
CloseOtherWindow(v) ==
    /\ v \in views \ {Own}
    /\ views' = views \ {v}
    /\ active' = IF active = v THEN None ELSE active
    /\ bound' = IF bound = v THEN None ELSE bound
    /\ filterOn' = filterOn \ {v}
    /\ UNCHANGED <<phase, observer, pending, queue, younger, missed>>

\* Another document's manager is constructed after this one, or goes away.
OtherManager ==
    /\ phase # "gone"
    /\ younger' = ~younger
    /\ UNCHANGED <<envVars, managerVars, queue, missed>>

OtherPosts ==
    /\ Len(queue) < MaxEvents
    /\ queue' = Append(queue, "other")
    /\ UNCHANGED <<envVars, managerVars, younger, missed>>

-----------------------------------------------------------------------------
(* The manager.                                                             *)

\* Okular loads the generator; its document() is still null.
Construct ==
    /\ phase = "gone"
    /\ Own \in views
    /\ phase' = "built"
    /\ bound' \in resolvePageView
    /\ filterOn' = {bound'} \ {None}
    /\ observer' = None
    /\ pending' = FALSE
    /\ younger' = FALSE
    /\ missed' = FALSE
    /\ UNCHANGED <<envVars, queue>>

\* loadDocument(): SetDocument() calls Clear(), which forgets the pending
\* event but not the observer.
SetDocument ==
    /\ phase \in {"built", "closed"}
    /\ phase' = "open"
    /\ pending' = FALSE
    /\ missed' = (missed \/ pending)
    /\ UNCHANGED <<envVars, bound, filterOn, observer, queue, younger>>

CloseDocument ==
    /\ phase = "open"
    /\ phase' = "closed"
    /\ UNCHANGED <<envVars, bound, filterOn, observer, pending, queue, younger, missed>>

\* Mutant: the observer is recorded, but no event is posted for a bound manager.
cacheRequest_OnlyUnbound ==
    /\ phase = "open"
    /\ Tabbed => active = Own
    /\ observer' = Own
    /\ IF observer # Own /\ ~pending /\ bound = None
       THEN /\ Len(queue) < MaxEvents
            /\ pending' = TRUE
            /\ queue' = Append(queue, "own")
       ELSE UNCHANGED <<pending, queue>>
    /\ UNCHANGED <<envVars, phase, bound, filterOn, younger, missed>>

\* A request of priority PAGEVIEW_PRIO from the document's own view; a hidden
\* tab requests nothing.
cacheRequest ==
    /\ phase = "open"
    /\ Tabbed => active = Own
    /\ observer' = Own
    /\ IF observer # Own /\ ~pending
       THEN /\ Len(queue) < MaxEvents
            /\ pending' = TRUE
            /\ queue' = Append(queue, "own")
       ELSE UNCHANGED <<pending, queue>>
    /\ UNCHANGED <<envVars, phase, bound, filterOn, younger, missed>>

\* Mutant: the filter stays on the view that is left.
rebindPageView_KeepFilter ==
    /\ phase # "gone"
    /\ ~younger
    /\ queue # <<>>
    /\ queue' = Tail(queue)
    /\ pending' = FALSE
    /\ IF pending
       THEN \E v \in resolvePageView :
              /\ bound' = IF v = None THEN bound ELSE v
              /\ filterOn' = IF v = None THEN filterOn ELSE filterOn \cup {v}
              /\ missed' = (missed \/ phase # "open")
       ELSE UNCHANGED <<bound, filterOn, missed>>
    /\ UNCHANGED <<envVars, phase, observer, younger>>

\* The event reaches this manager's filter.
rebindPageView ==
    /\ phase # "gone"
    /\ ~younger
    /\ queue # <<>>
    /\ queue' = Tail(queue)
    /\ pending' = FALSE
    /\ IF pending
       THEN \E v \in resolvePageView :
              /\ bound' = IF v = None THEN bound ELSE v
              /\ filterOn' = IF v \in {None, bound} THEN filterOn
                             ELSE (filterOn \ {bound}) \cup {v}
              /\ missed' = (missed \/ phase # "open")
       ELSE UNCHANGED <<bound, filterOn, missed>>
    /\ UNCHANGED <<envVars, phase, observer, younger>>

\* The event ends in the filter of another manager (or, while this one does
\* not exist, in none of its own).
DeliveredElsewhere ==
    /\ queue # <<>>
    /\ younger \/ phase = "gone"
    /\ queue' = Tail(queue)
    /\ missed' = (missed \/ (pending /\ Head(queue) = "own"))
    /\ UNCHANGED <<envVars, managerVars, younger>>

\* The part closes: it deletes its view and then the document with its
\* generators; the manager leaves the chains of filters.
Destruct ==
    /\ phase # "gone"
    /\ phase' = "gone"
    /\ views' = views \ {Own}
    /\ active' = IF active = Own THEN None ELSE active
    /\ bound' = None
    /\ filterOn' = {}
    /\ observer' = None
    /\ pending' = FALSE
    /\ younger' = FALSE
    /\ UNCHANGED <<queue, missed>>

Next ==
    \/ \E v \in Views : OpenWindow(v) \/ CloseOtherWindow(v)
    \/ \E v \in Views \cup {None} : Activate(v)
    \/ OtherManager \/ OtherPosts
    \/ Construct \/ SetDocument \/ CloseDocument
    \/ cacheRequest \/ rebindPageView \/ DeliveredElsewhere
    \/ Destruct

\* The event loop of the GUI thread keeps delivering what was posted, to
\* whichever filter is then the last installed.
Spec ==
    /\ Init /\ [][Next]_vars
    /\ WF_vars(rebindPageView \/ DeliveredElsewhere)

-----------------------------------------------------------------------------
(* Properties.                                                              *)

\* The event that lets rebindPageView() do its work is in the queue.
RebindComing == pending /\ \E i \in 1..Len(queue) : queue[i] = "own"

\* Once the document's view has requested a pixmap, the manager works on that
\* view or has its event on the way: however the constructor guessed, whatever
\* windows were opened, activated or closed meanwhile, the flag that limits the
\* posts to one never leaves the manager on another document's view.  The three
\* ways to miss the event are named by the history variable: another manager's
\* filter took it, a reload cleared the flag, or no document was open.
BoundToOwnView ==
    phase = "open" /\ observer = Own /\ ~missed =>
        bound = Own \/ RebindComing

\* The mouse filter is on the viewport of m_PageView and on no other: a rebind
\* removes it from the view it leaves, so that no mouse event of another
\* document's view is taken for one on this document's model.
FilterOnBoundView == filterOn = {bound} \ {None}

\* Being wrong does not last: the view is bound, or the wait ends in one of the
\* three ways to miss the event, or the document closes.
RebindHappens ==
    (phase = "open" /\ observer = Own /\ ~missed)
        ~> (bound = Own \/ missed \/ phase # "open")

\* Not true of two documents, of a reload or of a close in the wrong moment:
\* "at most one event is in flight at a time, and an in-flight event already
\* re-resolves, so skipping the post here is safe" (V3dModelManager.cpp:1114).
SkippingIsSafe ==
    phase = "open" /\ observer = Own => bound = Own \/ RebindComing

=============================================================================
