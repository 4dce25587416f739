----------------------- MODULE PresentationGateProofs -----------------------
(***************************************************************************)
(* Proofs about PresentationGate, for any number of pages and of           *)
(* presentation windows created one after the other.                       *)
(***************************************************************************)
EXTENDS PresentationGate, TLAPS

\* A refresh asks for pixmaps of windows that exist.
LEMMA RefreshTypes ==
  ASSUME TypeOK, NEW p \in Pages, NEW inh \in BOOLEAN, requestPixmapRefresh(p, inh)
  PROVE  asked' \in SUBSET Pixmaps /\ suppress' \in BOOLEAN
  <1>1. CASE refreshPixmap(p, inh)
    BY <1>1 DEF TypeOK, refreshPixmap, Refreshed, suppresses
  <1>2. CASE UNCHANGED <<asked, suppress>>
    BY <1>2 DEF TypeOK
  <1> QED
    BY <1>1, <1>2 DEF requestPixmapRefresh

\* A turned model, with or without a refresh, keeps the types as long as the
\* windows and the caches are left alone.
LEMMA TurnTypes ==
  ASSUME TypeOK, NEW p \in Pages, NEW inh \in BOOLEAN,
         Changed(p), requestPixmapRefresh(p, inh),
         source' \in Windows \cup {None},
         UNCHANGED <<envVars, button, pres, drag, cacheVars>>
  PROVE  TypeOK'
  <1>1. /\ fresh' \in SUBSET Pixmaps
        /\ last' \in [Pages -> {"none", "old", "latest"}]
    BY DEF TypeOK, Changed, Pixmaps
  <1> QED
    BY <1>1, RefreshTypes DEF TypeOK, envVars, cacheVars

\* The mouse handlers.
LEMMA MouseTypes ==
  ASSUME TypeOK, NEW w \in Windows,
         \/ mouseButtonPressEvent(w) \/ mouseMoveEvent(w)
         \/ mouseButtonReleaseEvent(w) \/ wheelEvent(w)
  PROVE  TypeOK'
  <1>0. (w = pres) \in BOOLEAN
    OBVIOUS
  <1>1. CASE mouseButtonPressEvent(w)
    <2>1. GetPageMouseIsOver(w = pres) \subseteq Pages
      BY DEF GetPageMouseIsOver, TypeOK
    <2>2. drag' \in Pages \cup {None}
      BY <1>1, <2>1 DEF mouseButtonPressEvent, TypeOK
    <2> QED
      BY <1>1, <2>2 DEF mouseButtonPressEvent, TypeOK, envVars, cacheVars, pixmapVars
  <1>2. CASE mouseMoveEvent(w)
    <2>1. CASE drag = None
      BY <1>2, <2>1 DEF mouseMoveEvent, TypeOK, envVars, cacheVars, pixmapVars
    <2>2. CASE drag # None
      <3>1. drag \in Pages /\ Changed(drag) /\ requestPixmapRefresh(drag, w = pres)
        BY <1>2, <2>2 DEF mouseMoveEvent, TypeOK
      <3>2. source' \in Windows \cup {None} /\ UNCHANGED <<envVars, button, pres, drag, cacheVars>>
        BY <1>2 DEF mouseMoveEvent
      <3> QED
        BY <1>0, <3>1, <3>2, TurnTypes
    <2> QED
      BY <2>1, <2>2
  <1>3. CASE mouseButtonReleaseEvent(w)
    BY <1>3 DEF mouseButtonReleaseEvent, TypeOK, envVars, cacheVars, pixmapVars
  <1>4. CASE wheelEvent(w)
    <2>1. PICK p \in Pages : Changed(p) /\ requestPixmapRefresh(p, w = pres)
      BY <1>4 DEF wheelEvent, TypeOK
    <2>2. source' \in Windows \cup {None} /\ UNCHANGED <<envVars, button, pres, drag, cacheVars>>
      BY <1>4 DEF wheelEvent
    <2> QED
      BY <1>0, <2>1, <2>2, TurnTypes
  <1> QED
    BY <1>1, <1>2, <1>3, <1>4

\* A key or the timer after a download turns a model and refreshes, by the window
\* the last mouse event came from.
LEMMA KeyRefreshes ==
  ASSUME TypeOK, keyPressEvent \/ \E p \in Pages : refreshAfterDownload(p)
  PROVE  /\ \E inh \in Inherits(source), p \in Pages : Changed(p) /\ refreshPixmap(p, inh)
         /\ UNCHANGED <<envVars, button, pres, source, drag, cacheVars>>
  <1>1. \A inh \in BOOLEAN : GetPageMouseIsOver(inh) \subseteq Pages
    BY DEF GetPageMouseIsOver, TypeOK
  <1>2. Inherits(source) \subseteq BOOLEAN
    BY DEF Inherits
  <1> QED
    BY <1>1, <1>2 DEF keyPressEvent, refreshAfterDownload

\* Keys, and the timer after a download.
LEMMA KeyTypes ==
  ASSUME TypeOK, keyPressEvent \/ \E p \in Pages : refreshAfterDownload(p)
  PROVE  TypeOK'
  <1>1. Inherits(source) \subseteq BOOLEAN
    BY DEF Inherits
  <1>2. PICK inh \in BOOLEAN, p \in Pages : Changed(p) /\ refreshPixmap(p, inh)
    BY <1>1, KeyRefreshes
  <1>3. UNCHANGED <<envVars, button, pres, source, drag, cacheVars>>
    BY KeyRefreshes
  <1>4. source' \in Windows \cup {None}
    BY <1>3 DEF TypeOK
  <1> QED
    BY <1>2, <1>3, <1>4, TurnTypes DEF requestPixmapRefresh

\* The presentation window appears and goes.
LEMMA PresentationTypes ==
  ASSUME TypeOK, PresentationDestroyed \/ \E w \in Presentations : PresentationShown(w)
  PROVE  TypeOK'
  <1>1. ASSUME NEW w \in Presentations, PresentationShown(w)
        PROVE  TypeOK'
    <2>1. <<w, viewport>> \in Pixmaps
      BY DEF Pixmaps, Windows, TypeOK
    <2> QED
      BY <1>1, <2>1 DEF PresentationShown, TypeOK, envVars, cacheVars
  <1>2. CASE PresentationDestroyed
    <2>1. pres' = None /\ button' \in Windows \cup {None}
      BY <1>2 DEF PresentationDestroyed, ButtonLost, TypeOK, Windows
    <2> QED
      BY <1>2, <2>1 DEF PresentationDestroyed, OfOthers, TypeOK, envVars, cacheVars
  <1> QED
    BY <1>1, <1>2

\* The document, and what Okular's windows do on their own.
LEMMA WindowsTypes ==
  ASSUME TypeOK,
         \/ SetDocument \/ CoverView \/ MoveToOtherScreen
         \/ \E p \in Pages : TurnPage(p)
  PROVE  TypeOK'
  <1>1. CASE SetDocument
    BY <1>1 DEF SetDocument, TypeOK, envVars
  <1>2. CASE CoverView
    BY <1>2 DEF CoverView, TypeOK, cacheVars, pixmapVars
  <1>3. CASE MoveToOtherScreen
    BY <1>3 DEF MoveToOtherScreen, TypeOK, cacheVars, pixmapVars
  <1>4. CASE \E p \in Pages : TurnPage(p)
    BY <1>4 DEF TurnPage, TypeOK, cacheVars, pixmapVars
  <1> QED
    BY <1>1, <1>2, <1>3, <1>4

\* Requests and answers.
LEMMA PixmapTypes ==
  ASSUME TypeOK, NEW w \in Windows, NEW p \in Pages,
         Request(w, p) \/ generatePixmap(w, p)
  PROVE  TypeOK'
  <1>0. <<w, p>> \in Pixmaps
    BY DEF Pixmaps
  <1>1. CASE Request(w, p)
    BY <1>0, <1>1 DEF Request, TypeOK, envVars, cacheVars
  <1>2. CASE generatePixmap(w, p)
    <2> DEFINE stale == w = View /\ suppress /\ last[p] # "none"
    <2>1. /\ asked' = asked \ {<<w, p>>}
          /\ pages' \subseteq Pages /\ sized' \subseteq Pages /\ observer' \in BOOLEAN
          /\ UNCHANGED <<envVars, button, pres, source, drag, suppress>>
      BY <1>2 DEF generatePixmap, TypeOK
    <2>2. fresh' \in SUBSET Pixmaps /\ last' \in [Pages -> {"none", "old", "latest"}]
      <3>1. CASE stale
        BY <1>0, <1>2, <3>1 DEF generatePixmap, TypeOK
      <3>2. CASE ~stale
        BY <1>0, <1>2, <3>2 DEF generatePixmap, TypeOK
      <3> QED
        BY <3>1, <3>2
    <2> QED
      BY <2>1, <2>2 DEF TypeOK, envVars
  <1> QED
    BY <1>1, <1>2

\* Type correctness of the gate: in every state the windows, the pages and the
\* outstanding requests are of the kinds the handlers take them for.
THEOREM GateTypes == Spec => []TypeOK
  <1>1. Init => TypeOK
    BY DEF Init, TypeOK
  <1>2. TypeOK /\ [Next]_vars => TypeOK'
    <2> SUFFICES ASSUME TypeOK, [Next]_vars PROVE TypeOK'
      OBVIOUS
    <2>1. CASE UNCHANGED vars
      BY <2>1 DEF vars, TypeOK
    <2>2. CASE Next
      BY <2>2, MouseTypes, KeyTypes, PresentationTypes, WindowsTypes, PixmapTypes DEF Next
    <2> QED
      BY <2>1, <2>2
  <1> QED
    BY <1>1, <1>2, PTL DEF Spec

\* A refresh that sets the flag is driven from the presentation, on one screen.
LEMMA FlagSetDriven ==
  ASSUME NEW p, NEW inh \in BOOLEAN, requestPixmapRefresh(p, inh), ~suppress, suppress'
  PROVE  pres # None /\ sameScreen /\ inh
  <1>1. refreshPixmap(p, inh)
    BY DEF requestPixmapRefresh
  <1>2. suppresses(p, inh)
    BY <1>1 DEF refreshPixmap
  <1> QED
    BY <1>2 DEF suppresses, interactingWithPresentation, dualScreen

\* refreshPixmap() freezes the page view only when the refresh comes from the
\* presentation that is shown, on the page view's screen: no other step does.
THEOREM FreezeIsDriven == Spec => FreezeStartsDriven
  <1>1. ASSUME TypeOK, [Next]_vars, ~suppress, suppress'
        PROVE  pres # None /\ sameScreen /\ source' \in Presentations
    <2>1. ASSUME NEW w \in Windows, mouseMoveEvent(w) \/ wheelEvent(w)
          PROVE  pres # None /\ sameScreen /\ source' \in Presentations
      <3>1. source' = w /\ (w = pres) \in BOOLEAN
        BY <2>1 DEF mouseMoveEvent, wheelEvent
      <3>2. PICK p : requestPixmapRefresh(p, w = pres)
        BY <1>1, <2>1 DEF mouseMoveEvent, wheelEvent
      <3>3. pres # None /\ sameScreen /\ w = pres
        BY <1>1, <3>1, <3>2, FlagSetDriven
      <3> QED
        BY <1>1, <3>1, <3>3 DEF TypeOK
    <2>2. CASE keyPressEvent \/ \E p \in Pages : refreshAfterDownload(p)
      <3>1. PICK inh \in Inherits(source), p \in Pages : refreshPixmap(p, inh)
        BY <1>1, <2>2, KeyRefreshes
      <3>2. inh \in BOOLEAN /\ (inh => source \in Presentations)
        BY DEF Inherits
      <3>3. pres # None /\ sameScreen /\ inh
        BY <1>1, <3>1, <3>2, FlagSetDriven DEF requestPixmapRefresh
      <3> QED
        BY <1>1, <2>2, <3>2, <3>3, KeyRefreshes
    <2>3. ASSUME NEW w \in Windows, mouseButtonPressEvent(w) \/ mouseButtonReleaseEvent(w)
          PROVE  FALSE
      BY <1>1, <2>3 DEF mouseButtonPressEvent, mouseButtonReleaseEvent
    <2>4. CASE PresentationDestroyed \/ \E w \in Presentations : PresentationShown(w)
      BY <1>1, <2>4 DEF PresentationDestroyed, PresentationShown
    <2>5. CASE SetDocument \/ CoverView \/ MoveToOtherScreen \/ \E p \in Pages : TurnPage(p)
      BY <1>1, <2>5 DEF SetDocument, CoverView, MoveToOtherScreen, TurnPage
    <2>6. ASSUME NEW w \in Windows, NEW p \in Pages, Request(w, p) \/ generatePixmap(w, p)
          PROVE  FALSE
      BY <1>1, <2>6 DEF Request, generatePixmap
    <2>7. CASE UNCHANGED vars
      BY <1>1, <2>7 DEF vars
    <2> QED
      BY <1>1, <2>1, <2>2, <2>3, <2>4, <2>5, <2>6, <2>7 DEF Next
  <1>2. TypeOK /\ [Next]_vars =>
            [~suppress /\ suppress' =>
               pres # None /\ sameScreen /\ source' \in Presentations]_vars
    BY <1>1
  <1> QED
    BY <1>2, GateTypes, PTL DEF Spec, FreezeStartsDriven

\* A refresh on one screen asks one window.
LEMMA RefreshAsksOne ==
  ASSUME NEW p, NEW inh \in BOOLEAN, pres # None, sameScreen, refreshPixmap(p, inh)
  PROVE  \A x, y \in asked' \ asked : x[1] = y[1]
  <1>1. CASE inh
    BY <1>1 DEF refreshPixmap, Refreshed, refreshPageView, interactingWithPresentation,
       dualScreen
  <1>2. CASE ~inh
    BY <1>2 DEF refreshPixmap, Refreshed, refreshPresentation,
       interactingWithPresentation, dualScreen
  <1> QED
    BY <1>1, <1>2

\* On one screen no step, of whatever kind, asks both windows to render.
THEOREM OneWindowRenders == Spec => OneWindowPerFrame
  <1>1. ASSUME [Next]_vars, pres # None, sameScreen
        PROVE  \A x, y \in asked' \ asked : x[1] = y[1]
    <2> DEFINE One == \A x, y \in asked' \ asked : x[1] = y[1]
    <2>0. asked' \subseteq asked => One
      OBVIOUS
    <2>1. ASSUME NEW p, NEW inh \in BOOLEAN, requestPixmapRefresh(p, inh)
          PROVE  One
      BY <1>1, <2>0, <2>1, RefreshAsksOne DEF requestPixmapRefresh
    <2>2. ASSUME NEW w \in Windows,
                 \/ mouseButtonPressEvent(w) \/ mouseMoveEvent(w)
                 \/ mouseButtonReleaseEvent(w) \/ wheelEvent(w)
          PROVE  One
      <3>1. CASE mouseButtonPressEvent(w) \/ mouseButtonReleaseEvent(w)
        BY <3>1, <2>0 DEF mouseButtonPressEvent, mouseButtonReleaseEvent, pixmapVars
      <3>2. CASE mouseMoveEvent(w)
        BY <3>2, <2>0, <2>1 DEF mouseMoveEvent, pixmapVars
      <3>3. CASE wheelEvent(w)
        BY <3>3, <2>1 DEF wheelEvent
      <3> QED
        BY <2>2, <3>1, <3>2, <3>3
    <2>3. CASE keyPressEvent \/ \E p \in Pages : refreshAfterDownload(p)
      <3>1. \A w : Inherits(w) \subseteq BOOLEAN
        BY DEF Inherits
      <3>2. PICK inh \in BOOLEAN : \E p : refreshPixmap(p, inh)
        BY <2>3, <3>1 DEF keyPressEvent, refreshAfterDownload
      <3> QED
        BY <1>1, <3>2, RefreshAsksOne
    <2>4. CASE PresentationDestroyed
      BY <2>4 DEF PresentationDestroyed, OfOthers
    <2>5. CASE \E w \in Presentations : PresentationShown(w)
      BY <1>1, <2>5 DEF PresentationShown
    <2>6. CASE SetDocument \/ CoverView \/ MoveToOtherScreen
               \/ \E p \in Pages : TurnPage(p)
      BY <2>0, <2>6 DEF SetDocument, CoverView, MoveToOtherScreen, TurnPage, pixmapVars
    <2>7. ASSUME NEW w \in Windows, NEW p \in Pages,
                 Request(w, p) \/ generatePixmap(w, p)
          PROVE  One
      <3>1. CASE Request(w, p)
        BY <3>1 DEF Request
      <3>2. CASE generatePixmap(w, p)
        BY <2>0, <3>2 DEF generatePixmap
      <3> QED
        BY <2>7, <3>1, <3>2
    <2>8. CASE UNCHANGED vars
      BY <2>0, <2>8 DEF vars
    <2> QED
      BY <1>1, <2>2, <2>3, <2>4, <2>5, <2>6, <2>7, <2>8 DEF Next
  <1>2. [Next]_vars =>
            [pres # None /\ sameScreen =>
               \A x, y \in asked' \ asked : x[1] = y[1]]_vars
    BY <1>1
  <1> QED
    BY <1>2, PTL DEF Spec, OneWindowPerFrame

=============================================================================
