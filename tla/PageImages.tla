----------------------------- MODULE PageImages -----------------------------
(***************************************************************************)
(* What the PDF generator's image() keeps between pixmap requests: the     *)
(* poppler output of up to MaxEntries pages (m_BackgroundCache), onto      *)
(* which the 3D models are painted, and the last page it finished          *)
(* (m_LastPageImage), served to the page view while the user drags a model *)
(* in the presentation window.                                             *)
(*                                                                         *)
(* A request runs step by step on the pixmap thread; Okular executes one   *)
(* at a time.  Meanwhile the GUI thread may cancel it, change the settings *)
(* pages are rendered with, rotate the pages and turn the suppression of   *)
(* page-view renders on or off.                                            *)
(***************************************************************************)
EXTENDS Naturals, FiniteSets

CONSTANTS
    Files,       \* the documents that are opened one after the other
    ModelFiles,  \* those that contain 3D models
    NoFile,      \* no document is open
    Pages,       \* page numbers
    Broken,      \* pages poppler returns no Page for
    Sizes,       \* sizes a page is requested at
    Settings,    \* paper colours, render hints, visible layers
    NoImage,     \* a null QImage
    MaxEntries   \* the capacity of m_BackgroundCache (8)

ASSUME FileAssumption ==
    /\ NoFile \notin Files
    /\ ModelFiles \subseteq Files
    /\ Broken \subseteq Pages
    /\ MaxEntries \in Nat \ {0}

VARIABLES
    file,       \* the open document
    settings,   \* the present settings
    turned,     \* whether the pages are rotated by 90 degrees
    suppress,   \* ShouldSuppressPageViewRender()
    background, \* m_BackgroundCache
    last,       \* m_LastPageImage
    locked,     \* userMutex() is held by the request
    req         \* the request being executed

guiVars == <<file, settings, turned, suppress>>
vars    == <<file, settings, turned, suppress, background, last, locked, req>>

\* An image of a page: whole unless the render was cancelled half way.
Image == [file: Files, settings: Settings, page: Pages, size: Sizes,
          whole: BOOLEAN, models: BOOLEAN]

ASSUME NoImageAssumption == NoImage \notin Image

BackgroundKey == [page: Pages, size: Sizes, turned: BOOLEAN]

\* The priorities of DocumentObserver, by the window they are for.
Priorities == {"pageview", "presentation", "thumbnails",
               "pageview_preload", "presentation_preload"}
Preloads   == {"pageview_preload", "presentation_preload"}

Pcs == {"idle", "enter", "stale", "lock", "render",
        "store", "paint", "unlock", "done"}

Request == [pc: Pcs, page: Pages, size: Sizes, priority: Priorities, tile: BOOLEAN,
            aborted: BOOLEAN, turned: BOOLEAN, hit: BOOLEAN,
            stale: BOOLEAN, img: Image \cup {NoImage}]

TypeOK ==
    /\ file \in Files \cup {NoFile}
    /\ settings \in Settings
    /\ turned \in BOOLEAN
    /\ suppress \in BOOLEAN
    /\ DOMAIN background \subseteq BackgroundKey
    /\ \A k \in DOMAIN background : background[k] \in Image
    /\ last \in Image \cup {NoImage}
    /\ locked \in BOOLEAN
    /\ req \in Request

NewRequest(pc, p, s, prio, tile) ==
    [pc |-> pc, page |-> p, size |-> s, priority |-> prio, tile |-> tile,
     aborted |-> FALSE, turned |-> FALSE, hit |-> FALSE,
     stale |-> FALSE, img |-> NoImage]

NoBackground == [k \in {} |-> NoImage]

Init ==
    /\ file = NoFile
    /\ settings \in Settings
    /\ turned = FALSE
    /\ suppress = FALSE
    /\ background = NoBackground
    /\ last = NoImage
    /\ locked = FALSE
    /\ \E p \in Pages, s \in Sizes : req = NewRequest("idle", p, s, "pageview", FALSE)

-----------------------------------------------------------------------------
(* Opening and closing documents; Okular waits for the request to end.     *)

\* Mutant: the last page of the previous document is kept.
init_KeepLast(f) ==
    /\ file = NoFile
    /\ req.pc = "idle"
    /\ file' = f
    /\ background' = NoBackground
    /\ UNCHANGED <<settings, turned, suppress, last, locked, req>>

init(f) ==
    /\ file = NoFile
    /\ req.pc = "idle"
    /\ file' = f
    /\ background' = NoBackground
    /\ last' = NoImage
    /\ UNCHANGED <<settings, turned, suppress, locked, req>>

\* The password is wrong: the caches are dropped, no document is open.
OpenNeedsPassword ==
    /\ file = NoFile
    /\ req.pc = "idle"
    /\ background' = NoBackground
    /\ last' = NoImage
    /\ UNCHANGED <<guiVars, locked, req>>

doCloseDocument ==
    /\ file # NoFile
    /\ req.pc = "idle"
    /\ file' = NoFile
    /\ UNCHANGED <<settings, turned, suppress, background, last, locked, req>>

-----------------------------------------------------------------------------
(* The GUI thread, while a request may be executing.                       *)

\* reparseConfig(), the layers, the render hints.  Okular then requests the
\* visible pages again.
ChangeSettings(s) ==
    /\ s # settings
    /\ settings' = s
    /\ UNCHANGED <<file, turned, suppress, background, last, locked, req>>

Rotate ==
    /\ turned' = ~turned
    /\ UNCHANGED <<file, settings, suppress, background, last, locked, req>>

ToggleSuppression ==
    /\ suppress' = ~suppress
    /\ UNCHANGED <<file, settings, turned, background, last, locked, req>>

\* cancelRenderingBecauseOf()
Cancel ==
    /\ req.pc \notin {"idle", "done"}
    /\ ~req.aborted
    /\ req' = [req EXCEPT !.aborted = TRUE]
    /\ UNCHANGED <<guiVars, background, last, locked>>

-----------------------------------------------------------------------------
(* image()                                                                 *)

GoTo(pc) == req' = [req EXCEPT !.pc = pc]
Return(img) == req' = [req EXCEPT !.pc = "done", !.img = img]

\* The key is made from the rotation at the moment it is made.
Key == [page |-> req.page, size |-> req.size, turned |-> turned]

Begin(p, s, prio, tile) ==
    /\ req.pc = "idle"
    /\ file # NoFile
    /\ req' = NewRequest("enter", p, s, prio, tile)
    /\ UNCHANGED <<guiVars, background, last, locked>>

Enter ==
    /\ req.pc = "enter"
    /\ \/ /\ ~req.tile /\ req.priority = "presentation_preload" /\ file \in ModelFiles
          /\ Return(NoImage)
       \/ /\ req.tile \/ req.priority # "presentation_preload" \/ file \notin ModelFiles
          /\ GoTo(IF ~req.tile /\ suppress /\ req.priority \in {"pageview"} \cup Preloads
                  THEN "stale" ELSE "lock")
    /\ UNCHANGED <<guiVars, background, last, locked>>

\* The last page, scaled to the size that is wanted; or, for a preload, the
\* background alone.
LastShows(p) == last # NoImage /\ last.page = p

ServeStale ==
    /\ req.pc = "stale"
    /\ ~locked
    /\ \/ /\ LastShows(req.page)
          /\ req' = [req EXCEPT !.pc = "done", !.stale = TRUE,
                                !.img = [last EXCEPT !.size = req.size]]
       \/ /\ ~LastShows(req.page)
          /\ req.priority \in Preloads /\ Key \in DOMAIN background
          /\ req' = [req EXCEPT !.pc = "done", !.stale = TRUE, !.img = background[Key]]
       \/ /\ ~LastShows(req.page)
          /\ req.priority \notin Preloads \/ Key \notin DOMAIN background
          /\ GoTo("lock")
    /\ UNCHANGED <<guiVars, background, last, locked>>

\* Mutant: the early return of a cancelled request keeps the mutex.
Lock_KeepLocked ==
    /\ req.pc = "lock"
    /\ ~locked
    /\ locked' = TRUE
    /\ IF req.aborted THEN Return(NoImage)
       ELSE req' = [req EXCEPT !.pc = "render", !.turned = turned]
    /\ UNCHANGED <<guiVars, background, last>>

Lock ==
    /\ req.pc = "lock"
    /\ ~locked
    /\ locked' = ~req.aborted
    /\ IF req.aborted THEN Return(NoImage)
       ELSE req' = [req EXCEPT !.pc = "render", !.turned = turned]
    /\ UNCHANGED <<guiVars, background, last>>

\* (the key made under the lock)
CacheKey == [page |-> req.page, size |-> req.size, turned |-> req.turned]

\* Take the background from the cache or have poppler render it; a page that
\* does not exist is blank.  A render that is cancelled may end early.
RenderBackground ==
    /\ req.pc = "render"
    /\ \E whole \in {TRUE, ~req.aborted} :
         LET hit   == ~req.tile /\ CacheKey \in DOMAIN background
             fresh == [file |-> file, settings |-> settings, page |-> req.page,
                       size |-> req.size, whole |-> whole \/ req.page \in Broken,
                       models |-> FALSE] IN
         req' = [req EXCEPT !.pc = "store", !.hit = hit,
                            !.img = IF hit /\ req.page \notin Broken THEN background[CacheKey]
                                    ELSE fresh]
    /\ UNCHANGED <<guiVars, background, last, locked>>

With(f, k, x) == [i \in DOMAIN f \cup {k} |-> IF i = k THEN x ELSE f[i]]

\* Mutant: one entry too many.
Insert_OneMore(k, img) ==
    background' = With(IF Cardinality(DOMAIN background) > MaxEntries
                       THEN NoBackground ELSE background, k, img)

\* Bounded: everything is dropped when the cache is full.
Insert(k, img) ==
    background' = With(IF Cardinality(DOMAIN background) >= MaxEntries
                       THEN NoBackground ELSE background, k, img)

\* Mutant: a render that was cancelled half way is cached.
Cacheable_Aborted == ~req.tile /\ req.page \notin Broken /\ ~req.hit

Cacheable == ~req.tile /\ req.page \notin Broken /\ ~req.hit /\ ~req.aborted

StoreBackground ==
    /\ req.pc = "store"
    /\ IF Cacheable THEN Insert(CacheKey, req.img) ELSE UNCHANGED background
    /\ req' = [req EXCEPT !.pc = "paint", !.hit = FALSE, !.turned = FALSE]
    /\ UNCHANGED <<guiVars, last, locked>>

\* Models are painted on anything but thumbnails and blank pages, if there
\* is an image of them to paint.
MayPaint ==
    req.priority # "thumbnails" /\ file \in ModelFiles /\ req.page \notin Broken

renderV3dModels ==
    /\ req.pc = "paint"
    /\ \E painted \in {FALSE, MayPaint} :
         LET img == [req.img EXCEPT !.models = painted] IN
         /\ last' = IF req.tile THEN last ELSE img
         /\ req' = [req EXCEPT !.pc = "unlock", !.img = img]
    /\ UNCHANGED <<guiVars, background, locked>>

\* It throws: the page is served with what has been painted so far.
renderV3dModelsThrows ==
    /\ req.pc = "paint"
    /\ MayPaint
    /\ \E painted \in BOOLEAN :
         req' = [req EXCEPT !.pc = "unlock", !.img.models = painted]
    /\ UNCHANGED <<guiVars, background, last, locked>>

Unlock ==
    /\ req.pc = "unlock"
    /\ locked' = FALSE
    /\ GoTo("done")
    /\ UNCHANGED <<guiVars, background, last>>

\* pixmapGenerationFinished(): the page gets the image unless the request was
\* cancelled.
Finish ==
    /\ req.pc = "done"
    /\ req' = NewRequest("idle", req.page, req.size, "pageview", FALSE)
    /\ UNCHANGED <<guiVars, background, last, locked>>

-----------------------------------------------------------------------------
RequestStep ==
    \/ Enter \/ ServeStale \/ Lock
    \/ RenderBackground \/ StoreBackground
    \/ renderV3dModels \/ renderV3dModelsThrows
    \/ Unlock \/ Finish

Next ==
    \/ \E f \in Files : init(f)
    \/ OpenNeedsPassword \/ doCloseDocument
    \/ \E s \in Settings : ChangeSettings(s)
    \/ Rotate \/ ToggleSuppression \/ Cancel
    \/ \E p \in Pages, s \in Sizes, prio \in Priorities, tile \in BOOLEAN : Begin(p, s, prio, tile)
    \/ RequestStep

\* The pixmap thread is a thread of its own and the GUI thread holds userMutex
\* only within a step.
Spec == Init /\ [][Next]_vars /\ WF_vars(RequestStep)

-----------------------------------------------------------------------------
(* Properties                                                              *)

\* Whatever is cancelled, rotated or reloaded meanwhile, the cache holds only
\* complete backgrounds of the open document, without models on them, each
\* under its own page and size.
BackgroundSound ==
    file # NoFile =>
        \A k \in DOMAIN background :
            /\ background[k].file = file
            /\ background[k].page = k.page
            /\ background[k].size = k.size
            /\ background[k].whole
            /\ ~background[k].models

\* The cache never outgrows its capacity.
BackgroundBounded == Cardinality(DOMAIN background) <= MaxEntries

Served == req.pc = "done" /\ req.img # NoImage

\* A page image that reaches Okular shows the page that was asked for, of the
\* document that is open, at the size that was asked for; and unless it was
\* served from the last page it is complete.
ServedPage ==
    Served =>
        /\ req.img.file = file
        /\ req.img.page = req.page
        /\ req.img.size = req.size
        /\ ~req.aborted /\ ~req.stale => req.img.whole

\* Every request returns, on every early return and when painting throws: no
\* return keeps userMutex, which the next request would wait for for ever.
RequestReturns == req.pc # "idle" ~> req.pc = "idle"

\* "if paper color is changed we have to rebuild every visible pixmap"
\* (generator_pdf.cpp:1914): a background a request uses shows the settings of
\* that moment.
SettingsShown ==
    [][req.pc = "render" /\ req'.pc = "store" => req'.img.settings = settings]_vars

\* "Last fully rendered page image" (generator_pdf.h:204).
LastIsWhole == last # NoImage => last.whole

\* "final composite, after the v3d sub-images were drawn on top"
\* (generator_pdf.cpp:1376): what replaces a page of the page view shows its
\* models whenever the last view of them did.
StaleShowsModels ==
    Served /\ req.stale /\ req.priority = "pageview" /\ file \in ModelFiles /\ req.page \notin Broken
        => req.img.models
=============================================================================
