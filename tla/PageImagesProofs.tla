-------------------------- MODULE PageImagesProofs --------------------------
(***************************************************************************)
(* Proofs about PageImages for any number of files, pages, sizes and       *)
(* entries.                                                                *)
(*                                                                         *)
(* What is cached is decided by the request in several steps, so the       *)
(* invariant follows the image the request works on (Working): from the    *)
(* moment it exists it belongs to the request's page, size and document,   *)
(* carries no models until they are painted, and is incomplete only if the *)
(* request was cancelled, which is what keeps it out of the cache.         *)
(***************************************************************************)
EXTENDS PageImages, FiniteSetTheorems, TLAPS

Inside == {"render", "store", "paint", "unlock"}

LockInv == locked <=> req.pc \in Inside

OpenInv == req.pc # "idle" => file # NoFile

LastInv == file # NoFile /\ last # NoImage => last.file = file

OfRequest(img) == img.file = file /\ img.page = req.page /\ img.size = req.size

Working ==
    req.pc \in {"store", "paint", "unlock"} =>
        /\ req.img \in Image
        /\ OfRequest(req.img)
        /\ req.aborted \/ req.img.whole
        /\ ~req.stale

Clean == req.pc = "store" => ~req.img.models

Early == req.pc \in {"enter", "stale", "lock", "render"} => ~req.stale

Bounded == IsFiniteSet(DOMAIN background) /\ BackgroundBounded

IInv == /\ TypeOK /\ LockInv /\ OpenInv /\ LastInv /\ Working /\ Clean /\ Early
        /\ BackgroundSound /\ Bounded /\ ServedPage

-----------------------------------------------------------------------------
(* What each step does to the request.                                     *)

\* (the fields no step but the first changes)
Keeps == /\ req'.page = req.page /\ req'.size = req.size
         /\ req'.priority = req.priority /\ req'.tile = req.tile

\* Going on changes only where the request is.
LEMMA GoToMoves ==
    ASSUME req \in Request, NEW a \in Pcs, GoTo(a)
    PROVE  /\ req' \in Request /\ Keeps /\ req'.pc = a
           /\ req'.aborted = req.aborted /\ req'.stale = req.stale /\ req'.img = req.img
BY DEF GoTo, Request, Keeps

\* Returning ends the request with the image given.
LEMMA ReturnMoves ==
    ASSUME req \in Request, NEW i \in Image \cup {NoImage}, Return(i)
    PROVE  /\ req' \in Request /\ Keeps /\ req'.pc = "done"
           /\ req'.aborted = req.aborted /\ req'.stale = req.stale /\ req'.img = i
BY DEF Return, Request, Keeps, Pcs

\* A new request has no image and was not served a stale one.
LEMMA NewMoves ==
    ASSUME NEW a \in Pcs, NEW p \in Pages, NEW z \in Sizes, NEW prio \in Priorities,
           NEW tile \in BOOLEAN
    PROVE  /\ NewRequest(a, p, z, prio, tile) \in Request
           /\ NewRequest(a, p, z, prio, tile).pc = a
           /\ NewRequest(a, p, z, prio, tile).stale = FALSE
           /\ NewRequest(a, p, z, prio, tile).img = NoImage
BY DEF NewRequest, Request

\* Cancelling marks the request; it goes on from where it is.
LEMMA CancelMoves ==
    ASSUME req \in Request, Cancel
    PROVE  /\ req' \in Request /\ Keeps /\ req'.pc = req.pc /\ req'.pc # "done"
           /\ req'.aborted /\ req'.stale = req.stale /\ req'.img = req.img
BY DEF Cancel, Request, Keeps

\* A request served from a stale image gets m_LastPageImage of its page or the
\* entry under its key; otherwise it goes on to the mutex.
LEMMA StaleMoves ==
    ASSUME TypeOK, ServeStale
    PROVE  /\ req.pc = "stale" /\ req' \in Request /\ Keeps
           /\ req'.aborted = req.aborted
           /\ \/ req'.pc = "lock" /\ req'.stale = req.stale
              \/ /\ req'.pc = "done" /\ req'.stale
                 /\ \/ /\ last \in Image /\ last.page = req.page
                       /\ req'.img = [last EXCEPT !.size = req.size]
                    \/ Key \in DOMAIN background /\ req'.img = background[Key]
<1>0. req \in Request /\ req.pc = "stale"
  BY DEF TypeOK, ServeStale
<1>1. CASE LastShows(req.page)
  <2> DEFINE i == [last EXCEPT !.size = req.size]
  <2>1. last \in Image /\ last.page = req.page /\ i \in Image
    BY <1>0, <1>1 DEF LastShows, TypeOK, Image, Request
  <2>2. req' = [req EXCEPT !.pc = "done", !.stale = TRUE, !.img = i]
    BY <1>1 DEF ServeStale
  <2> HIDE DEF i
  <2>3. req' \in Request /\ Keeps /\ req'.pc = "done" /\ req'.stale = TRUE
        /\ req'.aborted = req.aborted /\ req'.img = i
    BY <1>0, <2>1, <2>2 DEF Request, Keeps, Pcs
  <2> QED
    BY <1>0, <2>1, <2>3 DEF i
<1>2. CASE ~LastShows(req.page) /\ req.priority \in Preloads /\ Key \in DOMAIN background
  <2> DEFINE i == background[Key]
  <2>1. i \in Image
    BY <1>2 DEF TypeOK
  <2>2. req' = [req EXCEPT !.pc = "done", !.stale = TRUE, !.img = i]
    BY <1>2 DEF ServeStale
  <2> HIDE DEF i
  <2>3. req' \in Request /\ Keeps /\ req'.pc = "done" /\ req'.stale = TRUE
        /\ req'.aborted = req.aborted /\ req'.img = i
    BY <1>0, <2>1, <2>2 DEF Request, Keeps, Pcs
  <2> QED
    BY <1>0, <1>2, <2>1, <2>3 DEF i
<1>3. CASE ~LastShows(req.page) /\ ~(req.priority \in Preloads /\ Key \in DOMAIN background)
  <2>1. GoTo("lock") /\ "lock" \in Pcs
    BY <1>3 DEF ServeStale, Pcs
  <2> QED
    BY <1>0, <2>1, GoToMoves
<1> QED
  BY <1>1, <1>2, <1>3

\* A request past the mutex either returns nothing or holds it.
LEMMA LockMoves ==
    ASSUME TypeOK, Lock
    PROVE  /\ req.pc = "lock" /\ req' \in Request /\ Keeps
           /\ req'.aborted = req.aborted /\ req'.stale = req.stale
           /\ \/ req'.pc = "done" /\ req'.img = NoImage /\ locked' = FALSE
              \/ req'.pc = "render" /\ locked' = TRUE
<1>0. req \in Request /\ req.pc = "lock" /\ turned \in BOOLEAN
  BY DEF TypeOK, Lock
<1>1. CASE req.aborted
  <2>1. Return(NoImage) /\ locked' = FALSE
    BY <1>1 DEF Lock
  <2> QED
    BY <1>0, <2>1, ReturnMoves
<1>2. CASE ~req.aborted
  <2>1. req' = [req EXCEPT !.pc = "render", !.turned = turned] /\ locked' = TRUE
    BY <1>0, <1>2 DEF Lock
  <2> QED
    BY <1>0, <2>1 DEF Request, Keeps, Pcs
<1> QED
  BY <1>1, <1>2

\* The image a request works on is of its page, size and document, has no models
\* yet, and is whole unless the request was cancelled, be it rendered or cached.
LEMMA RenderMoves ==
    ASSUME TypeOK, OpenInv, BackgroundSound, RenderBackground
    PROVE  /\ req.pc = "render" /\ req'.pc = "store" /\ req' \in Request /\ Keeps
           /\ req'.aborted = req.aborted /\ req'.stale = req.stale
           /\ req'.img \in Image /\ OfRequest(req'.img)
           /\ req.aborted \/ req'.img.whole
           /\ ~req'.img.models
<1>0. /\ req \in Request /\ req.pc = "render" /\ file \in Files /\ settings \in Settings
      /\ req.page \in Pages /\ req.size \in Sizes /\ req.aborted \in BOOLEAN
  BY DEF TypeOK, RenderBackground, OpenInv, Request
<1>1. PICK whole \in {TRUE, ~req.aborted} :
        LET hit   == ~req.tile /\ CacheKey \in DOMAIN background
            fresh == [file |-> file, settings |-> settings, page |-> req.page,
                      size |-> req.size, whole |-> whole \/ req.page \in Broken,
                      models |-> FALSE] IN
        req' = [req EXCEPT !.pc = "store", !.hit = hit,
                           !.img = IF hit /\ req.page \notin Broken THEN background[CacheKey]
                                   ELSE fresh]
  BY DEF RenderBackground
<1> DEFINE hit   == ~req.tile /\ CacheKey \in DOMAIN background
           w     == whole \/ req.page \in Broken
           fresh == [file |-> file, settings |-> settings, page |-> req.page,
                     size |-> req.size, whole |-> w, models |-> FALSE]
           i     == IF hit /\ req.page \notin Broken THEN background[CacheKey] ELSE fresh
<1>2. w \in BOOLEAN /\ (req.aborted \/ w) /\ hit \in BOOLEAN
  BY <1>0
<1>3. fresh \in Image /\ OfRequest(fresh) /\ (req.aborted \/ fresh.whole) /\ ~fresh.models
  <2> HIDE DEF w
  <2> QED
    BY <1>0, <1>2 DEF Image, OfRequest
<1>4. hit => /\ background[CacheKey] \in Image /\ OfRequest(background[CacheKey])
             /\ background[CacheKey].whole /\ ~background[CacheKey].models
  <2> SUFFICES ASSUME hit PROVE /\ background[CacheKey] \in Image /\ OfRequest(background[CacheKey])
             /\ background[CacheKey].whole /\ ~background[CacheKey].models
    OBVIOUS
  <2>1. CacheKey \in DOMAIN background /\ file # NoFile
    BY <1>0, FileAssumption
  <2>2. CacheKey.page = req.page /\ CacheKey.size = req.size
    BY DEF CacheKey
  <2> QED
    BY <2>1, <2>2 DEF BackgroundSound, TypeOK, OfRequest
<1>5. i \in Image /\ OfRequest(i) /\ (req.aborted \/ i.whole) /\ ~i.models
  <2> HIDE DEF fresh
  <2> QED
    BY <1>3, <1>4
<1>6. req' = [req EXCEPT !.pc = "store", !.hit = hit, !.img = i]
  BY <1>1
<1> HIDE DEF hit, i
<1>7. /\ req' \in Request /\ Keeps /\ req'.pc = "store" /\ req'.img = i
      /\ req'.aborted = req.aborted /\ req'.stale = req.stale
  BY <1>0, <1>2, <1>5, <1>6 DEF Request, Keeps, Pcs
<1> QED
  BY <1>0, <1>5, <1>7

\* Storing the background leaves the request's image as it is.
LEMMA StoreMoves ==
    ASSUME req \in Request, StoreBackground
    PROVE  /\ req.pc = "store" /\ req'.pc = "paint" /\ req' \in Request /\ Keeps
           /\ req'.aborted = req.aborted /\ req'.stale = req.stale /\ req'.img = req.img
BY DEF StoreBackground, Request, Keeps, Pcs

\* Painting changes nothing but whether there are models on the image.
LEMMA PaintMoves ==
    ASSUME TypeOK, Working, renderV3dModels \/ renderV3dModelsThrows
    PROVE  /\ req.pc = "paint" /\ req'.pc = "unlock" /\ req' \in Request /\ Keeps
           /\ req'.aborted = req.aborted /\ req'.stale = req.stale
           /\ req'.img \in Image /\ req'.img.file = req.img.file
           /\ req'.img.page = req.img.page /\ req'.img.size = req.img.size
           /\ req'.img.whole = req.img.whole
           /\ last' \in {last, req'.img}
<1>0. req \in Request /\ req.pc = "paint" /\ req.img \in Image
  BY DEF TypeOK, renderV3dModels, renderV3dModelsThrows, Working
<1>1. ASSUME NEW b \in BOOLEAN
      PROVE  LET i == [req.img EXCEPT !.models = b] IN
             /\ i \in Image /\ i.file = req.img.file /\ i.page = req.img.page
             /\ i.size = req.img.size /\ i.whole = req.img.whole
  BY <1>0 DEF Image
<1>2. PICK b \in BOOLEAN :
        /\ req' = [req EXCEPT !.pc = "unlock", !.img = [req.img EXCEPT !.models = b]]
        /\ last' = last \/ last' = [req.img EXCEPT !.models = b]
  <2>1. CASE renderV3dModels
    <3>1. PICK b \in {FALSE, MayPaint} :
            /\ req' = [req EXCEPT !.pc = "unlock", !.img = [req.img EXCEPT !.models = b]]
            /\ last' = IF req.tile THEN last ELSE [req.img EXCEPT !.models = b]
      BY <2>1 DEF renderV3dModels
    <3>2. b \in BOOLEAN
      BY DEF MayPaint
    <3> QED
      BY <3>1, <3>2
  <2>2. CASE renderV3dModelsThrows
    <3>1. PICK b \in BOOLEAN : req' = [req EXCEPT !.pc = "unlock", !.img.models = b]
      BY <2>2 DEF renderV3dModelsThrows
    <3>2. req' = [req EXCEPT !.pc = "unlock", !.img = [req.img EXCEPT !.models = b]]
      BY <1>0, <3>1 DEF Request, Image
    <3>3. last' = last
      BY <2>2 DEF renderV3dModelsThrows
    <3> QED
      BY <3>2, <3>3
  <2> QED
    BY <2>1, <2>2
<1> DEFINE i == [req.img EXCEPT !.models = b]
<1>3. /\ i \in Image /\ i.file = req.img.file /\ i.page = req.img.page
      /\ i.size = req.img.size /\ i.whole = req.img.whole
  BY <1>1
<1>4. req' = [req EXCEPT !.pc = "unlock", !.img = i] /\ last' \in {last, i}
  BY <1>2
<1> HIDE DEF i
<1>5. /\ req' \in Request /\ Keeps /\ req'.pc = "unlock" /\ req'.img = i
      /\ req'.aborted = req.aborted /\ req'.stale = req.stale
  BY <1>0, <1>3, <1>4 DEF Request, Keeps, Pcs
<1> QED
  BY <1>0, <1>3, <1>4, <1>5

-----------------------------------------------------------------------------
(* The cache.                                                              *)

\* Clearing the full cache before inserting keeps it within its bound and
\* changes no entry it keeps.
LEMMA InsertKeeps ==
    ASSUME NEW k \in BackgroundKey, NEW i \in Image, Insert(k, i),
           IsFiniteSet(DOMAIN background), BackgroundBounded
    PROVE  /\ IsFiniteSet(DOMAIN background')
           /\ Cardinality(DOMAIN background') <= MaxEntries
           /\ \A j \in DOMAIN background' :
                \/ j = k /\ background'[j] = i
                \/ j # k /\ j \in DOMAIN background /\ background'[j] = background[j]
<1> DEFINE full == Cardinality(DOMAIN background) >= MaxEntries
           f    == IF full THEN NoBackground ELSE background
<1>1. background' = [j \in DOMAIN f \cup {k} |-> IF j = k THEN i ELSE f[j]]
  BY DEF Insert, With
<1>2. DOMAIN background' = DOMAIN f \cup {k}
  BY <1>1
<1>3. DOMAIN f = IF full THEN {} ELSE DOMAIN background
  BY DEF NoBackground
<1>4. Cardinality(DOMAIN background) \in Nat
  BY FS_CardinalityType
<1>5. IsFiniteSet(DOMAIN f) /\ Cardinality(DOMAIN f) + 1 <= MaxEntries
  <2>1. CASE full
    BY <1>3, <2>1, FS_EmptySet, FileAssumption
  <2>2. CASE ~full
    BY <1>3, <1>4, <2>2, FileAssumption
  <2> QED
    BY <2>1, <2>2
<1>6. /\ IsFiniteSet(DOMAIN f \cup {k})
      /\ Cardinality(DOMAIN f \cup {k}) <= Cardinality(DOMAIN f) + 1
  BY <1>5, FS_AddElement, FS_CardinalityType
<1>7. Cardinality(DOMAIN f) \in Nat /\ Cardinality(DOMAIN f \cup {k}) \in Nat
  BY <1>5, <1>6, FS_CardinalityType
<1>8. Cardinality(DOMAIN background') <= MaxEntries
  BY <1>2, <1>5, <1>6, <1>7, FileAssumption
<1>9. ASSUME NEW j \in DOMAIN background', j # k
      PROVE  j \in DOMAIN background /\ background'[j] = background[j]
  BY <1>1, <1>2, <1>3, <1>9
<1>10. background'[k] = i
  BY <1>1
<1> QED
  BY <1>2, <1>6, <1>8, <1>9, <1>10

\* Storing the background of a request keeps the cache sound and bounded.
LEMMA StoreKeeps ==
    ASSUME TypeOK, OpenInv, Working, Clean, BackgroundSound, Bounded, StoreBackground
    PROVE  /\ DOMAIN background' \subseteq BackgroundKey
           /\ \A j \in DOMAIN background' : background'[j] \in Image
           /\ BackgroundSound' /\ Bounded'
<1>0. /\ req \in Request /\ req.pc = "store" /\ file' = file /\ file # NoFile
      /\ req.img \in Image /\ OfRequest(req.img) /\ ~req.img.models
      /\ req.aborted \/ req.img.whole
  BY DEF TypeOK, StoreBackground, Working, Clean, OpenInv, guiVars
<1>1. CASE ~Cacheable
  <2>1. background' = background
    BY <1>1 DEF StoreBackground
  <2> QED
    BY <1>0, <2>1 DEF TypeOK, BackgroundSound, Bounded, BackgroundBounded
<1>2. CASE Cacheable
  <2> DEFINE k == CacheKey
  <2>1. Insert(k, req.img) /\ ~req.aborted
    BY <1>2 DEF StoreBackground, Cacheable
  <2>2. k \in BackgroundKey /\ k.page = req.page /\ k.size = req.size
    BY <1>0 DEF CacheKey, BackgroundKey, Request
  <2> HIDE DEF k
  <2>3. /\ IsFiniteSet(DOMAIN background')
        /\ Cardinality(DOMAIN background') <= MaxEntries
        /\ \A j \in DOMAIN background' :
             \/ j = k /\ background'[j] = req.img
             \/ j # k /\ j \in DOMAIN background /\ background'[j] = background[j]
    BY <1>0, <2>1, <2>2, InsertKeeps DEF Bounded
  <2>4. Bounded'
    BY <2>3 DEF Bounded, BackgroundBounded
  <2>5. ASSUME NEW j \in DOMAIN background'
        PROVE  /\ j \in BackgroundKey /\ background'[j] \in Image
               /\ background'[j].file = file
               /\ background'[j].page = j.page
               /\ background'[j].size = j.size
               /\ background'[j].whole
               /\ ~background'[j].models
    <3>1. CASE j = k /\ background'[j] = req.img
      BY <1>0, <2>1, <2>2, <3>1 DEF OfRequest
    <3>2. CASE j \in DOMAIN background /\ background'[j] = background[j]
      BY <1>0, <3>2 DEF TypeOK, BackgroundSound
    <3> QED
      BY <2>3, <3>1, <3>2
  <2> QED
    BY <1>0, <2>4, <2>5 DEF BackgroundSound
<1> QED
  BY <1>1, <1>2

\* An empty cache is sound and within its bound.
LEMMA NoBackgroundSound ==
    ASSUME background' = NoBackground
    PROVE  /\ DOMAIN background' \subseteq BackgroundKey
           /\ \A j \in DOMAIN background' : background'[j] \in Image
           /\ BackgroundSound' /\ Bounded'
<1>1. DOMAIN background' = {}
  BY DEF NoBackground
<1>2. IsFiniteSet({}) /\ Cardinality({}) = 0
  BY FS_EmptySet
<1> QED
  BY <1>1, <1>2, FileAssumption DEF BackgroundSound, Bounded, BackgroundBounded

-----------------------------------------------------------------------------
(* The invariant.                                                          *)

\* A generator without a document satisfies the invariant.
LEMMA InitIInv == Init => IInv
<1> SUFFICES ASSUME Init PROVE IInv
  OBVIOUS
<1>0. /\ file = NoFile /\ settings \in Settings /\ turned = FALSE /\ suppress = FALSE
      /\ last = NoImage /\ locked = FALSE
  BY DEF Init
<1>1. req \in Request /\ req.pc = "idle"
  <2>1. PICK p \in Pages, z \in Sizes : req = NewRequest("idle", p, z, "pageview", FALSE)
    BY DEF Init
  <2>2. "idle" \in Pcs /\ "pageview" \in Priorities
    BY DEF Pcs, Priorities
  <2> QED
    BY <2>1, <2>2, NewMoves
<1>2. DOMAIN background = {}
  BY DEF Init, NoBackground
<1>3. IsFiniteSet({}) /\ Cardinality({}) = 0
  BY FS_EmptySet
<1>4. TypeOK
  BY <1>0, <1>1, <1>2 DEF TypeOK
<1>5. BackgroundSound /\ Bounded
  BY <1>0, <1>2, <1>3, FileAssumption DEF BackgroundSound, Bounded, BackgroundBounded
<1> QED
  BY <1>0, <1>1, <1>4, <1>5 DEF IInv, LockInv, Inside, OpenInv, LastInv, Working, Clean, Early,
     ServedPage, Served

\* A step of the request that leaves file and cache alone.
LEMMA Framed ==
    ASSUME IInv, UNCHANGED <<guiVars, background>>, req' \in Request,
           last' \in Image \cup {NoImage}, locked' \in BOOLEAN,
           LockInv', OpenInv', LastInv', Working', Clean', Early', ServedPage'
    PROVE  IInv'
<1>1. TypeOK'
  BY DEF IInv, TypeOK, guiVars
<1>2. BackgroundSound' /\ Bounded'
  BY DEF IInv, BackgroundSound, Bounded, BackgroundBounded, guiVars
<1> QED
  BY <1>1, <1>2 DEF IInv

\* What the GUI thread does between requests preserves the invariant.
LEMMA GuiStep ==
    ASSUME IInv,
           \/ \E f \in Files : init(f)
           \/ OpenNeedsPassword \/ doCloseDocument
           \/ \E z \in Settings : ChangeSettings(z)
           \/ Rotate \/ ToggleSuppression
    PROVE  IInv'
<1>1. req' = req /\ locked' = locked
  BY DEF init, OpenNeedsPassword, doCloseDocument, ChangeSettings, Rotate, ToggleSuppression, guiVars
<1>2. CASE (\E f \in Files : init(f)) \/ OpenNeedsPassword
  <2>1. /\ background' = NoBackground /\ last' = NoImage /\ req.pc = "idle"
        /\ file' \in Files \cup {NoFile} /\ UNCHANGED <<settings, turned, suppress>>
    BY <1>2 DEF init, OpenNeedsPassword, guiVars, IInv, TypeOK
  <2>2. TypeOK' /\ BackgroundSound' /\ Bounded'
    BY <1>1, <2>1, NoBackgroundSound DEF IInv, TypeOK
  <2> QED
    BY <1>1, <2>1, <2>2 DEF IInv, LockInv, OpenInv, LastInv, Working, Clean, Early, ServedPage, Served
<1>3. CASE doCloseDocument
  <2>1. file' = NoFile /\ req.pc = "idle" /\ UNCHANGED <<settings, turned, suppress, background, last>>
    BY <1>3 DEF doCloseDocument
  <2> QED
    BY <1>1, <2>1 DEF IInv, TypeOK, LockInv, OpenInv, LastInv, Working, Clean, Early, ServedPage,
       Served, BackgroundSound, Bounded, BackgroundBounded
<1>4. CASE (\E z \in Settings : ChangeSettings(z)) \/ Rotate \/ ToggleSuppression
  <2>1. /\ UNCHANGED <<file, background, last>>
        /\ settings' \in Settings /\ turned' \in BOOLEAN /\ suppress' \in BOOLEAN
    BY <1>4 DEF ChangeSettings, Rotate, ToggleSuppression, IInv, TypeOK
  <2> QED
    BY <1>1, <2>1 DEF IInv, TypeOK, LockInv, OpenInv, LastInv, Working, OfRequest, Clean, Early,
       ServedPage, Served, BackgroundSound, Bounded, BackgroundBounded
<1> QED
  BY <1>2, <1>3, <1>4

\* The steps of a request, on the pixmap thread, preserve it too.
LEMMA RequestKeepsIInv ==
    ASSUME IInv, Next, ~(\/ \E f \in Files : init(f)
                         \/ OpenNeedsPassword \/ doCloseDocument
                         \/ \E z \in Settings : ChangeSettings(z)
                         \/ Rotate \/ ToggleSuppression)
    PROVE  IInv'
<1>0. /\ TypeOK /\ req \in Request /\ last \in Image \cup {NoImage} /\ locked \in BOOLEAN
      /\ NoImage \notin Image
  BY NoImageAssumption DEF IInv, TypeOK
<1>g. UNCHANGED guiVars
  BY DEF Next, Cancel, Begin, RequestStep, Enter, ServeStale, Lock, RenderBackground,
     StoreBackground, renderV3dModels, renderV3dModelsThrows, Unlock, Finish
<1> USE DEF guiVars, LockInv, Inside, OpenInv, LastInv, Working, Clean, Early, ServedPage, Served
<1>1. CASE Cancel
  <2>1. UNCHANGED <<background, last, locked>> /\ req.pc \notin {"idle", "done"}
    BY <1>1 DEF Cancel
  <2>2. LockInv' /\ OpenInv' /\ LastInv' /\ Clean' /\ Early' /\ ServedPage'
    BY <1>0, <1>1, <1>g, <2>1, CancelMoves DEF IInv
  <2>3. Working'
    BY <1>0, <1>1, <1>g, <2>1, CancelMoves DEF IInv, OfRequest, Keeps
  <2> QED
    BY <1>0, <1>1, <1>g, <2>1, <2>2, <2>3, CancelMoves, Framed
<1>2. ASSUME NEW p \in Pages, NEW z \in Sizes, NEW prio \in Priorities, NEW tile \in BOOLEAN,
             Begin(p, z, prio, tile)
      PROVE  IInv'
  <2>1. /\ UNCHANGED <<background, last, locked>> /\ req.pc = "idle" /\ file # NoFile
        /\ req' = NewRequest("enter", p, z, prio, tile) /\ "enter" \in Pcs
    BY <1>2 DEF Begin, Pcs
  <2>2. req' \in Request /\ req'.pc = "enter" /\ ~req'.stale
    BY <2>1, NewMoves
  <2> QED
    BY <1>0, <1>g, <2>1, <2>2, Framed DEF IInv
<1>3. CASE Enter
  <2>1. UNCHANGED <<background, last, locked>> /\ req.pc = "enter"
    BY <1>3 DEF Enter
  <2>2. /\ req' \in Request /\ req'.stale = req.stale
        /\ req'.pc \in {"stale", "lock"} \/ (req'.pc = "done" /\ req'.img = NoImage)
    <3>1. Return(NoImage) \/ GoTo("stale") \/ GoTo("lock")
      BY <1>3 DEF Enter
    <3>2. "stale" \in Pcs /\ "lock" \in Pcs
      BY DEF Pcs
    <3> QED
      BY <1>0, <3>1, <3>2, ReturnMoves, GoToMoves
  <2> QED
    BY <1>0, <1>g, <2>1, <2>2, Framed DEF IInv
<1>4. CASE ServeStale
  <2>1. UNCHANGED <<background, last, locked>> /\ req.pc = "stale" /\ file # NoFile
    BY <1>4 DEF ServeStale, IInv
  <2>2. /\ req' \in Request /\ Keeps
        /\ \/ req'.pc = "lock" /\ req'.stale = req.stale
           \/ /\ req'.pc = "done" /\ req'.stale
              /\ \/ /\ last \in Image /\ last.page = req.page
                    /\ req'.img = [last EXCEPT !.size = req.size]
                 \/ Key \in DOMAIN background /\ req'.img = background[Key]
    BY <1>0, <1>4, StaleMoves
  <2>3. CASE req'.pc = "lock"
    BY <1>0, <1>g, <2>1, <2>2, <2>3, Framed DEF IInv
  <2>4. CASE req'.pc = "done" /\ req'.stale /\ last \in Image /\ last.page = req.page
             /\ req'.img = [last EXCEPT !.size = req.size]
    <3>1. req'.img.file = last.file /\ req'.img.page = last.page /\ req'.img.size = req.size
      BY <2>4 DEF Image
    <3>2. last.file = file
      BY <1>0, <2>1, <2>4 DEF IInv
    <3>3. ServedPage'
      BY <1>g, <2>2, <2>4, <3>1, <3>2 DEF Keeps
    <3> QED
      BY <1>0, <1>g, <2>1, <2>2, <2>4, <3>3, Framed DEF IInv
  <2>5. CASE req'.pc = "done" /\ req'.stale /\ Key \in DOMAIN background /\ req'.img = background[Key]
    <3>1. Key.page = req.page /\ Key.size = req.size
      BY DEF Key
    <3>2. ServedPage'
      BY <1>g, <2>1, <2>2, <2>5, <3>1 DEF Keeps, IInv, BackgroundSound
    <3> QED
      BY <1>0, <1>g, <2>1, <2>2, <2>5, <3>2, Framed DEF IInv
  <2> QED
    BY <2>2, <2>3, <2>4, <2>5
<1>5. CASE Lock
  <2>1. UNCHANGED <<background, last>>
    BY <1>5 DEF Lock
  <2> QED
    BY <1>0, <1>5, <1>g, <2>1, LockMoves, Framed DEF IInv
<1>6. CASE RenderBackground
  <2>1. UNCHANGED <<background, last, locked>>
    BY <1>6 DEF RenderBackground
  <2>2. /\ req.pc = "render" /\ req'.pc = "store" /\ req' \in Request /\ Keeps
        /\ req'.aborted = req.aborted /\ req'.stale = req.stale
        /\ req'.img \in Image /\ OfRequest(req'.img)
        /\ req.aborted \/ req'.img.whole
        /\ ~req'.img.models
    BY <1>0, <1>6, RenderMoves DEF IInv
  <2>3. Working'
    BY <1>g, <2>2 DEF OfRequest, Keeps, IInv
  <2> QED
    BY <1>0, <1>g, <2>1, <2>2, <2>3, Framed DEF IInv
<1>7. CASE StoreBackground
  <2>1. UNCHANGED <<last, locked>>
    BY <1>7 DEF StoreBackground
  <2>2. /\ req.pc = "store" /\ req'.pc = "paint" /\ req' \in Request /\ Keeps
        /\ req'.aborted = req.aborted /\ req'.stale = req.stale /\ req'.img = req.img
    BY <1>0, <1>7, StoreMoves
  <2>3. /\ DOMAIN background' \subseteq BackgroundKey
        /\ \A j \in DOMAIN background' : background'[j] \in Image
        /\ BackgroundSound' /\ Bounded'
    BY <1>7, StoreKeeps DEF IInv
  <2>4. TypeOK'
    BY <1>0, <1>g, <2>1, <2>2, <2>3 DEF TypeOK
  <2>5. Working'
    BY <1>g, <2>2 DEF OfRequest, Keeps, IInv
  <2> QED
    BY <1>g, <2>1, <2>2, <2>3, <2>4, <2>5 DEF IInv
<1>8. CASE renderV3dModels \/ renderV3dModelsThrows
  <2>1. UNCHANGED <<background, locked>>
    BY <1>8 DEF renderV3dModels, renderV3dModelsThrows
  <2>2. /\ req.pc = "paint" /\ req'.pc = "unlock" /\ req' \in Request /\ Keeps
        /\ req'.aborted = req.aborted /\ req'.stale = req.stale
        /\ req'.img \in Image /\ req'.img.file = req.img.file
        /\ req'.img.page = req.img.page /\ req'.img.size = req.img.size
        /\ req'.img.whole = req.img.whole
        /\ last' \in {last, req'.img}
    BY <1>0, <1>8, PaintMoves DEF IInv
  <2>3. Working'
    BY <1>g, <2>2 DEF OfRequest, Keeps, IInv
  <2>4. LastInv'
    BY <1>g, <2>2 DEF OfRequest, IInv
  <2> QED
    BY <1>0, <1>g, <2>1, <2>2, <2>3, <2>4, Framed DEF IInv
<1>9. CASE Unlock
  <2>1. UNCHANGED <<background, last>> /\ locked' = FALSE /\ req.pc = "unlock" /\ GoTo("done")
        /\ "done" \in Pcs
    BY <1>9 DEF Unlock, Pcs
  <2>2. /\ req' \in Request /\ Keeps /\ req'.pc = "done"
        /\ req'.aborted = req.aborted /\ req'.stale = req.stale /\ req'.img = req.img
    BY <1>0, <2>1, GoToMoves
  <2>3. ServedPage'
    BY <1>g, <2>1, <2>2 DEF OfRequest, Keeps, IInv
  <2> QED
    BY <1>0, <1>g, <2>1, <2>2, <2>3, Framed DEF IInv
<1>10. CASE Finish
  <2>1. /\ UNCHANGED <<background, last, locked>> /\ req.pc = "done"
        /\ req' = NewRequest("idle", req.page, req.size, "pageview", FALSE)
    BY <1>10 DEF Finish
  <2>2. "idle" \in Pcs /\ "pageview" \in Priorities /\ req.page \in Pages /\ req.size \in Sizes
    BY <1>0 DEF Pcs, Priorities, Request
  <2>3. req' \in Request /\ req'.pc = "idle"
    BY <2>1, <2>2, NewMoves
  <2> QED
    BY <1>0, <1>g, <2>1, <2>3, Framed DEF IInv
<1> QED
  BY <1>1, <1>2, <1>3, <1>4, <1>5, <1>6, <1>7, <1>8, <1>9, <1>10 DEF Next, RequestStep

\* The invariant the three properties rest on.
THEOREM InvariantHolds == Spec => []IInv
<1>1. IInv /\ [Next]_vars => IInv'
  <2> SUFFICES ASSUME IInv, [Next]_vars PROVE IInv'
    OBVIOUS
  <2>1. CASE UNCHANGED vars
    BY <2>1 DEF vars, IInv, TypeOK, LockInv, OpenInv, LastInv, Working, OfRequest, Clean, Early,
       ServedPage, Served, BackgroundSound, Bounded, BackgroundBounded
  <2> QED
    BY <2>1, GuiStep, RequestKeepsIInv
<1> QED
  BY <1>1, InitIInv, PTL DEF Spec

\* Whatever is cancelled, rotated, resized or reloaded, m_BackgroundCache only
\* holds complete pages of the open document without models on them.
THEOREM CacheIsSound == Spec => []BackgroundSound
<1>1. IInv => BackgroundSound
  BY DEF IInv
<1> QED
  BY <1>1, InvariantHolds, PTL

\* m_BackgroundCache never exceeds its capacity, whatever that is.
THEOREM CacheIsBounded == Spec => []BackgroundBounded
<1>1. IInv => BackgroundBounded
  BY DEF IInv, Bounded
<1> QED
  BY <1>1, InvariantHolds, PTL

\* image() never returns another page, another document's page or another
\* size, and only cancelled or suppressed requests may get an incomplete page.
THEOREM RightPageServed == Spec => []ServedPage
<1>1. IInv => ServedPage
  BY DEF IInv
<1> QED
  BY <1>1, InvariantHolds, PTL
=============================================================================
