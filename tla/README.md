# A TLA+ model of the Okular v3d plugins

Okular-v3d-Plugins adds interactive Asymptote 3D models (V3D files) to Okular: a generator for
standalone `.v3d` files and a patched PDF generator for models embedded in pages. Both use the
library in `v3d-Common`: a model manager per document that receives input events and pixmap
requests, and a headless Vulkan renderer. The modules here model the parts of that library, of the
PDF generator and of the installer in which state is shared between threads, documents, windows,
models, sizes, failed frames and interrupted scripts.

- [Inventory](#inventory)
- [Modules](#modules)
- [Runs](#runs)
- [Disagreements between the code and its comments](#disagreements-between-the-code-and-its-comments)
- [Proofs](#proofs)
- [What is not modelled](#what-is-not-modelled)
- [Plan](#plan)

Line numbers without a file refer to `v3d-Common/V3dModelManager.cpp` (MM); RH is
`v3d-Common/Rendering/renderheadless.cpp` and GP `build/26.04/okular/generators/pdf/generator_pdf.cpp`.
`PROJECT.json` maps each definition to its lines.

## Inventory

| Component | State | Operations | Interacts with |
|---|---|---|---|
| `V3dModelManager`, one per document | `m_Models`, `m_ModelImages`, request cache (`m_CachedRequestSizes`, `m_Pages`, page-view observer), drag state, `m_ModelsMutex` | `SetDocument`, `AddModel`, `CacheRequest`, `RenderModel`, mouse, wheel and key handlers, `refreshPixmap` | called by the generators (worker or GUI thread) and by event filters (GUI thread); owns a `HeadlessRenderer` |
| Generators (`v3d_generator.cpp`, `generator_pdf.cpp`) | the request in progress; the PDF generator also a background cache | `loadDocument`, `doCloseDocument`, `generatePixmap` / `image` + `renderV3dModels` | called by Okular; the PDF generator runs asynchronous requests on a worker thread |
| Process-wide scene state | Asymptote vertex buffers, `renderCount`, static `lastPage`/`lastModel`, `v3dRenderGlobalsMutex` | `clearData`, `QueueMesh` | shared by all documents |
| `HeadlessRenderer`, one per document | Vulkan objects, `initialized`, `currentTargetSize`, `currentDrawMode`, `maxFragments`, host image, shader modules | `render`, `cleanup`, destructor | called by `RenderModel` under both mutexes |
| `V3dModel`, `V3dFile`, `V3dObjects` | camera, draw mode, `remesh`, `m_HasChanged`; kept tessellation of each object | `home`, `cycleMode`, `dragMode*`, `setProjection`, `QueueMesh` | owned by the manager |
| IBL prompt and download | names declined, prompts pending, models waiting, replies outstanding | prompt event, reply handlers, completion | posts events to the application object, seen by every manager's filter |
| PDF page images | `m_BackgroundCache`, `m_LastPageImage`, `userMutex` | `image`, `init`, `doCloseDocument` | pixmap thread; cancelled, rotated and reconfigured from the GUI thread; reads the gate's flag |
| Presentation gate | presentation widget, last event source, suppression flag | `handlePresentationWidgetEvent`, `refreshPixmap` | both generators read the flag |
| Page-view binding | page view, filters, pending-rebind mark | `rebindPageView`, `resolve*` | worker posts an event, GUI thread rebinds |
| Installer | generator library in place, backup, the plugin's files | `install.sh`, `uninstall.sh` | the distribution's package manager, through the file system |

What is hard here, and the property that would notice it going wrong:

- **Threads.** A PDF's worker renders while the GUI thread handles input for the same model; two
  documents render with separate manager mutexes into one set of global buffers; a refresh at the
  end of a handler re-enters `RenderModel` on the same thread. `CacheCoherent`, `CoherentUnraced`,
  `GlobalsExclusive`, `NoCircularWait`, `RequestCompletes`, `RendersAtomically`;
  `RequestCacheGuarded` is not met.
- **Stale pointers and caches.** A drag keeps a raw model pointer across a reload; cached images
  are served while `m_HasChanged` is false; vertex uploads, tessellations and pipelines are skipped
  when flags kept at different levels (process, document, model) say they are current.
  `DragTargetLoaded`, `GeometryFresh`, `TessellationFresh`, `PipelinesMatchMode`.
- **Partial failure.** Device memory may run out at any of several allocations and any Vulkan call
  may fail, in the middle of a recreation; some failures are thrown, some returned, and some returned to
  nobody. `FrameObjectsInPlace`, `BuffersFreedOnce`, `CleanupForgetsNothing`, and the contract
  `KeepsTarget`, on which the scene code relies (`AssumesTarget`); stricter statements that the code only
  meets without certain failures are `FrameObjectsLive`, `DestroysLiveOnly`, `NothingLeaked`,
  `HostImageLive` and `ShadersComplete`, and `ZoomOutRecovers` is not met.
- **Asynchronous downloads.** A download completes on the GUI thread while a worker is about to
  cache a frame without the image; prompts nest, batches overlap, documents close meanwhile.
  `NoForgottenModel`, `AskedOnce`, `LastReplyCompletes`, `IblAppears`, `PromptOnLiveManager`;
  `ReplyOnLiveManager` is not met.
- **Several windows and documents.** A document is shown by a page view and perhaps a presentation,
  of which only the driven one is refreshed; windows close in the middle of a drag; a manager guesses
  its page view and corrects the guess through an event any manager may take.
  `OneWindowPerFrame`, `FreezeStartsDriven`, `ViewCatchesUp`, `BoundToOwnView`, `FilterOnBoundView`,
  `RebindHappens`; `SuppressOnlyPresenting` and `FrozenWhileDriven` are not met.
- **Cancelled requests.** Okular cancels, rotates, reconfigures and reloads while the pixmap thread
  is between reading the background cache and filling it. `BackgroundSound`, `ServedPage`,
  `RequestReturns`.
- **Interrupted scripts.** Neither script stops at a failing command; both may be stopped, and the
  package manager replaces the file both work on. `OriginalKept`, `OriginalSaved`, `CompleteRuns`,
  `PluginNeverSaved`.
- **Capacity.** The background cache is cleared when full (`BackgroundBounded`); buffers sized for
  one model are used for another (`MaterialsFit`, which is not met).

`PROJECT.json` lists each hazard at its line, the ones no property covers yet included.

## Modules

| Module | Models | Checked by | Proved in |
|---|---|---|---|
| `ModelManager` | locks, threads, requests, input handlers, cached images | `MCModelManager` | `ModelManagerProofs` |
| `AtomicManager` | what the manager promises, without threads; implemented by `ModelManager` | `MCModelManager` | `ModelManagerProofs` |
| `RendererResources` | life of the Vulkan objects of one renderer under failures | `MCRendererResources` | `RendererResourcesProofs` |
| `RenderTarget` | what `render()` promises about its target size; kept by `RendererResources`, relied on by `SceneRenderer` | `MCRendererResources`, `MCSceneRenderer` | `RendererResourcesProofs`, `SceneRendererProofs` |
| `SceneRenderer` | what a frame shows: switch test, remesh, fast path, upload, pipelines, materials | `MCSceneRenderer` | `SceneRendererProofs` |
| `IblDownload` | missing environment maps: prompt, download, re-render, over several documents | `MCIblDownload` | `IblDownloadProofs` |
| `PageImages` | `image()` of the PDF generator: background cache, last page, mutex | `MCPageImages` | `PageImagesProofs` |
| `PageViewBinding` | how a manager finds the page view of its document | `MCPageViewBinding` | `PageViewBindingProofs` |
| `PresentationGate` | which window is refreshed and when page-view renders are suppressed | `MCPresentationGate` | `PresentationGateProofs` |
| `Installer` | `install.sh` and `uninstall.sh` beside the package manager | `MCInstaller` | `InstallerProofs` |

The modules share no variables. They meet at the operations one component calls of another: a free
choice in one module ("serve the cached image or render", "the suppression flag changes") is a
guarded step of the other. Between the scene code and the renderer this is made precise by
`RenderTarget`: one module is shown to keep it, the other to ask for no more.

### ModelManager

The GUI thread is `Main`; the worker thread of a threaded (PDF) document has the document's name.
Each atomic step is a stretch of code between two points where another thread can act on shared
state: acquiring a mutex, releasing it, or entering the render section.

| Variable | Code |
|---|---|
| `phase` | life of the document in Okular: closed, `loadDocument` running, open |
| `loaded`, `view`, `mode`, `hasChanged`, `image` | `m_Models` with camera, `drawMode`, `m_HasChanged`; `m_ModelImages` |
| `drag` | `m_ActiveModel` while `m_Dragging` |
| `modelsMutex`, `globalsMutex` | owners of `m_ModelsMutex` and `v3dRenderGlobalsMutex` |
| `req` | the pixmap request each generator executes, with the locals of `RenderModel` that outlive a step |
| `op` | the event handler `Main` executes |

A request goes `snapshot` (`ModelBoundsSnapshot`), `next` (loop of `renderV3dModels`), `cache` /
`caching` (`CacheRequest`), then `serve` (cached image) or `lock`, `check`, `globals`, `queue`,
`render` (`RenderModel`); `Throw` is the exception boundary of the generators. An image records the
view fixed by `setProjection`, the draw mode its geometry was queued for and the mode it was drawn
in; these are read at three different times, which is what makes a key press in between visible.

The environment comes from how Okular's core uses a generator: one request at a time per generator,
synchronous requests on the GUI thread, loading and closing only when no request is executing. The
serving of a cached image instead of a render (thumbnails, preloads, suppressed page view) is a
free choice, since any of these requests may arrive at any time.

### AtomicManager

A model has a look (camera and draw mode) and a cached frame; `Input` changes the look, `Render`
makes the frame from the look of that moment while a request of the document is served, and a frame
is `fresh` until the look changes. `ModelManager` defines `Atomic == INSTANCE AtomicManager WITH ...`
over the documents in `Unraced` (all of them as long as no key is pressed, otherwise those that render
on the GUI thread) and the property `RendersAtomically == Atomic!Spec`: `SetProjection` maps to `Invalidate`, `StoreImage`
to `Render`, `Move` and `PressKey` to `Input`, beginning, loading and finishing to their namesakes, every other step
to a stutter. What it adds to `CacheCoherent` is that a frame is never a mixture: the camera is
read, the geometry queued and the image stored in three steps, with the GUI thread running in between.

### RendererResources

`handle` gives each group of Vulkan handles a state: `null`, `live`, or `dangling` (not null and
naming no object: destroyed and not cleared, or never initialised). The groups and the order of
their creation are those of `render()`'s full recreation (RH 3722-3834). `cleanup`,
`CatchVulkanError` and `ReturnNull` are the three pieces every failing exit is made of; the
out-of-memory exits are separate actions because each destroys a different set of handles before
them. Memory is counted in units of four bytes with the code's proportions between attachments,
per-pixel and per-fragment buffers. `leaked` and `invalid` are history variables: what the last
operation forgot, and what it destroyed that did not exist.

`Faults` selects the calls that may fail beside those that run out of this memory:

- `create`: a checked call of a recreation, which throws (`CreateError`, `PipelineError`);
- `alloc`: an allocation inside a `createBuffer()` whose result the caller ignores
  (`CreateIgnored`): the uniform buffer (RH 759-768) and the one-entry buffers of a scene without
  materials or lights (RH 776-781, 807-812). `createBuffer()` has nulled the handle (RH 496-503) and the
  recreation goes on to record frames;
- `shader`: the compiler or `vkCreateShaderModule` (`CreateShaders`);
- `host`: `vkCreateImage`, the allocation or the binding of the host image (RH 2727, 2737-2738), each
  leaving another part of it behind (`HostImageError`);
- `frame`: a call of the frame, among them those that throw inside the growth of the fragment buffers,
  between their destruction and their return (RH 2571-2590, `GrowError`).

A group is `InPlace` for a frame when its objects exist or, for the three unchecked buffers, its handle is
null; null is the best the code guarantees for them.

### RenderTarget

A renderer has its objects `ready` for one size or for none. A call of `render()` finds them ready for
its size (`Begin`) or gives them up (`Recreate`, then `Prepare`); a frame is recorded only with
everything ready for it; returning an image leaves them ready (`Finish`), returning nothing leaves
nothing to reuse (`Fail`). In `RendererResources` the objects are ready when every group the recreation
creates is in place, for `currentTargetSize` (`KeepsTarget`): the size alone is what later calls test, so
the refinement says that this test can be trusted after every failure. `SceneRenderer` knows the size
only, and is shown to use the renderer in this way (`AssumesTarget`); what it assumes of
`render()` is thus what `RendererResources` shows.

### SceneRenderer

One render at a time (ModelManager shows this), in three steps: `EnterRender` (switch test, size
test), `QueueMesh` (each object culled, appended from its kept tessellation, or tessellated anew),
`Draw` or `DrawFails` (`render()`). State is kept at the level the code keeps it: `last` and
`renderCount` per process; `remesh`, `mode`, `tess`, `imageSize` per model; vertex buffers,
pipelines, target size and material capacity per document. A tessellation is represented by the
size it was made for. `renderCount` is counted up to `MaxFramesInFlight`, the only value it is
compared with.

### IblDownload

`StartRender`, `scheduleIBLPrompt` and `EndRender` are a worker's `RenderModel` (354-399, 619-620)
under its document's `m_ModelsMutex`; they are three steps because the static `pendingPrompts` is
not guarded by one mutex for all documents, and because the GUI thread writes files meanwhile.
`gui` is the GUI thread waiting for that mutex in the middle of `performIBLDownload` (declined) or
`onIBLDownloadComplete`; while it waits it handles no event. `dialogs` is a stack, as each message
box runs its own event loop inside the one before.

| Variable | Code |
|---|---|
| `missing`, `declined` | `m_ModelsWithMissingIBL`, `m_IBLDeclinedNames` |
| `changed`, `shown` | `m_HasChanged`, and whether the cached image was drawn with IBL |
| `queue`, `pendingPrompts` | events posted to `qApp`; the debounce of `scheduleIBLPrompt` |
| `replies`, `pending`, `net` | replies in flight, `m_PendingDownloadCount`, `m_IBLNetManager` |
| `timers`, `requested` | `scheduleRefreshPixmap`; pixmap requests not yet executed |
| `posted`, `touched` | history: prompts per image, callbacks on a destroyed manager |

Undefined behaviour: a prompt on a destroyed manager is recorded and followed no further; a reply
reads `m_Destroying` from freed memory, so its file may or may not be written. Renders do not fail
here (ModelManager has their early returns), and a refreshed page is taken to be on screen.

### PageImages

A request goes `enter`, `stale` (the last page, or for preloads a cached background, while
page-view renders are suppressed), `lock` (`userMutex`), `render` (from `m_BackgroundCache` or poppler),
`store`, `paint` (`renderV3dModels`, or its exception), `unlock`, `done`. In between the GUI thread
may `Cancel` it, `Rotate`, `ChangeSettings` or toggle the suppression; opening and closing wait for
the request, as Okular does. An image records the document, page, size and settings it was made
for, whether it is whole and whether models are on it. A broken page is one for which poppler
returns no page object (GP's early return). `m_BackgroundCache` is a partial function from page, size and
rotation, as its key is.

### PageViewBinding

One manager; the managers of other documents are the environment (`OtherManager`, `OtherPosts`). The
constructor's guess is modelled as the code makes it: its comment speaks of the document's url, but
Okular sets the generator's `document()` only after constructing it (Okular's `core/document.cpp`
832-845, 938), so what is taken is the visible view of the active window or any view. `queue`
holds the `PageViewRebindEvent`s; every manager's filter on `qApp` takes every one of them, and the
filter installed last comes first (`younger`). `Tabbed` and `SameUrl` describe how the user arranged
the windows; the passing run has one document per window. `missed` is a history variable for the
three ways in which the event the manager waits for resolves nothing.

### PresentationGate

`refreshPageView`, `refreshPresentation`, `suppresses` and `refreshPixmap` are the code's gate
(1739-1857); mouse, wheel and key handlers and the download timer call it, and
`requestPixmapRefresh` may drop any frame, as the 60 Hz throttle does. What a window shows is
reduced to `fresh`: its pixmap shows the present state of the page's models. `last` tells for the
image served to a suppressed page view whether it is the latest. `source` is the raw pointer
`m_LastEventSource`: when its widget is gone, `inherits()` on it may answer anything. `button` is
the window with the held button.

The end of a presentation (`PresentationDestroyed`) changes nothing in the manager but its `QPointer`.
The code has a branch for it (1429-1452) that clears the flag and refreshes the page view, but Qt sends
`QEvent::Destroy` from `~QWidget`, where the object's class is `QWidget`: the test for
`PresentationWidget` at 1409 fails and the handler returns. So the suppression may outlive the window
(`SuppressOnlyPresenting` below), nothing makes the page view catch up, and what remains to be said is
what sets the flag (`FreezeStartsDriven`) and that requests made while it is not set are answered with
the present state (`ViewCatchesUp`).

### Installer

Each command of a script is a step, with an action for its success and one for its failure; `Stop`
ends a script between any two. The generator in place is one of the distribution's `Versions`, missing,
the plugin's build, or a truncated copy of the latter that `is_plugin_build` still recognises (`Cut`)
or does not (`Stub`). `harm` is a history variable of the mishaps that `OriginalKept` excepts: a
backup left by the older install script (`legacy`), a failed rename (`move`), an unrecognisable copy
(`tear`), and a package operation beside a running script (`race`); a package operation puts a good
generator in place and resets it. The plugin directory exists as long as a file is in it.

## Runs

Runs expected to pass:

| Run | Properties | Instance | Shows |
|---|---|---|---|
| `MM_models` | `CacheCoherent`, `DragTargetLoaded`, `RendersAtomically` | one PDF of up to 2 models, 2 views, 2 modes, 2 sizes, mouse input, reloads | no cached image predates mouse input, whatever the worker renders meanwhile; the dragged pointer never dangles; frames are as if made in one step |
| `MM_liveness` | `TypeOK`, `NoCircularWait`, `CoherentUnraced`, `GlobalsExclusive`, `RequestCompletes` | a PDF and a `.v3d` document, all inputs, 1 model and size, 2 views | renders of both documents exclude each other; threads never wait in a circle; the document that renders on the GUI thread keeps its images current although keys are pressed; every request ends, on either thread |
| `RR_faults` | `TypeOK`, `FrameObjectsInPlace`, `BuffersFreedOnce`, `CleanupForgetsNothing`, `KeepsTarget` | 4 sizes, up to 4 transparent layers, all faults | whatever fails, frames use nothing left over from frames before, the groups named are destroyed once, nothing that `cleanup` handles is lost, and `render()` keeps `RenderTarget`'s promise |
| `SR_documents` | `GeometryFresh`, `PipelinesMatchMode`, `AssumesTarget` | 2 documents of 1 model, failing renders | sharing the process-wide state is harmless for documents of one model; the renders use the renderer as `RenderTarget` allows |
| `SR_models` | `GeometryFresh`, `TessellationFresh` | 1 document of 2 models of 2 objects, 2 sizes | a frame never draws the other model's geometry, nor a tessellation of another size |
| `IBL_images` | `TypeOK`, `NoForgottenModel`, `AskedOnce`, `LastReplyCompletes`, `IblAppears` | 1 document, 1 model, 2 images of 1 file beside `refl.exr`, any files present at first, reloads and close | no model is forgotten, no image asked for twice, a batch is completed by its last reply, and an image downloaded without interference appears |
| `PI_pages` | `BackgroundSound`, `BackgroundBounded`, `ServedPage`, `RequestReturns` | 2 documents, one with models, 3 pages of which one is broken, 2 settings, a cache of 1 entry | the cache holds complete backgrounds of the open document only; what is served is the page asked for; every request returns without `userMutex` |
| `PV_binding` | `BoundToOwnView`, `FilterOnBoundView`, `RebindHappens` | 3 windows, 2 queued events, other managers | a manager works on its own document's view or its event is on the way; its mouse filter is on one view; the rebind happens |
| `PG_windows` | `OneWindowPerFrame`, `FreezeStartsDriven`, `ViewCatchesUp` | 2 pages, a page view, presentations at 2 addresses | on one screen no step makes both windows render; the page view is frozen only by a presentation that is there, driven and on its screen; while it is not frozen it comes to show what it asked for |
| `INS_scripts` | `OriginalKept`, `CompleteRuns`, `PluginNeverSaved`, `OriginalSaved` | 2 versions, 2 plugin files | the distribution's generator is in place or saved, a complete run leaves what it promises, a plugin build is never saved, and what is saved is the installed package's build |

Why the bounds are enough. Two documents are what it takes for manager mutexes to differ, and two
models for a switch; the interesting schedules need one request per generator, and Okular allows no
more. Two views, modes and sizes distinguish "current" from "older"; `MM_liveness` needs no second
size because progress depends on the locks only; its second view is what a key press undoes. For
the renderer, the sizes are chosen against the memory of 57 units: 1 and 2 fit at first, 5 has no room
for the per-pixel buffers and 24 none for the attachments; with 4 `Layers` a scene of size 2 outgrows the
first (capacity 8) or the second fragment buffer (capacity 7), in `readFeedback` and again in the next
recreation, while size 1 still has room for the grown buffers or not. So every allocation is the one
that fails in some behaviour. In
SceneRenderer documents and objects are interchangeable, hence `Symmetry`; slots are not, because
the static `lastPage`, `lastModel` start at the first one. In `IBL_images` a reload changes the
model's image, so that one model meets prompts, declines and batches of both; with `refl.exr` a
batch has two replies or one, so that order, errors and the skipped file matter. (The safety
properties also hold with two models, which the proofs cover for any number.)

`PI_pages` needs two good pages so that a full cache (one entry) is cleared by another page, a second
document for a stale entry to come from, and a broken page for the early return under the mutex;
one size is enough because the key treats sizes like pages. In `PV_binding` the third window makes the
guess ambiguous and two events let one of another manager precede the awaited one. In `PG_windows` the second
page is where a page turn goes while a drag or a request is on the first, and the second address is a new
presentation while the old one's pointer is kept. In `INS_scripts` the second version is an update under an
installed plugin, and the second plugin file makes partial copies and removals differ from whole ones.

Fairness is assumed where a run has a temporal property. In `MM_liveness` a request or a handler
that has started is code running on a thread, so it takes its next step when it can; strong fairness
says in addition that a thread waiting for a mutex that is released again and again obtains it in
the end, which the operating system's mutexes provide. Nothing is assumed of the user, of Okular
submitting requests, or of loads. In `IBL_images` the event loop and the worker go on, every network
request is answered (an error will do), a timer that is due fires and a reply that has arrived is
handled although other events keep coming, as Qt's queue guarantees; and a page's request is
executed in the end although other pages are requested again, as Okular works off the requests of
visible pages and such a page is requested again only when its pixmap is gone. Nothing is asked of
the user. In `PI_pages` the pixmap thread goes on with its request (weak fairness of `RequestStep`);
the GUI thread never keeps `userMutex`. In `PV_binding` the event loop delivers what was posted, to
whichever filter is then first. In `PG_windows` Okular serves each request it has accepted (weak
fairness of `generatePixmap` for each window and page); nothing is assumed of input, timers or
windows.

Deadlock is checked except in the two IBL runs: when all documents are closed, nothing is left to do.

## Disagreements between the code and its comments

Two runs are expected to violate the property they check; `PROJECT.json` quotes the lines.

| Run | Property | What happens |
|---|---|---|
| `IBL_managers` | `PromptOnLiveManager` | the event filter of one document (165-187) delivers the prompt of another that is closed by then, on the destroyed manager |
| `PG_frozen` | `FrozenWhileDriven` | H or M over the presentation sets the suppression flag, which only a mouse release clears: a drag in the normal window is then answered with stale images until its button is released |

The modules state further properties that the code does not have. No run lists them; to see a
counterexample, replace the `INVARIANTS` and `PROPERTY` of a configuration by the property (as an
`INVARIANT`, or as a `PROPERTY` where the table says so) and set the constants.

| Property | Configuration | What happens |
|---|---|---|
| `CacheCoherent` | `MM_models.cfg` with `Keys = {"H", "M"}` | a key is pressed while the worker renders: the handler takes no mutex (1011), the worker then clears `m_HasChanged` (619) and the frame of the old view or mode stays cached as current |
| `RequestCacheGuarded` | `MM_models.cfg` | hit tests (1493-1494) and refreshes use the request cache without the mutex that 1090-1093 and 1164 say guards it, while the worker is inside it |
| `ZoomOutRecovers` | `RR_faults.cfg` with `Sizes = {1, 2}`, `Layers = 6`, `Faults = {}` | `maxFragments` never shrinks (RH 1155, 2576), so "zoom out to recover" (RH 3723-3724, 3804-3805) does not recover |
| `DestroysLiveOnly` | `RR_faults.cfg` with `Sizes = {2, 24}`, `Layers = 0`, `Faults = {}` | out of memory in `createAttachments` (RH 1219-1232) destroys attachments that `cleanup` (RH 3246-3254) destroyed before and did not clear |
| `DestroysLiveOnly` | `RR_faults.cfg` with `Sizes = {2}`, `Layers = 6`, `Faults = {}` | out of memory at the first new fragment buffer: `readFeedback` destroyed the depth fragment buffer (RH 2571-2574) and `cleanup` destroys it again (RH 3307) |
| `DestroysLiveOnly` | `RR_faults.cfg` with `Sizes = {2}`, `Layers = 6`, `Memory = 200`, `Faults = {"frame"}` | `vkCreateBuffer` throws (RH 487) in the growth of the fragment buffers: both were destroyed and not cleared (RH 2571-2574), and the catch block's `cleanup` destroys them again (RH 3306-3307) |
| `FrameObjectsLive` | `RR_faults.cfg` with `Sizes = {2}`, `Memory = 200`, `Faults = {"alloc"}` | "a failed Vulkan call must never be silently ignored and continued on with invalid handles" (RH 33-35): a failed allocation of the uniform, the empty material or the empty light buffer is ignored (RH 759-768, 776-781, 807-812), and frames are recorded with a null buffer |
| `NothingLeaked` | `RR_faults.cfg` with `Sizes = {2}`, `Layers = 0`, `Memory = 200`, `Faults = {"host"}` | an image whose memory could not be allocated or bound (RH 2727, 2737-2738) is overwritten by the next attempt or left by the destructor, as `hostReadableDestinationImageInitalized` is still false (the groups of the next row are lost in the same behaviour) |
| `NothingLeaked` | `RR_faults.cfg` with `Sizes = {2, 4}`, `Layers = 0`, `Faults = {}` | a failed recreation leaks the uniform, material and light buffers, descriptor pool and set layout, which are only destroyed while `initialized` is set (RH 3695-3715) |
| `HostImageLive` | `RR_faults.cfg` with `Sizes = {2, 4}`, `Memory = 200`, `Faults = {"host"}` | the host image's size is recorded before its creation (RH 2639-2640); after a failure the next frame copies into a missing image |
| `ShadersComplete` | `RR_faults.cfg` with `Sizes = {2, 4}`, `Memory = 200`, `Faults = {"shader"}` | the vector of modules is sized before they are created (RH 2082-2085); after one failed `vkCreateShaderModule` pipelines use missing modules |
| `GeometryFresh` | `SR_documents.cfg` with `Slots = {m0, m1}`, `Sizes = {1}`, `RenderFails = FALSE` | the switch test (459-460) ignores the document: with two documents of two models a frame draws another model's geometry |
| `PipelinesMatchMode` | `SR_models.cfg` with `Objects = {o1}`, `Sizes = {1}` | the draw-mode synchronisation on a switch (464-468) hides the change from `render()` (RH 3666) |
| `TessellationFresh` | `SR_models.cfg` with `RenderFails = TRUE` | a failed render at a new size consumed `remesh` (524-526) and leaves tessellations of that size behind for the old one, which 484-487 compares with |
| `MaterialsFit` | `SR_models.cfg` with `MaterialCounts = {1, 2}` | the material buffer is sized for the model of the last full recreation (RH 771-800) and later filled with another model's materials (RH 3897-3903) |
| `AskedOnce` | `IBL_managers.cfg` | two workers test the static set (2171) under different mutexes, both find it without the image and both post a prompt |
| `ReplyOnLiveManager` | `IBL_images.cfg` | the document is closed during a download: the destructor (225-260) leaves the replies, whose callback (2068) reads the freed manager |
| `IblAppears` with `Alone(i) == TRUE` | `IBL_images.cfg` | a second download resets the count of the first (2034) and completes early; a model then waits again, its prompt is debounced, and it stays without IBL although 358-359 say that it is re-rendered "once the files arrive" |
| `SettingsShown` (`PROPERTY`) | `PI_pages.cfg` | `reparseConfig` asks for new pixmaps after a change of colours or hints (GP 1905-1916) and leaves the cache, whose key does not contain them: the old background is used again |
| `LastIsWhole` | `PI_pages.cfg` | a cancelled render is kept as "Last fully rendered page image" (`generator_pdf.h` 204) |
| `StaleShowsModels` | `PI_pages.cfg` | what is served as "final composite" (GP 1376) may be a page whose models could not be painted |
| `SkippingIsSafe` | `PV_binding.cfg` | "skipping the post here is safe" (1114-1116): another manager takes the event, a reload clears the mark, or no document is open when it arrives |
| `BoundToOwnView` | `PV_binding.cfg` with `Tabbed = TRUE`, or with `SameUrl = TRUE` | the visible tab, or another window with the same file, is taken for the document's view (1594-1597) |
| `DragHasWindow` | `PG_windows.cfg` | "A drag in the presentation window can never be released now" (1434-1435): `m_Dragging` stays set and mouse moves over the page view turn the model |
| `SourceExists` | `PG_windows.cfg` | `m_LastEventSource` outlives the presentation and is dereferenced by gate and hit test (1385, 1392, 1485, 1747) |
| `SuppressOnlyPresenting` | `PG_windows.cfg` | the flag is to end with "the matching mouse release (or PresentationWidget destroy)" (661-663), and "A drag in the presentation window can never be released now, so clear the suppression flag (the catch-up refresh below re-renders the PageView anyway)" (1434-1436): the branch is never reached (1409), the flag outlives the window and the page view is frozen until a button is released in it |
| `OnlyOriginalsSaved` (`PROPERTY`) | `INS_scripts.cfg` | `install.sh` 11-12 says that a plugin build is never saved: a copy cut too short to be recognised is, over the original |

Two comments contradict each other: 1847-1850 says that releasing the button triggers a refresh of
the page view, 901-907 that it does not; the code does not, and neither does the model.

## Proofs

The theorems hold for all values of the constants allowed by the named assumptions
(`ThreadAssumption`, `DataAssumption`, `ResourceAssumption`, `SceneAssumption`, `IblAssumption`,
`FileAssumption`, `NoImageAssumption`, `ViewAssumption`, `WindowAssumption`, `VersionAssumption`),
which say no more than that the special values differ from ordinary ones, that sizes, counts and
capacities are numbers and that an image has finitely many files. Where a theorem needs more, it
says so in an `ASSUME`, and the table above shows that the assumption is needed.

**ModelManagerProofs.**
`TypeCorrect` proves `TypeOK` together with `TargetInv` (a request in the middle of a model has a
model and a size), without which the assignments through `req[d].model` could not be typed.
`LocksOwned` proves `LockInv`: who owns each mutex is exactly who is inside the section, and on which
thread; a GUI-thread request runs only from the event loop or a refresh, and one at a time; at most one
request holds the globals. From it follow `RendersExclude` (`GlobalsExclusive`) and `DeadlockFree`
(`NoCircularWait`): the mutexes are always taken in the order `m_ModelsMutex`, then the globals, and
their holder waits for nothing; a handler that holds a mutex is at `held`, where no request of its
thread runs. So every set of threads has one that waits for none of the set, for any number of
documents.
`DragSafe` proves `DragTargetLoaded`, which is inductive with the types. `UnracedIsCoherent` proves
`CoherentUnraced`, without a hypothesis: the strengthening `FrameInv` says that a render of a document in
`Unraced` that is past `setProjection` still sees the view and mode it started from. Mouse
handlers change a model under the mutex that the render holds; key handlers take no mutex, and leave
a document that renders on the GUI thread alone for the reason that its render is then not running
(the part of `LockInv` about threads). `CacheIsCoherent` (`CacheCoherent`, `Keys = {}`) is the special case for all
documents. `ManagerIsAtomic` proves `RendersAtomically`, the refinement, for the same documents:
initial states map to initial states, and `SeenStep` maps each step to an abstract step or
a stutter. It needs the invariants above and `WorksOnLoaded` (requests and handlers work on models
that are still loaded), which makes `Render` and `Input` enabled when `StoreImage` and `Move` happen;
`FrameInv` is what makes the stored frame the look of that moment.

**RendererResourcesProofs.**
`ResourcesTracked` proves `ResourceInv`: a remembered target size means an initialized renderer, an
initialized renderer at rest has all its groups in place, a recreation has put in place the groups before
its step, and a rebuild of pipelines has everything else. `FramesUseObjectsInPlace`
(`FrameObjectsInPlace`) and `ResourceTypes` (`TypeOK`) follow, for every memory size, scene depth and set
of faults. The argument is that every failing exit that is noticed passes through `ReturnNull`, after
which nothing is relied on, and that an allocation nobody notices leaves null.
`BuffersAreFreedOnce` (`BuffersFreedOnce`) adds `NeverDangling`: of the handles that `cleanup` clears,
those of the environment images, passes, compute pipelines and counts never name a destroyed object,
and the groups destroyed by `render()` itself are destroyed only while `initialized`, when they are in
place. (The fragment buffers are cleared by `cleanup` too, but `readFeedback` hands them over
destroyed.) `CleanupIsComplete` (`CleanupForgetsNothing`) adds that a renderer at rest and not
initialized has none of `cleanup`'s objects live and that a recreation has none of those it is still to
create, which needs the groups of `CreateOrder` to be distinct (`LeakInv`).
`TargetIsKept` proves the refinement `KeepsTarget`: by these invariants the usable size is
`currentTargetSize` while `render()` is at rest or recording, and 0 in the middle of a recreation
(`UsableIsSize`), so that every exit, failing or not, is a step of `RenderTarget`.
Four theorems say which failures the defects listed above depend on, and that nothing else leads to
them. `FramesUseLiveObjects` (`FrameObjectsLive`) needs that no unchecked allocation fails, `HostImageIsLive` (`HostImageLive`) that no creation of the host image does and
`ShadersAreComplete` (`ShadersComplete`) that no shader module does, with every other fault and any
memory. `CleanWithoutFailures` proves `DestroysLiveOnly` and `NothingLeaked` on a device where no call
fails and memory suffices for every size with every capacity the fragment buffers can reach
(`MemorySuffices`).

**SceneRendererProofs.**
`SceneTypes` proves `TypeOK`. `TessellationIsFresh` proves `TessellationFresh` when renders do not
fail (`~RenderFails`, which is needed: see above): unless a model will be remeshed, its objects keep
tessellations of its cached image's size (`TessInv`), and OUTLINE renders never consume the flag
(`OutlineInv`). `GeometryIsFresh` proves `GeometryFresh` when the static last model is unambiguous
(`OneScene`: one document, or one model per document), even when renders fail: if all objects of the
last model would take the fast path, the document's vertex buffers hold just what they would append
(`BufferInv`, `JobInv`). `PipelinesFollowMode` proves `PipelinesMatchMode` for documents of one
model: a renderer with a target has pipelines of its `currentDrawMode` (`ModeInv`), because without
switches only `render()` assigns it. `TargetIsAssumed` proves `AssumesTarget` for any documents, models and
sizes: `QueueMesh` is a `Begin` or `Recreate`, `Draw` a `Finish`, `DrawFails` a `Fail`.

**IblDownloadProofs.**
`IblTypes` proves `TypeOK`, with the facts about destroyed managers that it contains.
`NoModelForgotten` proves `NoForgottenModel`, which is not inductive: a render decides that files
are missing long before it caches its frame. `JobTracked` bridges the two: a render in progress
without IBL has its model remembered or its image declined, which only the GUI thread could undo,
and it needs the mutex. `AskedOncePerManager` proves `AskedByEach` for any finite number of managers: two
workers may both find the static set without an image, but a manager that has asked is past its test,
and the set then has the image, so each manager adds at most one prompt. `AskedAtMostOnce`
(`AskedOnce`) is its corollary for one manager. `LastReplyIsLast` proves `LastReplyCompletes`: while one image
only was asked for, the count of a manager is the number of its replies in flight (`BatchInv`), because
a manager that downloads has no prompt left that could start another batch (`NoPromptLeft`), for which a
prompt must be in one place at most (`PromptInv`: queue, message boxes, or about to be posted).

**PageImagesProofs.**
`CacheIsSound` (`BackgroundSound`), `CacheIsBounded` (`BackgroundBounded`) and `RightPageServed`
(`ServedPage`) follow from one inductive invariant, needed because a request decides in several
steps what is cached: who holds `userMutex` (`LockInv`), that a request has a document (`OpenInv`),
that the last page belongs to it (`LastInv`), and that the image in hand is of the request's page,
size and document, without models until they are painted, and incomplete only if the request was
cancelled, which keeps it out of the cache (`Working`, `Clean`, `Early`).

**PageViewBindingProofs.**
`FilterFollowsView` (`FilterOnBoundView`) for any arrangement of windows and tabs, and `OwnViewIsFound`
(`BoundToOwnView`) for documents whose url names one view (`UrlIsUnique`): a set mark has its event in the
queue unless it was missed (`WaitsForEvent`), and a view that has requested is bound or waited for
(`BoundOrWaits`), which the steps of the life cycle respect (`LifeCycle`).

**PresentationGateProofs.**
`GateTypes` proves `TypeOK`. Two action properties follow from it and from the gate's conditions, over
all paths that lead to them: `FreezeIsDriven` (`FreezeStartsDriven`), whose key case is a pointer that may
belong to a window that is gone (`Inherits` then answers anything, but only for a pointer that was a
presentation's), and `OneWindowRenders` (`OneWindowPerFrame`).

**InstallerProofs.**
`OriginalIsKept` (`OriginalKept`), `CompleteRunsDeliver` (`CompleteRuns`) and the action properties
`PluginIsNeverSaved` (`PluginNeverSaved`) and `SavedIsOriginal` (`OriginalSaved`). A script judges a file in
one command and acts on it in a later one, so the invariant says what it knows in between: the original is saved when
the generator is about to be overwritten, and in place when the saved copy is about to be discarded
(`KnowsInstall`, `KnowsUninstall`, `KnowsBuilds`, `Safe`, `Resting`).

Every invariant, action property and refinement of the passing runs is proved, some under the
assumptions named.
Only model-checked are the temporal properties `RequestCompletes`, `IblAppears`, `RequestReturns`,
`RebindHappens` and `ViewCatchesUp`: liveness under fairness is outside the prover's reach.

## What is not modelled

Most of the repository is vendored: Okular (two versions of its generators, core and part),
Asymptote with its own dependencies, and gzip-hpp. That code is the environment of the modules here.
The plugins' own code is some thousand lines, of which the modules model the part that keeps state;
measured against the whole tree the mapped share is therefore small, and modelling Asymptote's
compiler or its garbage collector would say nothing about the plugins.

- The frame's fences, semaphores and command buffers, which `cleanup` replaces as a whole, and an
  exception thrown by `cleanup` itself. A timeline wait that times out (RH 3185) is therefore not
  modelled.
- The results of `vkMapMemory` (a mapped pointer is taken to follow its memory), the persistent vertex and
  staging buffers, and a renderer whose shader compiler could not be initialised: its constructor
  returns before there is a device (RH 255-258) and leaves `initFailed` false, so that the next `render()`
  works on a null device.
- Camera mathematics, tessellation and culling (floating point): views are names, tessellations are
  known by their size, and which objects are visible is a free choice. The zoom level of a
  tessellation is left out: `home()` and `dragModeZoom()` set `remesh`, the wheel does not (963).
- The XDR parser of V3D files, the shaders, VulkanTools: no shared state.
- Names of environment maps: their normalization (71-81) and rejection (89-114) are strings; two
  spellings of one image count as two for `pendingPrompts` and as one for the other sets. A file is
  written in one step, so a render that meets a half-written one (2099) is left out.
- The presentations of two documents: every manager reacts to every `PresentationWidget` (1409), and
  `PresentationGate` has one manager. That the throttle may drop the last frame of a drag (1728) is
  in the model, and that the position appears nevertheless is not claimed.
- `image()` reads the page's width, height and rotation before it locks `userMutex` (GP 1449-1456) to
  compute the resolution, and the rotation again for the cache key; the module has the later read only, so a
  rotation between the two, which gives a background of the wrong proportions, is left out.
- An install stopped between the generator and `libv3dCommon.so` (`install.sh` 77) leaves a generator
  that does not load until the script runs again; `Installer` has the state and claims nothing of it.
- The build and release scripts: sequential tooling. The 25.12 variant of the generators has the same
  hooks as the 26.04 one that is modelled.

## Plan

1. Conditional forms of the properties in the table above that hold on a part of the system, as
   `HostImageIsLive` and `CleanWithoutFailures` do for the renderer: `ZoomOutRecovers` for scenes without
   transparent layers, `PipelinesMatchMode` for several models without a change of mode, `SettingsShown`
   between two changes.
2. The zoom level in SceneRenderer's tessellations, beside the size.
3. The timeline semaphore and its recovery in a module beside RendererResources.
4. The 32-bit growth of `maxFragments` (RH 2576) on scaled-down words.
5. PresentationGate with two managers and their presentations.
6. Composition of PresentationGate with PageImages: the flag is a free choice in the latter. A contract
   module between the two, as `RenderTarget` is between scene and renderer, would do.
