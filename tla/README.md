# xf86-video-pvrsgx: verification project

TLA+ models, model-checking runs and machine-checked proofs for the X driver
of the PowerVR SGX on OMAP. Sources are named relative to the repository
(`src/sgx_dri2.c`, ...); `PROJECT.json` maps every definition to its lines.

Contents: 1 the system, 2 what is hard, 3 the modules, 4 the abstractions,
5 the runs, 6 fairness, 7 the proofs, 8 findings, 9 what is not modelled,
10 what is left.

## 1. The system

The driver runs inside the X server, which is one thread: a dispatch loop that
reads client requests, timers and file descriptors. One of the descriptors
delivers events of the PVR2D library: a GPU rendering is complete, a flip is on
the screen, an update was transferred. Everything below is called from that
loop, so two handlers never run at the same time; what interleaves are whole
requests and events, and what clients, the GPU and the display controller do
between them.

| component | files | state | operations |
| --- | --- | --- | --- |
| DRI2 swap queue | `sgx_dri2.c` | `swap_reqs_head/tail`, the requests with their progress flags, `completes_pending`, `flips_pending` | `schedule_swap`, `schedule_damage`, `sync_handler`, `flip_swap_req`, `flip_handler`, `dri2_kill_swap_reqs` |
| Flip buffers and DRI2 buffer hooks | `sgx_dri2.c`, `sgx_pvr2d_flip.c` | `struct pvr2d_page_flip`: front/back index, owner, per buffer `busy`, `reserved`, `user_priv`; per DRI2 buffer its name and `reserved` | `create_buf`, `reuse_buf`, `destroy_buf`, migration in and out, exchange |
| PVR2D screen | `sgx_pvr2d.c` | mapping of the framebuffer, flip pixmaps; per pixmap owner, mappings, queued operations | reset before/after a framebuffer change, event dispatch, validate/invalidate/flush of pixmaps |
| Pixmap memory | `sgx_pvr2d_alloc.c` | kind and handles of each pixmap's memory, the list of delayed destructions | allocate, resize, delayed destroy, block handler |
| SHM segment cache | `sgx_cache.c` | free segments by size class | get, put, window size, drop |
| EXA acceleration | `sgx_exa.c`, `sgx_exa_user.c` | screen state of one operation (solid, copy) | pixmap hooks, prepare/do/done, update of a pixmap's memory |
| Manual-update displays | `extfb.c` | damage record, `extfb.lock_count` | damage report, update, lock |
| Flip statistics | `flip_stats.c` | counters | one per progress step |
| Driver set-up, overlay pool, resize | `fbdev.c` | options, overlay usage, framebuffer | pre-init, `fbdev_get_overlay`/`put`, `realloc_fb`, `fbdev_crtc_config_resize` |
| CRTCs, outputs | `crtc.c`, `output.c` | overlay, mode, rotation, on/off; outputs and their update mode | DPMS, mode set, flip, update |
| OMAP overlays and displays | `omap.c` | sysfs and ioctl state of planes, managers, displays | enable, disable, pan, reallocate, update |
| Xv video port | `omap_video.c`, `sgx_xv.c` | per port: overlay, CRTC, clone, reservation, memory, rotation, colour key, timer | PutImage, ReputImage, PutVideo, StopVideo, attributes, timer |
| TV out | `omap_tvout.c` | none | scale and centre the picture of the TV |
| others | `omap_sysfs.c`, `omap_video_formats.c`, `perf.c`, `x-hash.c`, `x-list.c` | see 9 | |

How they interact. A DRI2 client asks for buffers (`GetBuffers`), draws with
the GPU and swaps. A window that covers the screen gets flip buffers; all
others get private pixmaps that a swap copies. A flip travels

    schedule_swap -> sync_req -> [render event] -> sync_handler
      -> flip_swap_req -> [flip event per overlay] -> flip_handler
      -> next request of the queue -> flip_swap_req -> ...

and lets the throttled client go on from `flip_handler`. The damage of all
other drawing reaches manual-update displays as requests in the same queue
(`extfb.c` -> `schedule_damage`). A change of the screen size kills the queue
and builds the flip buffers anew (`fbdev.c` -> `PVR2D_PreFBReset`,
`PVR2D_PostFBReset`). DPMS and mode setting switch the overlays on which flips
wait. Video ports and CRTCs share three overlays through the overlay pool. A
video is cloned to the other CRTC by a detour:

    PutImage -> clone_update -> set_mode_major of the other CRTC
      -> omap_video_clone -> that CRTC's overlay scans the port's framebuffer

and each mode set marks the ports it is shown with as dirty
(`omap_video_update_crtc`), which adds up their rotations anew.

What makes each component correct:

* *Flip buffers*: owner, users, names and reservations agree; no two clients
  draw into one buffer; a reservation lasts exactly as long as a client holds it.
* *Swap queue*: no tearing with vsync; frames are shown in order; nothing is
  shown before it is rendered; a client is let go exactly once and eventually;
  requests live until their last event; buffers do not stay busy; the assertions
  of the code hold in every order of events.
* *Manual-update displays*: damage is never dropped and is eventually sent.
* *PVR2D screen, pixmap memory, cache*: memory is never freed under a queued
  operation, never leaked nor shared; the CPU sees what the GPU wrote and vice
  versa.
* *Overlay pool*: an overlay has one user; a failed step gives back what the
  earlier ones took.
* *CRTCs*: one that is on shows the screen, or a video that is there; only
  CRTCs scan the screen's memory when it is resized.
* *Xv port*: its video is on the display it was clipped to, upright, from
  inside of the image; its clone starts, follows and ends; its memory can
  always be freed; a colour key that a client switches off comes back.
* *TV out*: the picture stays on the display.

## 2. What is hard

`PROJECT.json` lists each hazard with its line. The groups are:

* *order of events*: renders and flips finish in any order with each other,
  with the next `GetBuffers`, and with the destruction of the window;
* *changes of ownership between two requests* of one client: its names were
  already handed out when another window takes the flip chain over;
* *nested handlers*: with no event to wait for, handlers call each other with
  a request half updated and damage scheduled in between;
* *late events* of requests that a framebuffer reset killed;
* *progress*: a client is let go by the flip of another request, and with two
  buffers by its own;
* *events that fail or never come* because DPMS switched an overlay off;
* *shared overlays* and *reservations* of the pool and the video ports;
* *delayed destruction* of memory the GPU still uses, and a cache between CPU
  and memory that only the driver keeps coherent;
* *cached values*: the display, the rotation and the clone of a port are
  computed from the state of the CRTCs, which others change.

## 3. The modules

| module | models | relation |
| --- | --- | --- |
| `FlipBufs` | `struct pvr2d_page_flip` and the DRI2 buffer hooks, as operators from state to state | |
| `SwapQueue` | the swap queue, the DRI2 module that calls it, the events, the display, DPMS, resize | extends `FlipBufs` |
| `FlipChain` | what page flipping promises, without queue, events or owners | implemented by `SwapQueue` (`ImplementsChain`) |
| `PixmapMemory` | memory of pixmaps: allocation, ownership, SGX operations, delayed destruction, segment cache, migration | |
| `Overlays` | overlays, framebuffers and displays of `omap.c`, the overlay pool, pre-init, as operators | |
| `VideoGeometry` | clipping of a rotated source, sum of rotations, rectangle on the display, as operators | |
| `VideoPort` | Xv ports, CRTCs, clones, resize, colour-key timer | extends `Overlays`, `VideoGeometry` |
| `TvOut` | scaling and centring for the TV | |
| `MCSwapQueue`, `MCPixmapMemory`, `MCVideoPort` | symmetry and constant values for TLC | extend `SwapQueue`, `PixmapMemory`, `VideoPort` |
| `SwapQueueProofs` | type correctness; ownership and privacy of buffers | `Swap*Proofs` extend each other in this order |
| `SwapRequestProofs` | the life of requests, events; the flips in the queue as a chain in the ring: busy flags, throttling, length of the queue | |
| `SwapAssertProofs` | the owner's claim on the chain, reservations, the assertions of the code, its NULL pointers | |
| `SwapDisplayProofs` | what overlays are programmed with and read: tearing, rendering before showing, damage; the swap queue implements `FlipChain` | extends `SwapAssertProofs` |
| `FlipChainProofs` | the invariants of the abstract chain | |
| `PixmapMemoryProofs` | all invariants of pixmap memory | |
| `VideoGeometryProofs` | rotations add up, sources stay in images, rectangles on displays; the TV picture stays on the display, and where 32 bits suffice | |
| `VideoPortProofs` | the invariants of ports, CRTCs and the overlay pool | extends `VideoPort`, `VideoGeometryProofs` |

`FlipBufs` holds the flip buffers in one record `pf`. Its operators are the
functions of the code (`CreateBuf` is `pvr2d_dri2_create_buf`, `MigrateFromFs`
`pvr2d_dri2_migrate_from_fs`, ...), because the code calls several of them
within one request. `Require` is `assert`: the process ends as "aborted"; a
NULL pointer that is followed ends it as "segfault". `NoAssertFails` and
`NoNullDereference` say that neither happens, so the assertions are checked
properties and no assumptions.

`SwapQueue` has one action per request, event or handler:

| action | code |
| --- | --- |
| `GetBuffers`, `GetFrontBuffer` | DRI2 module -> `create_buf` / `reuse_buf` / `destroy_buf` |
| `SwapByCopy`, `SwapByFlip` | `schedule_swap` with `no_swap` / with `sync_req` |
| `DestroyDrawable` | DRI2 module -> `destroy_buf`; its pending swaps complete for nobody |
| `SetFullscreen` | another window covers the screen (`DRI2CanFlip`) |
| `DrawOnScreen` | `DamageExtFBReport` |
| `RenderDone`, `FlipEvent` | `pvr2d_notify_fd` delivers an event |
| `SyncHandler`, `FlipSwapReq`, `FlipHandler`, `FlipDone`, `ScheduleDamage` | the handlers, run from `stack` |
| `VBlank`, `TransferDone` | the display controller latches a buffer, ends a transfer |
| `CrtcDpms` | `crtc_dpms` |
| `ResizeScreen` | `fbdev_crtc_config_resize` |

Where the code calls a handler from a handler the call is put on `stack`, and
only its top may step; a request or an event needs an empty stack. So the
handlers keep the order of their side effects and no event comes between.
`flip_handler` is two actions, before and after the call to
`schedule_damage` that it makes in the middle. The two actions of the display
may come between handlers only: a handler does not read `scan`, except to
start a transfer, so they commute with its parts.

`PixmapMemory` keeps everything in the record `mem`: per pixmap its memory
(`struct PVR2DPixmap`), per segment what the hardware knows of it, the queue of
the SGX, the list of delayed destructions and the cache. Coherence is two flags
of a segment: `cpuNew`, the CPU cache holds lines that memory lacks, and
`gpuNew`, memory holds output of the SGX that the CPU cache lacks.

| action | code |
| --- | --- |
| `PVR2DModifyPixmapHeader`, `PVR2DDestroyPixmap` | EXA gives a pixmap its (new) size, destroys it |
| `PrepareAccess`, `FinishAccess` | EXA brackets a software operation |
| `SolidRefused`, `SolidBySoftware`, `SolidByHardware` | `PVR2DPrepareSolid` fails; `PVR2DSolid` by the CPU or the SGX |
| `CopyRefused`, `CopyBySoftware`, `CopyByHardware` | the same for `PVR2DPrepareCopy` and `PVR2DCopy` |
| `pvr2d_dri2_migrate_pixmap` | DRI2 gives the pixmap to a client |
| `PVR2DBlockHandler` | the server is about to sleep |
| `BlitCompletes` | the SGX finishes its oldest operation |

`VideoPort` keeps everything in the record `dev`. A request of the server runs
to its end and so is one action; its steps are operators from state to state
in the order of the code (`PutImage` is `omap_video_putimage`, `SetModeMajor`
`crtc_set_mode_major`, `FbAlloc` `omap_fb_alloc`, ...). A step that fails sets
`failed`, and the steps behind it do nothing until a caller handles it or
ignores it (`Ignoring`): these are the `goto error` and the unused results of
the code. A failing `assert` or a NULL pointer that is followed ends the server
(`server` says how). Which kind of step fails is chosen with the request.

| action | code |
| --- | --- |
| `XvPutImage`, `XvReputImage`, `XvPutVideo`, `XvStopVideo` | the requests, with the CRTC that the clipping finds (or none) as input |
| `XvSetPortAttribute`, `XvSetColorkey`, `XvSyncVideo`, `XvSetRotation`, `XvSetStacking` | `omap_video_set_attribute` |
| `KeyTimerFires` | `ckey_timer` |
| `RandRSetMode`, `RandRDisable`, `RandRPan`, `RandRResize` | the server calls `set_mode_major`, `dpms`, `set_origin`, `fbdev_crtc_config_resize` |
| `DpmsSet`, `PageFlip` | `crtc_dpms`, `fbdev_flip_crtcs` |
| `ClientAlloc` | a client with the reserved port allocates through `/dev/fbN` |

## 4. Abstractions and assumptions

* *External code.* The DRI2 module of the server is modelled from the hooks it
  calls: it creates, reuses or (after a resize of the window) replaces
  buffers, destroys those the request did not keep, and blocks a client while
  a swap of its drawable is pending. While buffers of a resized window are
  replaced both generations exist; the third component of a DRI2 buffer tells
  them apart, and `Settle` renames the new ones once the old are gone. A fake
  front buffer is a private pixmap and left out.
* *Swap control* is FLIP. With BLIT `DRI2CanFlip` is never asked, which is
  `fs = NoDraw` for ever, a subset of the behaviours.
* *At most one window* is flip capable at a time (`fs`).
* *Memory.* `calloc` hands out the lowest free address: the worst case for a
  late event that finds a recycled request. Allocations do not fail. Contents
  of buffers and pixmaps, the poison of `poison_swapbuffers`, and the
  composite redirection test of `check_front` are left out.
* *Names.* What a client was told to render to is a flip buffer index, the
  value `Private`, or `Gone` once a reset freed the memory.
* *Areas* stand for damaged regions: merging is union.
* *DPMS* only touches the overlay of the CRTC, on or off.
* *Resize* of the screen is followed by `update_flip_pixmaps`, which follows
  cleared pointers (finding `resize_screen`). `KeepPixmaps = TRUE` is a
  what-if: it leaves these pointers alone, so that the logic of killed
  requests can be checked past the crash. It changes one field of one operator.
* *Drawable ids* are not reused.
* *Bounds of `SwapQueue`*: `MaxReqs` (requests allocated at a time), with the
  guard `Room` (two free addresses) on the requests that allocate; `NumBufs`;
  the sets of windows, overlays and areas. Nothing else is bounded.

Of `PixmapMemory`:

* *The SGX* finishes operations in the order they were queued; a segment is
  read and written as a whole. The PVR2D library refuses memory that is not
  mapped; a new mapping counts writes from zero (`done`, `seen`).
* *Between* `PrepareAccess` and `FinishAccess` only the SGX goes on (`NoAccess`).
* *Pixmaps* of flip buffers and of the root window have no memory of their own
  here; a window's size is constant (`CachedSizes`).
* *Bounds*: `Segments`, `MaxQueued`, `MaxWrites` (in `CanQueue`),
  `MaxWrapFailures` (mappings that fail in a row).

Of `Overlays` and `VideoPort`:

* *The kernel* refuses to change memory that is mapped or scanned, and to
  enable a plane without memory; other failures are the constant `Faults`. An overlay that changes its
  display is switched off for that and on again; that the second may fail is ignored by
  the code (`overlay_set_output`) and modelled (`AssignDevice`).
* *Clipping* is its result: the CRTC that shows most of the video, or none.
  Coordinates are "have changed" or not.
* *Defaults*: images are double buffered and waited for; which of the two
  buffers is written is not tracked. `setup_plane` ignores a failing set-up.
* *Timings, alpha, tearing sync* and the pushing of updates to manual displays
  are left out.
* *RandR* takes a CRTC back to its state before when a mode is refused.

Of `VideoGeometry` and `TvOut`: C's quotients are of numbers that are not
negative, except `>> 16` of the clipping, which is the floor and so `\div`.

## 5. The runs

The `swap_*` runs and the next two are instances of `MCSwapQueue`, where overlay `lcd` is automatic and
`panel` needs manual updates; `pixmaps` and `migrate_cached` of
`MCPixmapMemory`; the others of `MCVideoPort`.

| run | instance | question |
| --- | --- | --- |
| `swap_vsync` | 2 windows, 3 buffers, 5 requests, vsync and synchronous rendering | assertions, tearing, privacy, ownership, reservations, order, throttling, busy flags, bound of the queue, refinement of `FlipChain` |
| `swap_no_vsync` | the same without vsync and render synchronisation | assertions, null pointers, busy flags and damage with nested handler calls |
| `swap_reset` | 1 window, 2 buffers, 4 requests, the screen is resized | assertions, life cycle and completion of killed requests |
| `swap_live` | 1 window, 2 buffers, DPMS, failing event requests, fairness | clients go on, the queue drains, damage is shown |
| `front_buffer_only`, `resize_screen` | as `swap_vsync`, each with its one interesting input | section 8 |
| `pixmaps` | 2 pixmaps, 2 segments, 3 queued operations, 2 failing mappings | leaks, sharing, early freeing, coherence |
| `migrate_cached` | the same with malloc pixmaps of a window's size and 3 segments | section 8 |
| `video_ports` | 1 port, 2 CRTCs, all attributes but stacking and the value of the colour key, 2 rotations, failing mappings, DPMS of the TV | assertions and mappings, display, colour key, rotation |
| `video_clone` | 2 ports, 2 CRTCs, failing display assignments and set-ups, DPMS of the LCD | pool, waits for clones, screen, clones, memory |
| `reserve_overlay`, `clone_key` | 1 port, the one or two interesting attributes | section 8 |

What the properties of the passing runs say:

| property | says |
| --- | --- |
| `TypeOK` | indexes, queue, events and calls keep their form |
| `NoAssertFails` | none of the assertions in `sgx_dri2.c` fails |
| `NoNullDereference` | `migrate_from_fs` finds both buffers; a reset finds its pixmaps |
| `NoTearing` | with vsync no overlay shows, or will show, a buffer that a client may draw into |
| `OneClientPerBuffer` | no two clients are told to draw into one flip buffer |
| `OwnershipAgrees` | flip buffers, owner, users and names agree; no old generation is left |
| `ReservationExact` | `reserved` is set of exactly the buffers clients hold |
| `RenderedBeforeShown` | no frame is shown before its render event |
| `ThrottleExact` | a client is blocked exactly while a swap of its is uncompleted, one at a time |
| `EventsMatchRequests` | a request lives until its last event, and no longer |
| `BusyIsInFlight` | `busy` is set of exactly the newest buffer and those a queued flip replaces |
| `DamageCovered` | drawn areas are carried by a queued request |
| `QueueBounded` | merging keeps the queue as short as the ring of `NumBufs` buffers (`2 * NumBufs - 1` without vsync) |
| `ImplementsChain` | the queue refines `FlipChain` |
| `ClientsProceed`, `QueueDrains`, `DamageShown` | progress |
| `SegmentsHeldOnce` | an attached segment belongs to one pixmap, or entry of the cache or of the delayed list; a detached one to none |
| `BusyMemoryKept` | memory stays attached and mapped while the SGX has to do with it |
| `DelayedIsWatched` | the block handler is wrapped as long as memory waits |
| `CpuOwnedIsCurrent` | memory of the CPU has no operation under way and no stale lines |
| `GpuOwnedIsFlushed` | memory of the SGX lacks no line of the CPU cache |
| `PoolExact` | `ovl_usage` and the overlays that CRTCs and ports hold agree |
| `ScreenScannedByCrtcs` | no overlay but those of CRTCs scans the screen |
| `PlaneStepsSafe` | no step disables, enables, sets up or assigns an overlay that its port or CRTC has given back, waits for one that its port has given back, maps memory that is not there or writes through a mapping that is gone; four steps of which this is not true are named in its comment and below |
| `CloneWaitsSafe` | `clone_sync` finds an overlay to wait for on the CRTC that clones |
| `PortShownOnItsDisplay` | a video feeds the display it was clipped to |
| `KeyGuarded` | while an active port knows its CRTC and wants no colour key there, the key is on or the timer is armed |
| `PictureUpright` | the cached rotation is the sum of the present ones, for every point |
| `CloneShown`, `CrtcShowsScreen` | clones start, and end |
| `MemoryReturned` | a port without overlay has no memory |

Why the bounds suffice. Two windows are all that ownership is about: the owner
and the one that evicts it. Three buffers is the largest value that the driver
accepts and the smallest with a buffer that is neither front nor back; two is
where the request that completes a swap is also the one that is freed. One
overlay of each kind gives two events per flip that arrive in any order, one
of them by transfer. Five requests are three flips and two damage updates,
more than the queue ever holds between events, so that `Room` never holds
back a request: `Idle => Room` is true of every state of `swap_vsync`,
`swap_no_vsync` and `swap_live`. In `swap_reset` it is a real bound, because
killed requests stay allocated until their events arrive: four addresses hold
two killed requests next to a flip and its damage, so a late event meets a new
request of either kind. `swap_vsync` disables the
deadlock check only because it lets clients ask for front buffers alone, after
which the process may end (finding `front_buffer_only`); the other passing
runs check that there is no deadlock.

`pixmaps`: two pixmaps are a source and a destination; two segments make each
allocation compete with the cache and the delayed list; with a cache of one, the
second segment of its size overflows it; three operations let one segment be
read and written while another waits, and two failing mappings reach both forms
of `PVR2DDelayedMemDestroy` inside of a validation (the third failure is a case
of its own, section 9). `MallocSizes` and `CachedSizes` are disjoint in
`pixmaps`, so that no migrated pixmap finds a cached segment (finding
`migrate_cached`).

`video_ports`: one port against two CRTCs is enough for displays, keys and
rotations, which never relate two ports. One size of image means that a
reallocation meets either no memory or that size; the client of a reserved port
may allocate it at any time. No output has the option that shows clones, which
`video_clone` is about, but the port still sets the mode of the other CRTC for
them, as the code does. The two rotations are upright, and a quarter turn of a
reflected picture, for which every branch of the sum differs; the LCD
leaves rotation to the overlay, the TV does it. That the sum is right for all 256
pairs is proved. Mappings fail in the middle of PutImage, after the overlay was taken and the
memory allocated, and with a reserved port too; DPMS takes overlays from the TV while the port is
on it. `PlaneStepsSafe` counts every death of the server but six:
panning (`pan`), the wait for a clone (`sync`, which is `CloneWaitsSafe`), PutVideo and
the release of the reservation after a failed PutImage on a reserved port (`refresh`, `release`;
they are reachable in `video_ports` itself, section 8), the assertion of the reservation
(`reserve`, the finding `reserve_overlay`), and the fatal error that `realloc_fb` raises (`fatal`). What the other kinds of failures do to `PlaneStepsSafe` is
proved, not run. `video_clone`: two ports and two CRTCs are all there are, so
four users compete for three overlays. A port may ask for a particular overlay
(`XV1`). A mode is refused at the assignment of a display or at the set-up of a plane, for the LCD and, through
the clone, for the TV, which then has given its overlay back and must not count as on
(`CloneWaitsSafe`). The clone attribute, reservations and DPMS of the cloning CRTC are left
out of `video_clone`: each would show
an observation of section 8 instead of answering the run's question. Its
clones end by stops, moves, mode sets and failures. These runs
allow the end of the server, hence no deadlock check; in `pixmaps` there is one.

`vsync` and `render_sync` are equal in all runs: the driver reads both from
the same option (`fbdev.c:769`), so that the other combinations are
unreachable.

DPMS is not part of `swap_vsync`: an overlay that is switched on shows the
buffer it was panned to before it went off (hazard at `crtc.c:276`), which may
be a client's until the next flip.

## 6. Fairness

`FairSpec` assumes: a handler that was called goes on (`WF ServerCall`); the
GPU finishes what was queued and the event is delivered (`SF RenderDone`);
every overlay has vertical blanks and ends its transfers (`SF VBlank`,
`SF TransferDone`); every flip event that the kernel accepted is delivered
(`SF FlipEvent`, per overlay). It is strong because a client's request may
come between any two events: the dispatch loop polls the event descriptor on
every pass, so that a stream of requests delays but does not suppress it, and
the hardware goes on in the meantime. Clients and users owe nothing: they may
stop at any time or go on for ever. DPMS may switch an overlay for ever: the
kernel sends the event of an inactive overlay at once, which is what
`FlipEvent` says.

## 7. The proofs

All for every number of buffers (at least one), windows, overlays, areas and
requests, in every configuration, the resize of the screen included. The
assumptions are `FlipAssumption` and `SwapAssumption`: sizes are positive,
`Manual` is a subset of the finite set `Overlays`, switches are Boolean, and the marker
values differ from windows, numbers and buffers. TLC evaluates them in every
run.

* `TypeCorrect`: `Spec => []TypeOK`. The invariant is inductive. There is one
  lemma per operator of `FlipBufs`, one per helper of the queue, one per action.
* `OwnershipStaysInOrder` and `BuffersStayPrivate`:
  `Spec => []OwnershipAgrees`, `Spec => []OneClientPerBuffer`. `OwnershipAgrees`
  speaks of the states between requests. Within `GetBuffers` of a resized
  window the old buffers still name flip buffers whose `user_priv` is already
  the successor, so the lemmas about `FlipBufs` carry `Good(s, old)`,
  agreement up to a set `old` of buffers being replaced; those about `SwapQueue` show that
  `old` grows by what is replaced (`ProvideGood`), shrinks by what is destroyed
  (`DropBufGood`), and is empty when the request ends (`SettleGood`). The
  inductive invariant is `Owned(pf)` (`Good` with `old = {}`, and no buffer of
  the second generation) together with `TypeOK`. A process that died satisfies
  it trivially, so the theorem needs no proof that assertions hold; conversely
  several steps use what an assertion has just checked. Privacy follows: two
  buffers that name flip buffer `i` are both `user[i]`.
* `RequestsLive`, `EventsFindRequests`: `Spec => []EventsMatchRequests`. That an
  event finds its request says nothing of the requests that handlers have in hand,
  so the invariant is the life cycle of every request (`LifeCycle`): the queue holds the
  live ones once each (`QueueIsLive`), a free address has no events
  (`FreeIsQuiet`), each call on the stack finds its request in the state it was
  made for (`StackInOrder`: `SyncReady`, `FlipReady`, `Flipping`, `Flipped`), all other
  requests wait for exactly their outstanding events (`OthersRest`), and only the
  first request of a class is issued (`IssuedIsFirst`).
* `RingInOrder`, `BusyStaysExact`, `ThrottleStaysExact`, `QueueStaysBounded`: the
  flips in the queue are a chain through the ring of buffers (`Ring`): each one's
  front buffer is the back buffer of the one before (`Linked`), no two replace
  the same one (`FrontsApart`), and the last ends at `front_idx`. The busy flags are those
  of the chain, between the parts of a handler too (`BusyExact`), at most one request
  is uncompleted, and it is one that a client waits for (`Waiting`), the flip count follows the
  request on its way (`FlipsExact`), and no buffer is updated twice
  (`UpdatesApart`), whence the bound of the queue.
* `ClaimsInOrder`, `AssertionsHold`, `ReservationStaysExact`:
  `Spec => []NoAssertFails`, `Spec => []ReservationExact`. An assertion is checked in the
  middle of a request on what several earlier requests left, so this joins all the parts
  above (`Joined`) with the claim of the owner on the chain (`Claim`): an owner is shown
  in the ring (`OwnerShown`), the reserved flag is set of exactly what clients were handed
  (`ReservedExact`), and the owner has both of its buffers or only those
  (`OwnerHolds`); and nobody becomes owner while the uncompleted swap of
  another window waits (`OwnerUnwaited`), which is the throttling of clients, the
  busy flags and the ring taken together. Within `GetBuffers` the
  claim is carried up to the buffers that will be dropped (`Claimed(s, drop)`).
  An assertion cannot be shown from the type and the ownership alone:
  `LeaveIfNotCapable`, for one, asserts that the buffer which is
  asked for is the one shown, which fails unless the back buffer of
  the owner is free whenever its client runs.
* `NothingNullRead`: `Spec => []NoNullDereference` if `~FrontOnly` and
  `~Resize \/ KeepPixmaps`. The two hypotheses are the two findings of section 8, so
  the theorem says that these are all. A drawable has both of its buffers or none (`Paired`,
  in the invariant `NullSafe`), hence an owner is shown with both (`OwnerWhole`). Within
  `GetBuffers` the owner that the second attachment meets may be half way in;
  then it is the requesting window, which does not evict itself because it is
  fullscreen (`Evictable`).
* `DisplayInOrder`, `NothingTears`, `RenderedFirst`: `Spec => []NoTearing`,
  `Spec => []RenderedBeforeShown`. `NoTearing` relates the overlays to what clients
  hold, and neither says where the overlays are in the ring. `Display` does: an overlay
  is programmed with the buffer that the first unissued flip replaces, or with
  `front_idx` if every flip is issued (`PanExact`), and what its hardware reads besides
  is replaced by a queued flip that still waits for this overlay (`ScanExact`). So all
  that is shown is `Occupied` by the chain, while a reserved back buffer is not, because
  nobody is handed it before all swaps are completed. Two hypotheses are needed and not
  only convenient: `~Dpms`, because an overlay that is switched on shows an old buffer
  (hazard at `crtc.c:276`), and `~EventsFail`, because a flip whose event request failed
  counts as shown at once. `RenderedFirst` also excludes `RenderSync` without `VSync`
  (which the driver cannot have): flips then replace what is shown without waiting.
* `DamageStaysCovered`: `Spec => []DamageCovered`. Within a handler the damage is with
  a call of `schedule_damage` on the stack or with the request that a handler has in hand,
  and without vsync a flip carries damage only as long as its own handler runs
  (`DamageKept`: `Covered`, `FlipsRun`). Without synchronous rendering this is so; with
  `RenderSync` alone the statement is false, when a window is destroyed before its frame
  is flipped, hence the hypothesis `VSync \/ ~RenderSync`.
* `ChainStaysArc`, `DrawStaysFree` (and `ChainTypeCorrect`): the frames in
  flight of the abstract chain are the arc of the ring that follows the shown
  buffer, and the buffer a client draws into is outside it. `DrawIsFree` alone
  is not inductive: `SubmitFrame` moves `draw` on, and only the arc says that
  the next buffer is free once `Acquire` finds it so.
* `ImplementsFlipChain`: `Spec => ImplementsChain`, every behaviour of the swap queue is
  one of the chain (so what `ChainStaysArc` and `DrawStaysFree` say of the chain holds of
  the queue), with no hypothesis on the constants: `VSync`,
  faults, DPMS and resize may be as they like. The mapping names the place of a flip by how
  many flips come before it (`Nth`); `Places`, `FirstPlace` and `LastPlace` turn the
  order of the queue into the sequence of the chain and say what taking the first flip and
  adding a last one do to it. On the joint invariant `Joined`,
  `FlipDoneChain` makes a completed flip the step `Show`, because events complete the flips
  in the order of the ring; `SwapByFlipChain` makes a swap by flip a `SubmitFrame`, also
  when an assertion has ended the server in its middle; the buffer hooks
  are `Acquire`, `GiveUp` or nothing (`Grabs`, proved of each part of `GetBuffers` and carried through
  by `GrabsTransitive`), where `Acquire` needs that a buffer not in use by the chain is
  exactly one that is not busy (`InUseIsOccupied`, `BusyExact`); a resize is `Reset`;
  everything else stutters.

The geometry of videos is proved from `GeometryAssumption` alone (images have
positive sizes, the unit of the X server's fixed point is positive; its value,
2^16, does not matter):

* `OverlayUpright`: `RotationsAddUp`. For every image and each of the 16 x 16
  rotations, what `update_rotation` adds up, turned into omap's terms (mirror
  after rotation, clockwise, no vertical mirror), takes every point where the
  two rotations of RandR take it. Both sides are linear in the coordinates; the
  proof first turns the rotation of the overlay into a formula for points
  (one case per number of quarter turns), then splits on the rotations.
  `PictureUpright` is the same of a running port, whose sum may be stale:
  `PictureStaysUpright` (below) shows that it is not.
* `SourceInImage`: `ReadsTheImage`. For every image, source, rotation and
  clipping, the rectangle that is read lies in image and source. The lemma
  behind it says that rounding down the corner and the length of an interval
  stays inside of it.
* `OutputBoxTurned`, `OutputOnDisplay`, `ModeOnDisplay`: the rectangle on the
  display is the one RandR's rotation says, lies in the rectangle of the CRTC
  however that is scaled, and a mode is centred on its display.
* `TvOnDisplay`, `AspectProductFits`, `AspectProductOverflows`: the TV picture
  lies on the display in integers without bound; the products fit into 32 bits
  up to 575 : 1, and do not for 800 x 1.

`TvOut` and the operators of `VideoGeometry` that `VideoPort` does not use have
no state and no run: they are proved.

The memory of pixmaps is proved from `PixmapMemoryAssumption` (segments and sizes are positive
numbers, bounds are natural numbers), for every number of pixmaps, segments, cached sizes and
operations of the SGX:

* `PixmapInvariant`: `Spec => []PixmapInv`, whence `PixmapTypeCorrect`,
  `DelayedStaysWatched`, `SegmentsStayHeldOnce` and `BusyMemoryStays`. A handler takes memory from a
  pixmap, may free other memory, allocate, and only then frees or delays what it took, so
  none of the invariants holds between its steps. The lemmas therefore speak of `Good(m, H)`: the state `m`
  is in order if the set `H` of memory in hand is counted among its holders; `PixmapInv` is
  `Good(mem, {})`. Its parts: all memory is in a state its code expects
  (`AllFine`), no segment has two holders (`Apart`), the attached segments are those that are held
  and what the SGX works on is attached (`Attached`), queue and cache keep within their bounds (`Bounded`).
  There is one lemma per operator and one per action. That the SGX works on mapped
  memory that it owns (`Quiet`) is what makes `BusyMemoryKept` inductive: freed without
  a question is only what is not mapped or belongs to the CPU.
* `CpuOwnedStaysCurrent`: `Spec => []CpuOwnedIsCurrent` if `FewFailures`, that is,
  `PVR2DMemWrap` works at the third try at the latest. What the SGX wrote must be noticed by the next flush,
  which compares numbers of writes (`Current`: `seen < done` if `gpuNew`). The hypothesis is
  needed: with three failures TLC violates the invariant, because `PVR2DUnmapAllPixmaps` takes the
  mapping, and with it the number of writes, from pixmaps that the SGX owns (hazard at `sgx_pvr2d.c:439`).
* `GpuOwnedStaysFlushed`: `Spec => []GpuOwnedIsFlushed` if `FewFailures` and `NoneCached`
  (no size of a pixmap in normal memory is a cached size). Unflushed writes exist only for memory
  that the CPU owns and that is marked so (`Flushed`). Again both are needed: after three failures a
  copy goes ahead with a source that is not mapped (`sgx_pvr2d.c:555-569`), and
  without `NoneCached` the run `migrate_cached` is the counterexample.

Loops (the queue of the SGX, the delayed list) are recursive functions of the number of rounds.
`Rounds` proves that such a function exists for any step, `LoopStays` that it
preserves what each of its rounds preserves, both from the least element of a set of
natural numbers (`Least`), because the prover cannot use the library's induction rule. TLC checked
`PixmapInv` on small instances, with and without the two hypotheses, before it was proved.

The Xv ports are proved from `OverlaysAssumption`, `GeometryAssumption` and
`VideoPortAssumption` (sizes are positive numbers and the screen has one of them, the sets
of attributes, faults and stackings hold what the code knows, the markers are no overlays,
framebuffers or CRTCs), for every set of ports, attributes, sizes, rotations, clones and
faults, DPMS of both CRTCs included:

* `VideoPortInductive`: `Spec => []IInv`. `IInv` is `Sound(dev)`: the tables are well typed,
  no failure is left over, the server has not died of a plane step (`Doomed`), and apart from
  being alive all is `Good`. `Good` has a part that ports and CRTCs have in common and one per port:
  * `Shared`: the pool agrees with its users (`PoolOf`), an overlay is on only while it is
    taken, the screen always has memory, a size the driver
    remembers is memory the kernel has, the overlay of a port scans its
    framebuffer, and is on only while the port is active, which has an overlay.
    The last two are what `PoolExact` and `ScreenScannedByCrtcs`
    lack: an overlay that is given back while it still scans something, or goes
    to a CRTC while it scans a port's memory, breaks them a request later.
  * `PortFine`: a port with a CRTC is active; its overlay feeds that CRTC and its cached
    rotation is that of the two (`Aimed`); an active port that is not dirty and whose memory is laid out in buffers
    has it mapped (`Filled`); its key is guarded (`Guarded`); and if no client sets the clone attribute,
    a port whose overlay is on has a CRTC (`Placed`).
* The proof follows a request step by step. A step made for a CRTC (`CrtcSteps`) keeps
  `Shared`, and leaves to every port its overlay and its place. A step made for a port
  (`PortSteps`) does so for the other ports only. Its own may be between two CRTCs, without memory or
  with a key that was just turned off, and `PortFine` returns with the end of
  the request: by the last step if all worked, by `Stop`, `GiveUp` or `error_put_overlay` if one
  failed. Each operator has a lemma for its effect and one for the failure it may end
  with, because the code behind a failure runs with half of the work done.
* A request in which the server dies keeps the last state before it (`Ended`), so the invariant also holds of
  a dead server. That it has not died of `overlay`, `map` or `copy` is `PlaneStepsSafe`: each of these
  assertions is shown where it is made, from the steps before it. The theorem covers what
  the property covers: panning (`pan`), the wait for a clone (`sync`), PutVideo (`refresh`) and the release
  (`release`) of a reserved port are not among these deaths, because there an overlay that
  was given back is used (section 8).
* `VideoTypeCorrect`, `PoolStaysExact`, `ScreenStaysWithCrtcs`, `PlaneStepsStaySafe`,
  `PortStaysOnItsDisplay`, `PictureStaysUpright` follow without any hypothesis. In the last one
  `Aimed`, that the cached rotation is the present one, meets `OverlayUpright`, that
  the sum is right for all images.
* `KeyStaysGuarded`: `Spec => []KeyGuarded` for at most one port and without the attribute `colorkey`.
  Both are needed and are observations of section 8: XV_COLORKEY turns the key off again after the timer
  has fired, and a second port on the display turns the first one's key off. It says
  nothing of a port without CRTC, and so not that the key always comes back. That is
  `KeyAlwaysReturns`: `Spec => []KeyReturns` if clients leave the clone attribute alone as well. `KeyReturns`
  looks at the overlay and not at what the port remembers: as long as it is on, the key of the
  display it feeds is on or the timer is armed. `Placed` and `Aimed` bring the two together. The third
  hypothesis is the finding `clone_key`.

* `PlainCrtcsShowScreen`: the overlay of a CRTC outside of `Clones` scans framebuffer 0 whenever it is
  on, without any hypothesis. The LCD is such a CRTC in every build: `XvCloneFullscreen` is a property
  of the TV output alone (`output.c:464-478`, on by default). Its invariant `ScreenOnly` (such an overlay scans
  the screen, or nothing while it is off) does not speak of requests: every single step keeps it (`Seen`), because
  an overlay is given another framebuffer only by the port that owns it, by a CRTC that
  gives it the screen, or by `clone_start`, which wants a CRTC in `Clones`. It rests on the part of the pool that holds
  between steps too (`Owned`: nobody holds an overlay that is taken for another).
  `ScreenStaysShown` is `Spec => []CrtcShowsScreen` if `Clones = {}`.
* `MemoryStaysReturned`: `Spec => []MemoryReturned` if `Clones = {}`, no client reserves a port, and the
  kernel does not refuse to free memory for a reason of its own (`free`). The invariant is `Neat`: kernel, framebuffer
  and port agree about a port's memory, only a port with an overlay has any, and it is mapped only
  while the port is active. It holds between any two of the operators a request is made of, most of which leave all
  of it alone (`Unmoved`). That the kernel does not refuse `free` is what has to be shown: the mapping is
  gone (`stop_video` comes first) and no overlay that is on scans the memory, that of the port because
  it was disabled before, those of CRTCs because they scan only the screen (`ScreenOnly`), those of other ports
  because they scan their own (`Shared`). Each hypothesis is needed: a clone may go on scanning the memory
  (section 8), and a client of a reserved port allocates through `/dev/fbN` what the driver does not remember.

Only model-checked: the liveness properties and everything that needs fairness
or ENABLED, which are out of the prover's reach, and `CloneShown` and `CloneWaitsSafe` of `VideoPort`. With clones,
`CloneShown`, `CrtcShowsScreen` and `MemoryReturned` are false in general because of the observations of section 8 (the clone
attribute, DPMS of the cloning CRTC, a larger image, a refused plane); the run `video_clone` checks all three on an
instance that leaves these out and has a clone. `CloneWaitsSafe` is false in general too, as soon as DPMS switches the
cloning CRTC (section 8).

## 8. Findings

* `front_buffer_only`: a window owns the flip chain as soon as one of its
  buffers is in it; `migrate_from_fs` asserts that both are and reads through
  the one that is missing. In `swap_no_vsync`, where clients always ask for
  the back buffer as well, this does not happen (`NoNullDereference`).
* `resize_screen`: `pvr2d_page_flip_destroy` clears the pixmap pointers that
  `PVR2D_PostFBReset` needs to reset the mappings of "all 'screen' pixmaps".

* `reserve_overlay`: PutImage takes an overlay before it knows whether anything
  is visible, and returns without giving it back; XV_OMAP_FBDEV_RESERVE then
  fails the assertion that there is none.
* `migrate_cached`: a pixmap is copied into a segment from the cache whose
  `bCPUWrites` is FALSE, so that giving it to the SGX flushes nothing.
* `clone_key`: `ckey_timer` is there "so that a misbehaving client can't prevent
  popup notifications indefinitely" (`omap_video.c:446-447`). Setting the clone
  attribute clears the CRTC of an active port (`omap_video.c:1106`), for which
  `setup_colorkey` returns early (`omap_video.c:432-435`). A client that disables the
  key and then sets that attribute keeps it off: the timer fires, does
  nothing and is gone, while the overlay is on. The next image repairs it, if the
  client sends one.

Also seen while modelling, without a run, because no comment, test or assertion
says otherwise or because the cause lies outside of the models:

* `kill_swap_req` indexes the flip buffers with `SWAP_INVALID_IDX` for damage
  updates (`sgx_dri2.c:741`).
* `RenderSync` is read from the `VSync` option (`fbdev.c:769`); the range check of
  `PageFlipBuffers` tests the default (`fbdev.c:782`).
* `crtc_dpms` sets `dpms` before it asks for an overlay and leaves it set when there is
  none (`crtc.c:257`, `277-280`); a CRTC that clones then counts as on, and the
  assertion of `omap_overlay_wait` (`omap.c:1811`) fails in `clone_sync`. It takes an empty
  pool, that is, two ports with overlays, or a display assignment that
  fails. `CloneWaitsSafe` is checked where DPMS switches the other CRTC only.
* The in-order count of `flip_stats.c` is meant to check for "unfinished renders ahead of
  this request" (`flip_stats.c:36-37`), but line 40 skips exactly the unfinished
  ones. It is a statistic that nothing else reads.
* A PutImage that fails on a reserved port gives its overlay back, while
  `fbdev_reserved` stays set: a release of the reservation then fails an
  assertion (`server = "release"`), PutVideo looks for a NULL overlay.
* Setting the clone attribute of an active port clears its CRTC. If the next
  image is clipped away, `clone_crtc` is cleared without `clone_stop`, and the
  other CRTC goes on scanning memory that is freed later. The same happens when
  the cloning CRTC is off by DPMS while the clone ends (`clone_stop` skips it)
  and is switched on again.
* A larger image while it is cloned: alloc_mem disables the port's plane, not
  the clone's, so the kernel refuses the new size; `putimage` then stops the
  port without `clone_stop`.
* `omap_video_stop` turns the colour key off after `stop_video` has cleared the
  CRTC, which makes it a no-op; an armed timer survives the adaptor; setting
  XV_COLORKEY after the timer has fired turns the key off without a timer. The key
  belongs to the display: a port that is shown on it turns it on or off for another.
* ReputImage after PutVideo reaches `assert(0)`.
* `realloc_fb` ends the server if no overlay reaches framebuffer 0.
* The memory that a client of a reserved port allocated through `/dev/fbN` is
  not freed if it is mapped when the client ends.
* A CRTC overlay that DPMS takes anew may still feed another display; a CRTC
  without an overlay is panned.
* A second port that is shown on a CRTC which clones the first is scaled by
  the size of the first one's video.
* A rotated port is cloned unrotated: `set_mode_major` uses the rotation of its
  CRTC alone.
* `PVR2DValidate` without cleanup reports success after the third failure with
  nothing mapped (`sgx_pvr2d.c:555-569`). The pixmap of a solid fill by
  software stays with the CPU.
* Segments of the size of the old window stay in the cache after a resize
  (`sgx_cache.c:97`); a later pixmap gets memory of another size than
  the comment at `sgx_cache.c:179` says.
* Newer entries of the delayed list hold up older ones, so nothing is claimed
  about when memory is freed. The saved block handler is static and survives a
  regeneration of the server.

## 9. What is not modelled, and why

* `omap_sysfs.c`: reads and writes of attributes, no protocol.
* `omap_tvout.c` but for the scaling: the signalling of the aspect ratio is a table
  and a parity, the attributes are values for sysfs.
* `omap_video_formats.c`: copies between pixel layouts.
* `perf.c`, `flip_stats.c`: counters that are printed.
* `x-hash.c`, `x-list.c`: a container library used by `perf.c`.
* `output.c` but for updates: properties and EDID as text of sysfs.
* `omap.c`: the encoding of ioctls, timings, tearing sync, the probing of overlays.
* `sgx_exa.c`, `sgx_exa_user.c`: composite, uploads, pixmaps of root window and
  flip buffers, the rendering of clients; `PVR2DInvalidate` by itself and the third
  failing mapping, after which a validation reports success with nothing mapped.
* `sgx_cache.c`: a change of the window size.
* `sgx_xv.c`: textured video, blits of the SGX without state of their own.
* `fbdev.c`: parsing of options, regeneration of the server.
* Failing allocations of host memory (`malloc`, `calloc`).

## 10. What is left

The plan of this project has been carried out but for two points. `DriverConf`
(options) was given up: it would restate assignments. The abstract pool of
`PixmapMemory` was replaced by `SegmentsHeldOnce`, which says the same in one line.

Of the invariants, `CloneShown` and `CloneWaitsSafe` are not proved, and `CrtcShowsScreen` and `MemoryReturned` only where no
output shows clones. With clones their strengthening would say which CRTC clones which port (`cloneCrtc` and the
framebuffer of the CRTC's overlay agree) and would hold between two calls of `clone_update`. It is worth stating
once the code ends clones on every path; until then the theorem
would list the paths on which it does not.
