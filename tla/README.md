# imway in TLA+

imway is a Wayland compositor in C++: one event loop (libev) that owns the
clients, the scene, the renderer and the KMS output, one shared worker thread
for slow work, and the Linux kernel on the other side of DRM. This directory
models the parts of it whose correctness depends on the order in which things
happen, checks them with TLC and proves what it can with TLAPS. Every
definition is translated from the source; `PROJECT.json` maps each one to its
lines.

## Contents

| File | What it is |
|---|---|
| `OffloadJob.tla` | a background job: event loop, shared worker, eventfd wakeup (`offload_job.cpp`) |
| `CoalescedPasses.tla` | what `offload_job.h` promises, without threads; `OffloadJob` implements it |
| `OffloadJobProofs.tla` | the safety of `OffloadJob` and the safety part of the refinement, proved |
| `DrmCrtc.tla` | the kernel's CRTC as `device_kms.cpp` uses it: what is on screen, the flip in flight, unread events |
| `KmsOutput.tla` | the zero-copy KMS output on top of `DrmCrtc`: frames, direct scanout, screenshots, VT switches, DPMS, hotplug, giving HDR up (`device_kms.cpp`) |
| `KmsOutputProofs.tla` | the safety of `KmsOutput`, proved for the failures each property allows |
| `SurfaceCommits.tla` | what becomes of a `wl_surface.commit`: applied, cached by a synchronized subsurface, or parked behind a fifo barrier, a commit timer or an acquire point (`wayland.cpp`, `renderer.cpp`) |
| `ContentUpdates.tla` | what a commit promises, whatever holds it back; `SurfaceCommits` implements it |
| `SurfaceCommitsProofs.tla` | the safety of `SurfaceCommits` and the refinement, proved |
| `ShmUploads.tla` | the way of `wl_shm` pixels: copies on the worker, uploads noted with textures, frames, fences, forced frames (`renderer.cpp`, `wayland.cpp`) |
| `ShmUploadsProofs.tla` | the safety of `ShmUploads`, proved |
| `KeyRouting.tla` | who hears the keyboard: shell, lock screen, popup grabs, focus, shortcut inhibitors (`desktop.cpp`, `wayland.cpp`) |
| `KeyRoutingProofs.tla` | the safety of `KeyRouting`, proved |
| `KeyGrabsProofs.tla` | that its stack of popup grabs is what is on the screen, proved |
| `DisplayPower.tla` | the idle timer, input and the setting on top of `KmsOutput` (`wayland.cpp`) |
| `DisplayPowerProofs.tla` | that a sleeping display can be woken unless its HDR link is found too shallow, and that the policy asks for nothing the output does not allow, proved |
| `MC*.tla`, `MC*.cfg` | the instances TLC checks |

## Inventory

Components, the state they keep, what happens to it and what makes them
correct. The last column says where each stands; `PROJECT.json` repeats the
list with source files.

| Component | State | Operations, interactions | What must hold | Model |
|---|---|---|---|---|
| Offload jobs (`offload_job.cpp`) | busy, again, completion and retired counters, eventfd, the pool's queue | `run`, `drain`, destruction on the loop; passes on the worker; completion through libev | one pass at a time owns the fields, no request or wakeup is lost, no access after destruction, joins return | `OffloadJob`, proved |
| KMS output (`device_kms.cpp`) | two scanout images, queued and current frame, direct client frames, mode, session, power, connector, HDR or SDR, screenshot hand-off | frames from the renderer, flip events from the kernel, hotplug probe and screenshot allocation on the worker, libseat, `setPowerSave` | nothing visible is drawn into, released or destroyed; every client frame is released once; images fit the mode; a ready output can show a frame | `KmsOutput`, proved |
| Renderer frame loop (`renderer.cpp`, `fence_poll.cpp`) | dirty and wanted frames, shm copy job, GPU fences, captures | prepare watcher, fence polling, forced compositions, captures | a frame wanted is drawn; buffers are held until the GPU is done; captures end | `ShmUploads`, proved; its effect on the output and on the surfaces |
| Screenshot capture (`screenshot_capture.cpp`) | request state, GPU readback, file job | request, submit, retire by fence, spawn viewer | one capture at a time, each request ends | `submit` as the output sees it |
| Core surfaces (`wayland.cpp`) | pending, cached and current state, commit queue with fifo, timing and acquire constraints, subsurface caches, buffer holds | commit, buffer release, presentation, destroy | content updates apply in order and whole, buffers return exactly once, nothing waits for ever | `SurfaceCommits`, proved |
| Shell (`wayland.cpp`) | configure serials, popup stack, activation tokens, ping state | configure and ack, popup grab and dismissal, ping timers | acked state matches a configure that was sent; popups close top first; a client that answers is not reported hung | maps, popup chains and grabs in `KeyRouting`; serials and pings planned |
| Data exchange (`wayland.cpp`) | selections, drag and drop sources and offers | set, offer, receive, drop, cancel, client death | one owner, every source told once how it ended | planned |
| Seat and input (`wayland.cpp`, `input_router.cpp`, `input.cpp`, `keyboard.cpp`) | focus, implicit grabs, pressed keys, constraints | motion, button, key, focus change, device removal | press and release reach the same surface; no key sticks | the keyboard in `KeyRouting`, proved; the pointer planned |
| Idle and power policy (`wayland.cpp`) | idle timers, inhibitors, `dpmsOff` | activity, timeouts, `setPowerSave` | activity lights the display | `DisplayPower`, proved for displays without HDR; violated with a shallow HDR link |
| Session (`session.cpp`) | active | libseat enable, disable, switch | the device is acknowledged before it is used | its effect on the output, on input and on keys |
| Lock screen (`lock_screen.cpp`) | locked, authentication in flight | lock, type, verify on the worker | never unlocked without a success of the attempt on screen; no key press reaches a client under it | the keyboard in `KeyRouting`; authentication planned |
| Notifications (`notifications.cpp`, `notifier.cpp`) | ids, timeouts, history | notify, replace, close, expire | each id closes once | planned |
| Tray and menus (`status_notifier.cpp`, `dbus_menu.cpp`) | items, watchers, replies in flight | register, name owner change, replies | no reply reaches a removed item | planned |
| Wi-Fi (`wifi_nm.cpp`, `wifi_iwd.cpp`) | networks, connection attempt | connect, disconnect, DBus replies | one attempt, an end for each | planned |
| Mixer (`mixer_pulse.cpp`, `mixer_sndio.cpp`) | server state, pending volume | events, requests, reconnection | shown volume converges | planned |
| Spawner (`spawn.cpp`) | children | spawn, reap | each child reaped once | planned |
| Weak pointers and lists (`weak_ptr.cpp`, `intr_list.h`) | ring of weak pointers | assign, drop, owner's death | no pointer outlives its target | planned |
| Log and history (`log.cpp`, `history.cpp`) | bounded rings | append, read | the last N in order | planned |
| Icon store (`icon_store.cpp`) | cache, worker queue | lookup, load, evict | an entry is loaded once and lives while shown | planned |
| Desktop shell (`desktop.cpp`) | chords held, alt-tab, captured keyboard | `key`, drawing of the user interface | a press the shell took is the shell's until its release | `key` in `KeyRouting` |
| Theme, settings, Vulkan set-up, colour, screenshot editor, control socket, start-up, fake KMS | | user interface, numeric code, wiring, test doubles | | not modelled, see the last section |

What is hard in this system: two threads around one event loop (offload jobs);
a kernel that completes flips whenever it likes, refuses commits and owns what
is on screen; callbacks that block in the middle for a flip; operations that
change the swapchain while a frame, a probe, a screenshot or another VT is in
between; failures half-way through a mode switch. The hazards of
`PROJECT.json` list them by line.

## Offload jobs

`OffloadJob` has two threads. The loop runs one callback at a time; it is split
where the worker can be seen in between: after the eventfd was drained and
before the counter is loaded (`Dispatch`, then `FetchStale` or `FetchRetire`),
and while `ThreadPool::join` waits. The worker is split at each write the loop
can observe: the task begins (`BeginPass`), the counter is incremented
(`FinishWork`), the eventfd is signalled (`Signal`), the pool's count drops
(`LeaveTask`). libev's own step is `Collect`: it gathers readable watchers
first and dispatches them later, which is why a wakeup may be stale.
`want`, `taken` and `seen` are history: the version of the owner's inputs, the
version the pass began with, the version the listener has read.

`CoalescedPasses` states the contract without threads: a request owes a pass, a
burst of requests owes at most two, the pass begins after the request it
answers. `KeepsPromise` is the refinement, with its fairness.

Runs:

- `offload_promise`: two jobs on one lane, one that is drained, the other that
  may be destroyed at any moment, three requests each, counters modulo 2 so
  that every pass wraps. All safety properties, `JoinReturns` and `KeepsPromise`
  hold; the promise says with its fairness that every request is answered.
  Three requests are enough for a pass in flight, one coalesced and one made by
  a listener; a third job would only lengthen the queue, which the proofs cover.
- `offload_late_signal` (violated): one job is drained and destroyed. A drain
  leaves a stale wakeup pending; the next pass increments its counter, the
  stale wakeup retires it, `busy` is false, the destructor does not join, and
  the worker signals the eventfd of a job that is gone. The header promises the
  join. In the program the job with both is the renderer's shm copy job.

Fairness: both threads are scheduled, libev dispatches each wakeup it
collected. Owners owe nothing.

Proved in `OffloadJobProofs`, for any set of jobs, counter size and bound:
`TypeCorrect`, `OnePassAtATime`, `RequestsAreKept`, `WakeupsAreKept`,
`KeepsSafetyPromise` (the safety part of the contract, `Abstract!Promise`) and
`DestroyedJobsAreLeftAlone`, the last under the assumption that no job is both
drained and destroyed, which is what the violated run shows to be necessary.
The properties are not inductive: `OnePassInFlight` alone allows a worker to
hold a job that is also in the lane twice, a finished pass whose job is not
busy, a wakeup that retires a pass still running. The invariant `IInv` adds
where the worker stands relative to the counters (a pass between `BeginPass`
and `FinishWork` has `completion = retiredPasses`, and the two differ from then
until the loop retires it) and that a job is in the lane at most once. `AInv`
adds the history variables for the requests, `WInv` the eventfd for the
wakeups, and `SInv` that a wakeup can only be stale for a job that was drained.

## The KMS output

`KmsOutput` extends `DrmCrtc`. The kernel keeps `screen` (the framebuffer the
plane is programmed with), `inFlight` (a flip that has not completed), `unread`
(events the program has not read) and `active`. The program keeps what
`device_kms.cpp` keeps, under the same names. Framebuffers are the two slots of
the swapchain and client buffers; a mode is a model value and an image is
characterised by the mode it was built for (`slotMode`, and
`screenshotReplacement` for the spare) and whether anything was ever rendered
into it (`rendered`).

Of the colours the model keeps one bit, `hdr`, because the program gives HDR up
by itself and that touches the control of everything else. A test modeset that
is refused falls back to SDR inside `commit` (`MayFallBack`). Once a modeset is
done, `updateSignalFeedback` reads the depth of the link, once for each change
(`signalFeedbackLogged`, kept for an HDR signal only: of an SDR link nothing is
learned). Under HDR with fewer than 10 bits it switches to SDR and resets
`modesetDone`, so that the next frame modesets (`Feedback`). It is called for
every flip, drained ones included, and for every probe of a connected display.
Until that frame the output is as it was at boot: `setPowerSave`,
`sessionEnabled` and `remodeset` do nothing. The display settings choose HDR or
SDR anew.

The loop is atomic except where it blocks: `drainPendingFlip` waits up to
100 ms for the flip, so each callback that drains is two actions with the
kernel and the worker in between, and `loop` says which callback waits:

| Code | Actions |
|---|---|
| `pageFlipHandler` with `updateSignalFeedback`, `drmIoCb`, `retireScreenshot` | `HandleFlips`; inside a drain `DrainFlips`, or `DrainGivesUp` |
| `setPowerSave` | `SetPowerSave`, then `PowerOn`, `PowerOff` or `Settle` |
| `sessionDisabled`, `sessionEnabled` | `SessionDisabled`; `SessionEnabled`, then `Comeback` or `Settle` |
| `applyDisplaySettings`, called for the settings window or the control socket | `DisplaySettings`, then `ApplySettings` |
| `hotplug`, `hotplugProbe` (worker) | `MonitorChanges` (the world), `HotplugProbe` |
| `hotplugProbed`, `switchMode`, `rebuildScanout`, `remodeset` | `ProbeIgnored`, `Disconnected`, `Reconnected`, `ModeListChanged`, then `SwitchMode`, `Replug`, `BlobRefused` or `RebuildFailed` |
| `directScanout`, `importDirectFb`, `dropScanoutFb` | `DirectFrame`, `MayTryDirect`, `BufferDies` |
| `acquire`, `presentImage`, `takeScreenshot`, the capture's `submit` | `ComposedFrame`, forced or not |
| `prepareScreenshot`, `screenshotPrepare` (worker), `screenshotPrepared` | `RequestScreenshot`, `ScreenshotPrepare`, `ScreenshotPrepared` |

Failures are switched on by `Faults`, one name for each way the code handles a
failure; everything else in the model happens in every run. The worker job for
hotplug is used through what `CoalescedPasses` promises: events fold, one probe
at a time, each event is answered by a probe that began after it.

Runs:

- `kms_scanout`: an SDR output under the callers of `setPowerSave`, see the next
  section; one mode, one client buffer, screenshots, VT switches,
  unplugging; refused commits, imports, exports, submissions and spare
  allocations, probes that fail. `FlipsAgree` (bookkeeping against kernel),
  `ScanoutHeld` and `NoFrameLeaked` (client buffers), `AcquiredIsFree`,
  `SpareAccounted`, `RetiresOffScreen`, `SleeperWakes`. 3.6 million states.
- `kms_faults`: two SDR displays of different modes, plugged and unplugged at any
  time, mode switches that fail at each step, commits refused, flips that
  complete after the 100 ms. `InFlightImageKept`: even then a frame never draws
  into the image of the flip that has not completed. `ImagesFitMode`. 3.5
  million states.
- `kms_live`: an HDR display plugged and unplugged at any time, settings that
  choose HDR or SDR, `setPowerSave` called at any time, a driver that may refuse
  HDR and a link that may turn out too shallow (`degraded`), so that
  `modesetDone` goes back and forth under every other callback; no other
  failures. `LitWhenReady`, and under fairness `CallbacksReturn`, `HandOffEnds`
  and `GivenUpIsRelit`: an output that gave HDR up is modeset again, if it is
  ready again and again. 312 thousand states.
- `kms_degraded_sleep` (violated): the same display under the policy, see the
  next section.

`HdrDisplay` is `FALSE` where there are two modes or a client buffer, and
`kms_live` has one mode, because HDR multiplies their states; the theorems below
hold for HDR displays and any number of modes.

Three sentences of the code's comments are not kept. Their properties are in
the module, no run repeats the counterexamples, and the hazards name them:

- `HandedImageKept` (`output.h`: the image handed to a screenshot client is
  left alone): a composition forced by the eyedropper or the control socket
  renders into `acquire()`, which is the handed-off slot between the commit of
  the next image and its flip (constants of `MCKmsScanout`).
- `RenderedBeforeShown` (`device_kms.cpp:1391`): after a mode switch
  `remodeset` commits an image of the new swapchain that nobody rendered
  (constants of `MCKmsFaults`).
- `DarkWhileOff` (`output.h:51`): a VT comeback or a replug modesets a display
  that was switched off without looking at `powered` (constants of
  `MCKmsScanout`).

Bounds: two slots are the code's own; one client buffer is enough for every
pair (queued, current) because the same buffer may be both; two modes are the
least with which a switch can happen. There is no bound on the length of a
behaviour.

Fairness (`FairSpec`): the hardware completes flips; libev calls `drmIoCb` for
a readable descriptor; a callback that waits goes on; the prepare watcher
frames an output that is ready again and again, which is strong fairness
because an output may stop being ready between two iterations. The bar's clock
asks for a frame every second, so frames never cease to be wanted. Nobody owes
screenshots, power, sessions or plugs.

Proved in `KmsOutputProofs`, for any client buffers, modes and displays. `Faults`
is a constant, so a theorem says which failures it needs to be absent:

| Theorem | Failures allowed |
|---|---|
| `Types`, `SpareIsAccounted`, `ImageInFlightIsKept`, `EveryImageFits` | all |
| `FlipsAreAgreed`, `NoFrameIsLeaked`, `AcquiredImageIsFree`, `HandedImageRetiresOffScreen` | all but `slow`, a flip that completes after the 100 ms |
| `ScanoutIsHeld` | all but `slow`, `blob` and `rebuild` |
| `ReadyIsLit` | all but `slow`, `blob`, `rebuild` and `commit` |

`degraded`, the refusal or the give-up of HDR, is allowed by all of them.
Each exclusion is needed: with two displays and a client buffer TLC violates the
property with the excluded failure alone, as the list of observations below
says. None of the properties is inductive. `Sound` types the state and
adds what the types rest on: which steps of a hand-off have a spare, when there
is a probe to answer. `Kept` adds that a client buffer in flight is still
imported, for the mode it is flipped in, and `Fitting` that the images and the
spare are of the current mode. `Prompt` is the heart: if no drain gives up, the
program waits for exactly as many events as the kernel still owes or has
delivered, and what is on screen is the image the program calls current, or
queued once the event lies unread; a handed-off image was shown or is on its
way. `Held` says the same of client buffers on screen, and `Lit` that an
output with its session and its power is active except while a callback is
lighting it. `DisplayPower` inherits all of it: `PolicyImplementsOutput` proves
that the policy's behaviours are behaviours of `KmsOutput`. `Prompt` and `Lit`
do not rest on `modesetDone` staying set: a frame that modesets a second time is
one more commit for them.

Observed in the model and left out of the runs, because no sentence of the
repository speaks of them or because they are the price of a failure:

- `switchMode` releases the direct client frames (`device_kms.cpp:2340`) before
  the mode blob can be refused (`:2350`): with two modes and a client buffer,
  `blob` breaks `ScanoutHeld`.
- a rebuild that fails under a live link is not followed by `remodeset`
  (`hotplugProbed`): the display can stay dark while the output is ready.
- a power-on commit that is refused is not retried; `powered` is set before it.
- a flip that completes after `drainPendingFlip` gave up is attributed to the
  commit queued meanwhile, and a handed-off image can be destroyed while on
  screen (`slow` breaks `RetiresOffScreen`).
- `applyDisplaySettings` sets the colours before `remodeset` drains the pending
  flip (`device_kms.cpp:2105`): the feedback of that flip, shown in SDR, may
  already give the new HDR up.
- a VT comeback, a replug or a change of the settings after HDR was given up and
  before the next frame does not modeset (`:1398`, `:3317`); the frame does, if
  the output is ready.
- `composeNow` and `readPixel` withdraw `forceComposition` although an
  interactive screenshot may wait for it (`renderer.cpp:4171`, `:4437`).

## Display power

`DisplayPower` extends `KmsOutput` with the three callers of `setPowerSave`,
which `KmsOutput` alone lets anyone call at any time: `Sleep` is `dpmsTimerCb`,
`Activity` is `WaylandImpl::activity`, `UpdateDpms` the setting. The policy
keeps `dpmsOff`, a copy of what it asked for, and the output ignores what it is
asked for while `modesetDone` is false and on another VT (`Ask`). `SleeperWakes` says
that the copies never diverge the dangerous way: a display that sleeps is one
the policy believes asleep, so that the next input asks for it. It depends on
input being suspended with the session (`input.cpp:419-425`), which is the
guard `InputArrives`; the constant `Straggling` lets input arrive anyway, and
then `SleeperWakes` fails.

It depends on the output remembering its first modeset, too, and there the code
breaks it. In `kms_degraded_sleep` (violated) the first flip in HDR is pending
when the display goes idle: `setPowerSave(false)` has cleared `powered`, its
drain handles the flip, and the feedback finds the link too shallow and resets
`modesetDone` in a display that sleeps. The next input clears `dpmsOff`, and
`setPowerSave(true)` returns at once. No frame follows, because `ready()` wants
`powered`, and no later input asks again. Only a composition forced by the
eyedropper or the control socket modesets, after which a second idle timeout and
the input after it set `powered`. A probe of a sleeping display that came back
with a shallow link does the same. The finding of `PROJECT.json` gives the lines.

The other direction fails and is left out of the run, because the
documentation only says "blank the display after this idle time" and
`tst/headless_kms_dpms_away.sh` accepts it: an idle timeout that the output
ignored stops the timer and leaves `dpmsOff` set, so that after the return the
display stays lit until the next input (`AwakeIsTimed`).

Proved in `DisplayPowerProofs`, for any buffers, modes, displays and failures:
`EverySleeperWakes`, from two assumptions: nothing straggles, and there is no HDR
display or none that is found too shallow (`~HdrDisplay \/ "degraded" \notin
Faults`). The violated run shows the second to be necessary: its constants
differ from those of `kms_scanout` in nothing that adds behaviour but this. The
invariant `Wakeable` adds that a sleeping output has had its first frame,
without which the output would ignore the wake, and that the timer runs only
under the setting. `StepKeepsPower` shows that no other callback of the output
changes `powered`, and that under the second assumption none resets
`modesetDone` either: an SDR display never has a signal to give up
(`SignalSoundNext`), and HDR that is not degraded is kept.
`PolicyImplementsOutput`, without an assumption: `PowerSpec` implements `KmsOutput`'s specification, whose callers
may ask for anything at any time.

The setting is changed by a frame of the settings window, which needs a ready
output; the control socket's `set`, a test command, can also change it while
another VT is shown, and is left out here.

An idle inhibitor makes the timer start over, which changes nothing here;
`ext_idle_notify` has timers of its own and does not reach the output.

## Surface commits

A commit of a surface ends in one of four ways: its update is applied; it is
merged into the cache of a synchronized subsurface, to be applied with the
parent's next update; it is parked in the surface's queue until a frame event
finds its conditions met; or it goes away with its surface. `SurfaceCommits`
follows the update, its buffer and its frame callback through all of them. A
buffer and a frame callback are named by surface and commit number, so that
order, loss and duplication can be told. Every commit carries one callback.

| Code | In the model |
|---|---|
| `SurfaceImpl`: current state, `frameCbs`, `dmabufUse` and the held shm buffer | `surf` |
| `CommitCache` in `SubsurfaceImpl`, `FifoState` | `cache`, `queue`, `barrier` |
| `surfaceCommit` | `CommitCached`, `CommitParked`, `CommitApplied`, which share `Commits` |
| `applyCache`, `applyChildrenCaches`, `applySubsurfaceCache` | `Onto`, `SyncTree`, `ApplyAll` |
| `xdgHandleCommit`, `xdgSurfaceAckConfigure` | `HandleCommit`, `AckConfigure` |
| `subsurfaceSetSync`, `subsurfaceSetDesync` | `SetSync`, `SetDesync` |
| `surfaceResourceDestroyed`, `fifoSurfaceGone` | `DestroySurface` |
| `subsurfaceResourceDestroyed`, `frameCallbackDestroyed` | `DestroySubsurface`, `Walked` |
| `frameNow`, `renderFrame`, `finishGpuFrame` | `RenderFrame`, `FrameDeferred`, `FenceRetires` |
| the frame event: `fireFrameCallbacks`, then `drainFifo` of every surface | `FlipDone`, then `BeginDrain`, `Admit`, `EndDrain` with nothing in between |
| `syncEvCb`, timeline eventfds, commit timers | `SyncEvent`, `Materialize`, `TimePasses` |
| the dock minimizing a window | `Minimize` |

`ContentUpdates` is the promise of `wl_surface.commit` with no reason to wait
left in it: each surface has a line of waiting updates; a new one joins the
line or is folded into its last; only the first is applied, whole; some are
dropped. `KeepsOrder` is the refinement: the line of a surface is its queue
followed by its cache. An update that overtook another, a half-applied merge,
or a cache applied twice would be a step the promise does not have.

Runs:

- `surface_commits`: a window and its subsurface; the window commits three
  times (a null buffer, a dma-buf, a single-pixel buffer with a fifo
  constraint, a dma-buf with an acquire point not there yet), the subsurface
  twice (no attach, or an shm buffer with a fifo constraint).
  `BuffersAccounted`: each buffer is given back once, and until then one holder
  has it. `CallbacksAccounted`: the same for frame callbacks. `KeepsOrder`,
  `SyncedTogether`, `SampledReady`.
- `surface_wakeups`: fewer kinds of commits, with fairness. A parked update
  whose time has come and whose acquire point is there is applied or dropped
  (`ReadyUpdatesApplied`), and a surface on screen does not owe callbacks for
  ever (`CallbacksFire`): every path that parks or owes also asks for the frame
  that serves it.
- `surface_callback_walk` (violated): see the finding of `PROJECT.json`.

Bounds: three commits of the window are the initial one, one to set a barrier
and one to wait behind it; two of the subsurface fill its cache and merge into
it. The subsurface of `surface_commits` cannot cache more, because with three
cached callbacks the finding of `surface_callback_walk` breaks
`CallbacksAccounted`.
`SettleFrames` is 1 where the renderer draws three more frames after each
change: fewer frames make the wakeups harder to get right, since an update that
waits cannot rely on the tail. Explicit synchronization is on the window only,
a surface that is never synchronized, see (g) below.
`SyncWhileParked` is `FALSE`, see (c).

Fairness: the renderer's prepare watcher draws a wanted frame, the GPU retires
its fence, the kernel flips, the frame event is handled to its end, libev calls
`syncEvCb`. Commit timers may be far away and acquire points may never
materialize, so they owe nothing, as do clients and the user. That a queued
frame flips is `KmsOutput`'s business; an output that is off or on another VT
draws no frames, and updates then wait for it.

Abstractions: an eventfd can always be registered for an acquire point that has
not materialized (`Parks`); where the kernel refuses, the code applies the commit
without waiting (`wayland.cpp:2609`). An shm upload completes in the frame that
starts it
(`ShmUploads` takes it apart); direct scanout holds a
buffer as a composed frame does; configure serials, window geometry, popups,
cursors and drag icons belong to the shell.

Proved in `SurfaceCommitsProofs`, for any tree of surfaces, any number of
commits and any updates:

| Theorem | Assumption |
|---|---|
| `Types`, `BuffersAreAccounted`, `RootSamplesAreReady` | none |
| `CallbacksAreAccounted` | no cache ever holds more than two callbacks (`FewCached`) |
| `SamplesAreReady` | subsurfaces use no acquire points |
| `NoCacheIsStranded` | one level of subsurfaces (`TwoLevels`) |
| `SubsurfacesAreSynchronized`, `UpdatesKeepOrder` | `TwoLevels`, and no `set_sync` over parked updates |

The assumptions are what the findings leave: three cached callbacks are the
finding of `surface_callback_walk`; (c), (g) and (h) below say what happens
without the others. `RootSamplesAreReady` is what remains of `SampledReady`
with no assumption: only a subsurface's buffer is ever sampled too early.

One step may change many surfaces, since a parent's commit applies the caches
below it, and the sets of buffers and callbacks are shared by all. The proofs
therefore cut the state by surface: `Local(d)` is what concerns the surface
`d`, with the members of the shared sets that name it, and `NextLocal` proves
that every step is for every surface one of a dozen local steps. Invariants are
then about one record. `Sound` says that updates carry numbers of commits that
were made, parked ones one number each in rising order, and that the buffers
given are split without overlap (`Balanced`) between the surface and the frame,
those given back, the queue and the cache. That the split has no overlap is
what makes a release happen once, and it is not inductive without the numbers:
they show that a new commit's buffer is nowhere yet. `Accounted` is the same
split of the callbacks, `Ripe` says that a surface without cache holds nothing
that has not materialized. With one level of subsurfaces, `Tidy` says that only
synchronized subsurfaces have a cache and `Parted` that they have no queue;
then queue and cache are never both in use, parked updates are newer than what
is shown (`Ahead`), and each local step is a step of `ContentUpdates` or none
(`LocalOrder`), which is the refinement.

Seen in the code and left out of the runs, because no sentence of the
repository is contradicted or because the part is planned:

- (a) `drainFifo` lowers a barrier at any flip after the update, including the
  flip of a frame rendered before it (`wayland.cpp:2473`).
- (b) `set_barrier` in a commit that is cached raises the barrier at once, not
  when the cache is applied (`wayland.cpp:2625-2629`).
- (c) `set_sync` while updates are parked sends later commits to the cache,
  which the parent's next commit applies before the parked ones: with
  `SyncWhileParked` `TRUE`, `KeepsOrder` fails.
- (d) a parked update takes the serial acked when it is admitted, not when it
  was committed (`wayland.cpp:4387`), planned with the shell.
- (e) a null buffer and a buffer parked behind each other unmap the window and
  give it content again before a new configure is acked
  (`wayland.cpp:4467-4469`, `:4559-4562`); the renderer then counts the surface
  as visible and the shell does not show it, which is why `Visible` and `Shown`
  differ.
- (f) a parked update of a parent, once admitted, applies caches its children
  committed after it.
- (g) a commit of a synchronized subsurface with an acquire point is cached
  without waiting, and sampled when the cache is applied
  (`wayland.cpp:2609`).
- (h) with a third level of surfaces, `set_desync` leaves the update of a
  grandchild that is no longer synchronized in its cache until the next commit
  of its parent (`DesyncReleases`, `wayland.cpp:2269`).

## Shm uploads

A commit with a `wl_shm` buffer makes a content that refers to the client's
memory. The frame loop has the damaged part copied on the worker into memory
the GPU can read, or reads the client's memory in place; it notes an upload
with the surface's texture, records the notes in the next composed frame, and
lets the buffer go when that frame's fence has signalled. `ShmUploads` follows
the contents, their references and what each copy of an image holds. An image
is a set of cells and a copy is described by its *stale* cells, those that
differ from the newest commit; the client damages what differs from its last
commit and repaints the whole buffer.

| Code | In the model |
|---|---|
| `Surface::shm`, `hasContent`, dirty bit, frame callbacks | `surf` |
| references to a `ShmContent`, its `ShmState`, its `ShmUpload` | `refs`, `content`, `staged` |
| `SurfaceTexture` with its pending upload | `tex` |
| `shmCopyQueue`, `shmCopyActive`, the pass of `shmCopyJob` | `tasks`, `worker` |
| `surfaceCommit`, `surfaceResourceDestroyed` | `Commit`, `CommitNull`, `DestroySurface` |
| `shmCopyWork`, `shmCopyDone` | `BeginCopy`, `EndCopy`, `CopyDone` |
| `frameNow`, `prepareShm`, `uploadShm`, `renderFrame` | `Frame` and `FrameNow`: `Hold` or `Render`; `DirectFrame` |
| `finishGpuFrame`, `fireFrameCallbacks` | `Fence`, `FrameEvent` |
| `composeNow`, `readPixel` | `ComposeNow`, then `Compose` |

Runs:

- `shm_uploads`: a window with two buffers, one copied and one read in place,
  and a bar with a single copied buffer whose copy may fail; two cells.
  `RefsAgree`: a buffer goes back exactly when nothing uses its content.
  `SourcesQuiet`: nobody writes what the GPU reads. `DamageShown`, and under
  fairness `EveryCommitTaken`: one content that is not ready holds every frame,
  and still no commit is held for ever. 393 thousand states.

Bounds: two buffers are the least with which a client commits again while the
first is in use, and two cells the least in which damage can be lost; one
surface of each backend lets a frame wait for one content while another is
ready.

Fairness: while something is to be done, the worker, the GPU, the display or
the loop does some of it (one weak fairness over `Serve`). Clients owe nothing.

Seen and left out of the runs:

- `ForcedFrameCurrent` fails under the constants of `MCShmUploads`, although
  `renderer.cpp:4166-4168` and `tst/headless_reg_shm_copy_race.sh` want it: a
  frame forced right after a commit only queues the copy and returns
  (`renderer.cpp:4559`), and the readback gets the frame before.
- `WholeImageShown` fails for a client with two buffers: frame callbacks fire
  for surfaces the frame did not show (`wayland.cpp:1867`), so it commits twice
  before one upload, and only the damage of the newest content is uploaded.
  `DamageShown` therefore promises the newest damage, and everything only to a
  client that is paced by its one buffer.
- `SourcesAlive` fails when a content goes between the note of its upload and a
  composed frame (a client in `Drops`).
- a client that does not wait for its callbacks (`Eager`) can keep a copy
  queued at every moment, and no frame is composed meanwhile.

Proved in `ShmUploadsProofs`, without assumptions on clients, damage, failures
or forced frames and for any surfaces, buffers and cells: `Types`,
`ReferencesAgree`, `SourcesAreQuiet` and `DamageIsShown`. References are counted
by the steps and `RefsAgree` says what the count is; the invariant `Sound` adds
that a surface shows only its own buffers, that a copy is queued once and that
while the GPU reads nothing is queued, from which `SourcesQuiet` follows.
`DamageShown` says what a texture shows once an upload has been recorded, and
nothing about the way there. `Good` follows the pixels of a surface on it: the
content shown holds the newest commit, a note of an upload covers its damage
and was copied, a copy that is ready took what was stale (`Copies`), a note
whose content is gone uploads nothing that counts, a texture not yet made shows
nothing; and, for a client with one buffer, what is stale in texture and
staging memory is always inside the damage still to be uploaded.

Abstractions: buffers have one size; buffers sampled in place through udmabuf
and texture resizing are not modelled; a GPU is never lost.

## Keyboard routing

A key from the input source goes through the desktop (lock screen, settings row
that waits for a shortcut, chords, alt-tab, text fields of the shell) to the
seat, which tells the keyboards of one client: the owner of the popup on top of
the grabs, or of the focused window. `KeyRouting` keeps the seat's state as a
record `seat`, and with it `told`, what each client can conclude from the
enter, leave and key events it was sent. The functions of `SeatState` are
operators from one seat to the next, so that a request which calls several of
them is one action, in the order of the code.

| Code | In the model |
|---|---|
| `DesktopImpl::key`, `chordAction`, `LockScreen` | `ArmedKey`, `LockedKey`, `ChordPress`, `ChordRelease`, `PlainKey` |
| `WaylandImpl::key`, `SeatState::handleKey`, `syncKeyboardCapture` | `Delivered`, `HandleKey`, `SyncKeyboardCapture` |
| `focusToplevel`, `popupGrabStart`, `grabGone`, `releaseAllKeys`, `updateShortcutInhibit` | operators of the same names |
| `xdgHandleCommit`, `popupGrab`, `dismissPopupTree`, the popup's and its surface's destruction | `CreatePopup`, `GrabPopup`, `MapPopup`, `UnmapPopup`, `DestroyPopup` |
| `toplevelGone`, `surfaceResourceDestroyed`, map and unmap | `MapWindow`, `UnmapWindow`, `DestroyWindow`, `DestroySurface` |
| `handleButton`, `seatGetKeyboard`, the inhibitor's requests | `Press`, `BindKeyboard`, `Inhibit` |
| `WaylandImpl::onListen` at the frame event, `buildUi` | `FrameEvent`, `Draw` |

Runs:

- `key_routing`: an editor with a menu and its submenu, the window of another
  client, a modifier and a plain key; 527 thousand states. `ClientsAgree`: what
  each client was told is what the seat means. `GrabsAgree`,
  `CapturedHoldsNothing`, `InhibitAgrees`, `QuietWhileLocked`.
- `key_stuck` (violated): the chord that locks the screen is released under the
  lock; its bit stays, and the next plain press of that key reaches a client
  that never sees it released.

Bounds: two nested popups are the least in which grabs end out of order, two
clients the least between which keys can be forgotten, two keys the least of
which one may be up. There is no bound on the length of a behaviour.

Three constants exclude paths on which a property fails and which no sentence
of the repository forbids: `Outlives` (a `wl_surface` that outlives its
`xdg_toplevel` never gets its leave), `NullGrabs` (a grabbing popup unmapped by
a null buffer stays on the grab stack), `LateUnderGrab` (a `wl_keyboard` bound
under a grab is entered for the wrong surface). The hazards give the lines.

Abstractions: what a key finds of settings, text fields and input methods is
chosen when it arrives; the window that inherits the focus is any that shows
(`Heirs`); every client has a keyboard; the brightness, volume and mute
keys, which the shell consumes without keeping a bit for them
(`desktop.cpp:975-1002`), have no action of their own; leaving the session and changing the
keymap are one `ReleaseAll`. Virtual keyboards, modifiers and layouts, the
pointer, touch and text input are not modelled.

Proved in `KeyRoutingProofs`, for any keys, windows, popups and clients:
`TypeCorrect`, `ShellHoldsNothing` and `QuietUnderLock` without restriction;
`ClientsAreRight` and `InhibitIsRight` from `Restricted`, which says that the
three constants exclude their paths. `ClientsAgree` is not inductive, because
what a client is told next depends on who is on the stack of grabs: the
invariant `Good` adds that no surface is bare (`NoBare`), and that the grabs
are popups on screen with the keyboard on one of them (`GrabsOnScreen`).

`GrabsAgree`, which is stronger, is proved in `KeyGrabsProofs` as
`GrabsAreOnScreen`, from `NullGrabs = {}` alone: the grabs are all the grabbing
popups on screen. The invariant `Firm` adds that no popup is on the stack
twice: the stack is kept as places, a popup's removal ranks the others anew,
and the lemmas about ranking show that the order of those that stay survives
dismissal from any place.

## Plan

1. `OffloadJob`, `CoalescedPasses`, proofs. Done.
2. `DrmCrtc`, `KmsOutput`. Checked, safety proved.
3. `DisplayPower`. Checked, proved; it implements the output.
4. `SurfaceCommits`, `ContentUpdates`. Checked, safety and refinement proved
   under the assumptions given there. Next: `DesyncReleases` and the order of
   updates for deeper trees, with the caches that (h) strands made explicit.
5. The frame loop: `ShmUploads`. Checked, safety proved. Captures and
   `ScreenshotCapture` as a component.
6. `KeyRouting`. Checked, safety proved. Configure and ack serials, ping, data
   exchange, pointer grabs.
7. Lock screen, notifications, tray, Wi-Fi, mixer, weak pointers, rings.

Runs stay few: one for each question; a new component's run takes the place of
one that a theorem has made redundant.

## Only model-checked

Liveness is beyond the prover: `JoinReturns`, `CallbacksReturn`, `HandOffEnds`,
`GivenUpIsRelit`, `ReadyUpdatesApplied`, `CallbacksFire`, `EveryCommitTaken` and
the fairness half of `KeepsPromise` stay with TLC. Every safety property of a
passing run has a theorem; `NoStrandedCache` has only that, its run is redundant
with the proof. Where a theorem assumes something, the runs that check its property
satisfy it too; what a run fixes and a theorem does not is the number and the
kind of surfaces, buffers, keys, displays and jobs.

## Not modelled

Most lines of the repository are vendored (Dear ImGui, libstd, stb, fonts as
tables) or draw the user interface; neither has behaviour of its own that a
model would say something about. The thread pool of libstd is modelled where
offload jobs use it.

The dumb-buffer output, cursor plane, backlight and DDC, GEM handle counts and
leases of `device_kms.cpp`: they share the commit path with what is modelled and
carry their own data. Of colour management and HDR metadata only whether the
signal is HDR is modelled, with what that does to modesets; the values, the
metadata blobs, the depth asked for and the range are data. User interface
code draws the state of other components. Colour science and ICC parsing are
numeric. Device selection and start-up do not change after start. The
screenshot editor is a separate client. `kms_fake.cpp`, `kms_intercept.cpp` and
`chaos_monkey.cpp` are test doubles; they show which failures the authors
expect, and `Faults` follows them.
