# Framegrabber: a TLA+ verification of the C++ module

`src/C++` is a C++ wrapper of the Basler framegrabber SDK (`Framegrabber`,
`FramegrabberSystem`) with a Qt widget, a source controller that offers the same
board to remote tools, and a Playground plugin that ties them together. Most of
what can go wrong in it is a matter of order: DMA workers and the callbacks on
them, stops that meet starts, applets that are replaced under their observers,
two control surfaces that share one gate. This directory models that, checks it
with TLC on small instances, and proves its safety with TLAPS for all of them.

Line numbers are those of `src/C++/Framegrabber.cpp` unless another file is
named. `README.md:n` in a finding is the repository's own `src/README.md`.

## 1. The system

| Component | State it keeps | Operations | Interacts with |
| --- | --- | --- | --- |
| Acquisition lifecycle (`Framegrabber`) | `_lifecycleMutex`, `_cameraStartupMutex`, per-channel `resourceMutex`; `_isRunning`, `_startingChannels`, `_activeChannels`; the channel table and its threads | `grab`, `stop`, `requestStop`, `close`, applet load, camera connect and disconnect | starts and joins one worker per DMA; calls `GrabbingStatus` callbacks without a lock |
| DMA worker and delivery | `DmaChannel`: `permits`, `stopRequested`, `permitCondition`, statistics; `OwnedBufferPool` | the worker loop, `ready()` | the board's ring of DMA buffers, grab callbacks, leases they retain |
| Applet and configuration lifecycle | `_handle`, `_appletPath`, `_configurationPath`, `_connectionGeneration`, `_lastError`, `_appletCatalog`, the feature-model cache | `loadApplet`, `loadAppletConfiguration`, `loadConfiguration`, `saveConfiguration`, `open`, `close`, `refreshAppletCatalog` | the SDK; other threads read under `_stateMutex` |
| Applet parameters | none but the cache | typed reads and writes, limits, commands, `featureModel` | `_stateMutex` per SDK call |
| CXP cameras and geometry | `_cxpBoard`, `_cxpCameras`, `lastCameraDiscovery` | `refreshCameras`, `connectCamera`, `disconnectCamera`, feature access, `FramegrabberCameraGeometry::synchronize` | runs inside opens, loads, refreshes, connects and the start of every worker |
| Control gate | `_controlBusy` | `tryBeginControl`, `endControl` | notifies `ControlStatus` |
| Source controller | the pending request, its worker, the 30 s of Single | the gated tools and the observe tools | takes the gate on the GUI thread, works on its own thread |
| Qt widget | `_operationThread`, `_externalControl` | setup operations, Live, feature trees | takes the gate, hears of it through the GUI event queue |
| Parameter control | `_observations`, `_revision` | inventory, read, write, execute | takes the gate as the source controller does; the widget writes the same parameters without it |
| `FramegrabberSystem` | `libraryReferences()` (one for the process), `_framegrabbers`, `_boards` | construction, destruction, `addFramegrabber`, `removeFramegrabber`, discovery | every discovery and session of the process takes and drops a reference |
| Status and grab callbacks | the registries under their own mutexes | register, deregister, notify | copied under the mutex and called outside it, on whatever thread notifies |
| Graphics frame stream | the callback gate | a grab callback that converts, publishes and calls `ready()`; a destructor that closes the gate and drains it | the plugin host |
| Plugin session | system, controller, widget, title state | `createSession`, `createDockWidgets`, its destructor | destroys the others in order while their threads may be running |

What makes it hard: `grab` starts workers while it still counts them; a stop joins
them under the lock an operation of a callback wants; the driver overwrites the
buffer being copied; a `ready()` may come from any thread at any time; each SDK
call of a load, and each of its restoration, may fail; a camera may refuse one of
two writes; the widget learns of the gate through queued events; the host may destroy a
session in the middle of all this, from the thread that must not be waited for. `PROJECT.json`
lists these as hazards, each at its line, with the property that watches it or the
reason none does.

What each part owes its users:

- *Lifecycle*: no SDK resource is used after it was released; an operation that
  returns leaves nothing running; a run that ended is reported; a stop ends.
- *Delivery*: no copy that the board overwrote; frames in order, one outstanding;
  no buffer lost; every frame counted once; a stop is answered.
- *Applets*: one handle, never lost; a failed load leaves the old applet or
  nothing; a connection generation names one open; what observers read is so.
- *Cameras*: no verdict of an alignment is false; every camera is tried; nothing
  streams unaligned; no handle outlives its discovery.
- *Parameters*: a revision names one observation; a write that names a revision replaces
  what its caller saw; the effect and the value that are reported are true.
- *Gate*: one surface operates; an admitted request acts on the connection it
  named; the gate comes back; the other surface's commands come back with it.
- *Session*: its destruction ends, whatever was running; nothing uses what it destroyed;
  every accepted request was completed before; the SDK libraries outlive the board.

## 2. The modules

| Module | Models |
| --- | --- |
| `ChannelLifecycle` | the acquisition lifecycle, each worker included, to the single atomic |
| `ChannelLifecycleProofs` | theorems about `ChannelLifecycle` |
| `FrameStream` | the promise of a delivery: an ordered stream with one frame outstanding |
| `FrameDelivery` | one run of one channel, from transfers to callbacks; implements `FrameStream` |
| `FrameDeliveryProofs` | theorems about `FrameDelivery` |
| `BoardSession` | the promise to who watches a board: numbered connections, each change told before the next |
| `AppletLifecycle` | applets, configurations, restoration, generation, the cached feature model; implements `BoardSession` |
| `AppletLifecycleProofs` | theorems about `AppletLifecycle`: its handles and connections |
| `AppletRestoreProofs` | more of them: restoration, and what observers read |
| `CameraControl` | discovery, connection and alignment of CXP cameras |
| `CameraControlProofs` | theorems about `CameraControl` |
| `ControlGate` | the gate, the controller and the widget that take it |
| `ControlGateProofs` | theorems about `ControlGate` |
| `ParameterControl` | requests for applet parameters: admission, observation, revisions, writes and their reports |
| `ParameterControlProofs` | theorems about `ParameterControl` |
| `PluginSession` | a plugin session from its creation to the end of its destructor, with the threads and callbacks it meets and the SDK libraries' count |
| `PluginSessionProofs` | theorems about `PluginSession` |
| `MC...` | the instances TLC checks |

### ChannelLifecycle

Every read or write of an atomic, every critical section and every SDK call that
another thread can tell apart is a step. `call[t]` says where thread `t` is in its
operation and `worker[d]` where the worker of DMA `d` is; `lifecycle`, `startup` and
`resource` are the owners of the three mutexes. `RequestStopChannels` is the function
of that name channel by channel (flag and notify, the startup barrier, the camera
stream, then the DMA under `resourceMutex`), `JoinStoppedChannels` joins in order
and refuses to join the caller's own thread (2318), `Grab` is `grabUnlocked` with its
start of each channel and the two tests at its end (1648), and the actions named
`Worker...` are the lambda of `startChannel` and its clean-up. A grab callback is a
DMA thread that calls an operation from its worker (`CallbackCalls`). Of the frame loop
there is what a stop has to end. The wait for a permit is four steps as in `FrameDelivery`:
the predicate is evaluated, the worker falls asleep, and a stop or a `ready()` wakes a worker
that sleeps but not one about to; the wait for a frame ends with its time-out; the
wait for a pool buffer is woken by a released image and by the pool's `stop()`, whose mutex
the predicate is evaluated under. `PromptChannels` are those whose consumer calls
`ready()` before its callback returns; of the others `Ready` comes at any time or never.
`dmaOn`, `memory` and `camOn` are what the SDK has: they exist so that the wrong order
of two SDK calls is a state. With `StoresMayLag` the release store to
`_startingChannels` may become visible after the acquire load that follows it, as C++
allows for two different atomics.

### FrameStream and FrameDelivery

The board transfers frame *n* into buffer *n* mod `BufferCount` and waits for nobody.
The worker's program counter goes through the loop of `startChannel` (1893-2090):
permit, blocking wait, pointer and length, lease, copy, the counter read after the
copy, delivery, statistics. Waiting on `permitCondition` is three steps (evaluate,
not yet waiting, asleep), because `ready()` and the stop do not take `permitMutex`.
`copyTorn` becomes true when a transfer reuses the buffer between the start of the
copy and its end; the code cannot see it and must infer it. `FrameStream` has
three variables (the newest frame the board has, the frame last shown, whether it
is owed), and `StreamSpecification` is `FrameDelivery`'s refinement of it.
Pixel formats, strides and dimensions are cut down to four kinds of payload:
valid, null pointer, bad length, and `narrow`, whose rows are shorter than the image
format needs.

### BoardSession and AppletLifecycle

`job` is the operation and `pc` its step: `capture` and `release` are
`capturePreviousApplet` and `releaseHandles`; `init`, `configureFresh` and `adopt` are
the two ways to open a board with `freeWrong` for the case in which `Fg_InitConfig`
loads another applet than was resolved; the `restore...` steps are
`restorePreviousApplet`. A handle is numbered by when the SDK opened it, `sdk[h]` is
what it has loaded, and a handle in `sdk` that is neither `handle` nor `fresh` is
lost. `reader` builds a feature model at any time, with the gate or without, in the three
critical sections of `getAppletFeatureModel`; `SetPaths` is the two setters, which any thread may
call at any time, and `renamed` remembers that one was called since the paths were
last adopted. `client` remembers a generation as a tool caller does.

`BoardSession` has three variables: the applet of the open connection, how many
connections there were, and the `ConnectionStatus` last told. A session connects only
when it is released and its release was told, and the reverse. `SessionSpecification` maps
the applet of the session's handle, the generation and `lastStatus` to them; a handle that
is open but not adopted yet is none to the observers.

Taken as given: the session has one board; a failing `Fg_loadConfig` leaves the
parameters as they were; `INFO_APPLET_FULL_PATH` answers.

### CameraControl

`sync` is one run of `FramegrabberCameraGeometry::synchronize` (61-176 of that
header): phase by phase, axis by axis, each read, write and verifying read a step of
its own, since each is a critical section of its own. A camera may answer a write
with any pair, so it may round, or limit one axis by the other. Between two steps the
GUI may write the camera or the applet; `touched` has the cameras this happened to
since their verdict began, and the two properties about verdicts are about the others.
One camera is bound to a DMA at most. A stop is one step here; its parts are in
`ChannelLifecycle`.

### ControlGate

The GUI thread handles one thing at a time (`gui`), the controller's worker (`work`)
and the widget's operation thread (`widgetWork`) run besides it, and `events` is the
GUI queue with the widget's control statuses and its finished signal. An admission
reads connection, acquisition and gate one after the other, as `admitControl` does.
Live takes no gate. The device is cut down to the open connection and the run that
is on.

### ParameterControl

`step` is where the one request the controller admits at a time is: `begin` between the
last test of `requestParameter` and `tryBeginControl`, then the worker's SDK calls one by one
(access flags, value, judgement, write, the observation after it), `end` before
`endControl` and `deliver` before the completion. An exception can come from any of them.
`obs` and `revision` are `_observations` and `_revision`; the client remembers one
observation it was told and names its revision, or none, in a write. `GateTaken` to
`AppletReleased` are the operations of `ControlGate` cut down to what they do to parameters,
`LiveToggled` changes what can be written, and `WidgetWrites` is the widget's
`runAsyncWrite`, which takes no gate. An observation is a value and whether it can be
written: limits, types and conversions only decide whether `RefuseWrite` is taken. A
flag that cannot be read, or a feature that is locked, only makes the observation say
that the parameter cannot be written: the setters test the flags if they can be read and write
otherwise, so `SdkAccepts` and `WidgetWrites` do not ask for them. A
parameter of the model is a parameter of a DMA, whose feature model is fetched for it.
The SDK may round a value and change other parameters with the one that is written.
`wrote` and `touched` are history: the SDK accepted the write; the widget wrote since
the last observation. The inventory's test of the generation at its end is left out: it
cannot fail while the inventory holds the gate.

### PluginSession

`gui` is the step of the GUI thread: `idle` between two events, or a step of a destructor, one
for each statement of `~FramegrabberPluginSession` (FramegrabberPlugin.cpp:127),
`prepareForShutdown`, `~FramegrabberSourceController`, the stream's and the Framegrabber's
destructors that waits or changes what others see. Two workers may be running then:
the widget's operation thread and the controller's `_work`, each at a step (`at`) of an
operation (`kind`): an applet load, a close, a Single, or one that changes nothing modelled.
A DMA worker takes frames through the stream's gate and reports its end; a parameter
thread is the widget's `runAsyncWrite`. `calls[t]` has the status callbacks thread `t`
has copied from the registry (4003) and yet to call, `body[t]` where in one it is: the title's
callback takes its mutex twice and calls the host between
(`ReadConnectedName`, `Publish`, `HostReturns`), the widget's tests its `QPointer` and then
posts (`TestGuard`, `Post`). A load tells `released` before it opens (`JoinedToLoad`) and
`connected` after (`AppletLoaded`). The widget's Live button stops without a join
(`RequestLiveStop`), the controller's with one (`StopLive`). `alive`, `registered`, `titleActive`, `accepting` and
`shuttingDown` are what the destructors take away, `initialized`, `references` and
`libraries` the SDK libraries, which other systems of the process come and go with
(`OtherSystem`).

Cut down: what `ChannelLifecycle` and `AppletLifecycle` take apart under
`_lifecycleMutex` is stop, join, act and tell; a load is refused, or it releases what was
open and then has the board or not; one DMA and one parameter thread stand for any number,
since the waits for them are a loop over each. A status notified on the GUI thread is
part of the GUI's step, because no other GUI event can come between. Node
notifications are left out. The host, which may drop the widget before the session or
after it, is external. One session is alive at a time; others are `Others`.

### How they fit

`ChannelLifecycle` is the frame: `FrameDelivery` opens its worker's `loop`,
`CameraControl` its camera start, `AppletLifecycle` the steps between the join of a
load and its return, `ControlGate` who may call, `ParameterControl` what a request does once
it may, and `PluginSession` when all of it is taken down. What each takes as one step is what
another takes apart, under the lock that makes it one for the first:
`AppletLifecycle` and `CameraControl` hold `_lifecycleMutex` throughout (a worker's
camera start holds `_cameraStartupMutex`, when the others are refused by
`_isRunning`), and `FrameDelivery` has no lock in common with another channel.

## 3. What the runs check

Deadlock is checked in `channel_liveness`, `camera_control`, `plugin_session` and, for
what it is worth before its counterexample, `stop_order`. Elsewhere callers may stop
calling: the bound on frames, opens or requests is reached, or, in
`channel_safety`, the deadlock described in section 6 is.

| Run | Instance | Shows |
| --- | --- | --- |
| `channel_safety` | 2 controllers, 2 DMAs, all 7 operations, callbacks that grab, stop, requestStop and close; one consumer answers in its callback, the other whenever it likes | `NothingLeftBehind`, `NoTransferToFreedMemory`, `StatusFollowsRuns`, `NoCameraStartAfterStop` |
| `channel_liveness` | 1 controller, 2 DMAs, lagging stores, consumers that answer in their callback and may keep every image, fair threads | `OperationsReturn`, `StopEndsWorkers` |
| `frame_async` | 3 buffers, 6 frames, a consumer that accepts later | `NoTornFrame`, `PoolConserved`, `OnePermit`, `FramesAccounted`, `StreamSpecification` |
| `frame_sync` | 2 buffers, a grab of 4 frames out of 5, `ready()` in the callback and stray calls of it, failing status, all payloads | `StopResponsive` |
| `applet_session` | 2 applets, a configuration, 4 opens, every SDK call may fail, setters and readers at any time | `OneBoardHandle`, `EnumeratesReleased`, `RestoresPrevious`, `ObserversAgree`, `ConnectionNamesOneOpen`, `SessionSpecification` |
| `camera_control` | 2 cameras, 2 sizes per axis | `CachedHandlesValid`, `VerdictIsTrue`, `EveryCameraTried`, `StreamsAligned` |
| `parameter_control` | a parameter of 2 values and a command, 2 applet loads, 4 revisions, ungated widget writes, Live on and off | `RevisionNamesObservation`, `ResultIsTrue`, `ReplacesWhatWasSeen` |
| `control_gate` | 3 requests over both surfaces, fair threads | `GateExclusive`, `ActsOnNamedConnection`, `WidgetNotLeftDisabled`, `GateReleased` |
| `plugin_session` | 2 requests a session, any number of sessions, 1 other system of the process, widget dropped before or after the session, fair threads | `SessionOutlivesItsUsers`, `LibrariesHeld`, `CompletedBeforeGone`, `DestructionEnds` |

Each of these modules has one `TypeOK` besides. Four properties are conjunctions of two
named parts that one step can break together: `NothingLeftBehind` (the handle and the
channel table), `StatusFollowsRuns` (`QuietMeansOff`, `DeniedOnlyAfterAnEnd`), `VerdictIsTrue`
(`AppliedIsAligned`, `RestoredIsTrue`) and `ResultIsTrue` (`EffectIsTrue`,
`ReportsActual`). Every property has a mutant of the code
that breaks it; the mutants stand next to the definition they change.

Why the bounds are enough:

- Two channels are what the code's distinctions need: the last and another one, the
  one that failed and the one that runs, one's own and the others'. Two controllers
  are a holder and a waiter of the lifecycle lock, or a holder and a `requestStop`,
  which takes no join; the thread in the callback is a third. Runs are unbounded:
  channels are started and joined again and again.
- Three buffers and six frames let a frame be reused, dropped, and its successor
  delivered, twice. With two buffers `MayBeOverwritten` drops every frame that
  was followed by another; three is the first number that tells it from the
  threshold next to it.
- Four opens are a load, its failing successor, a restoration, and a load after it. One
  configuration is the one that was loaded or the one that is asked for, against none; with
  two, the run passes as well, in four times the states (14.7 million).
- Two sizes tell written from unwritten, and rounding and coupling are any of the
  four pairs; two cameras are the one that fails and the one that must be tried
  nonetheless.
- Four revisions are an observation the client knows, a different one of the same
  parameter, and one of each again; a request for one parameter needs two at most, and
  none begins when fewer than two are left. An inventory of more than two parameters could
  need more, so `Observed` makes no observation that differs once they are used up; with
  the two parameters of the run that never happens. Two loads are the connection the client knows and another. Two values
  tell seen from unseen.
- Three requests are one that holds the gate, one refused or queued behind it, and
  one that takes it next.
- Two requests in a session are one whose effect (an open board, a run) the next one
  meets. One other system makes the count go 1, 2, 1 and 0 in either order, and lets the
  initialization fail for the session or for the other.

### Fairness

`FairSpec` of `ChannelLifecycle` has a thread that holds the lifecycle lock go on and a
worker take its own steps: threads are scheduled and SDK calls return. Nothing is
assumed of who gets a mutex, of when an operation is called, of when a frame, hence the
end of a run, comes, nor of a consumer's `ready()`, of an image's release, or of a sleeping
worker: it is its notification that lets it run. In the loop itself, the wait for a frame
returns within its time-out and a callback that does not call back returns.
`channel_liveness` needs the consumers to answer in their callback (`PromptChannels`),
as the frame stream does. With one that answers later (`PromptChannels = {0}`) TLC finds
`OperationsReturn` violated: the stop's notification is lost, and the join under
`_lifecycleMutex` waits for a worker that sleeps for good. That is the disagreement
`lost_wakeup` states. In `FrameDelivery` the worker runs, its wait for a frame times out
within `kFrameWaitTimeoutSeconds`, and the consumer answers the frames it
was given; no transfer, no spurious wakeup and no stop has to happen. In `ControlGate`
the two operation threads and the GUI's event queue go on. In `PluginSession` a
destructor that can take its next step does, so do the two workers (Single's time-out
included, which is the code's own), the callbacks, a DMA worker that was told to stop, the
consumer of a frame and a parameter thread; no run ends of its own accord, no event of the
GUI comes, and the host does nothing that it need not.

## 4. Where code and documentation disagree

Each of these is a run whose only property TLC finds violated.

| Run | The text | The code |
| --- | --- | --- |
| `stop_order` | README.md:76: the camera stream stops first, then the DMA | a worker sets `cameraStarted` after `Sgc_startAcquisition` returned, and both stops exchange it before they call `Sgc_stopAcquisition`: whoever finds it false stops the DMA of a streaming camera |
| `lost_wakeup` | 1904: the short wait timeout keeps stop responsive | `ready()` and `requestStopChannels` change the predicate of `permitCondition` without `permitMutex`; the notification falls between the worker's test and its wait, and `stop()` joins a worker that sleeps for good |
| `single_stops_live` | README.md:185: acquisition is never stopped implicitly | Single's `grab(1)` does nothing when Live has started since admission, and after 30 s Single stops what is on |

`StopResponsive` passes in `frame_sync` and fails in `lost_wakeup`, which differ in the
consumer: with `ready()` in the callback the permit is there when the worker comes back
and it does not sleep.

## 5. What is proved

Eight proof modules are checked by TLAPS to the last leaf. Every safety property a passing
run checks is stated by a theorem there: invariants, the two action properties, and the
two refinements. A theorem assumes the named assumptions on the constants of its module,
and what its own row says besides. Those are: sets of channels and of systems are finite,
null values are no values, threads are not channels, bounds are natural numbers, a board
has an applet and a parameter to offer, and the ring has two buffers at least.

**ChannelLifecycleProofs**, for any finite set of DMA channels, any threads and callbacks:

| Theorem | States |
| --- | --- |
| `TypeCorrect` | `Spec => []TypeOK` |
| `NothingIsLeftBehind` | `NothingLeftBehind` |
| `NoTransfersToFreedMemory` | `NoTransferToFreedMemory` |
| `RunsAreDeniedOnlyAfterAnEnd` | `DeniedOnlyAfterAnEnd`: a run that goes on is told to be on, or another of its channels has ended; lagging stores included |
| `EndsAreTold` | `QuietMeansOff`, with sequentially consistent counters (`~StoresMayLag`), which the code does not ask for |
| `StatusIsTrue` | both, `StatusFollowsRuns`, under that assumption |
| `NoCameraStartsAfterStop` | `NoCameraStartAfterStop`, an action property |

The invariant says who is responsible for what. `LockInv`: one thread is inside an operation
that holds `_lifecycleMutex`. `HolderInv`: what it has achieved by each step, above all that
a joinable thread it has not joined is still on its list. `WorkerInv`: a
worker that has not ended is joinable and has an open handle. `SdkInv` names, for everything
the SDK has running, who will stop it: memory belongs to a worker from its start to
`freeMemory`; a transfer is announced by `acquisitionStarted` or in the hands of the one
thread that took that flag; a camera stream likewise. `NoTransferToFreedMemory` is not
inductive, because a stop and the worker both end a transfer: that the worker cannot free
between the other's exchange of the flag and its `Fg_stopAcquisition` follows from
`resourceMutex`, which `HolderInv` and `WorkerInv` give to exactly one of them. `StopInv`: a
channel told to stop is past its camera start unless the stopping thread waits at
the startup barrier. `CountInv`: `_activeChannels` is the number of workers between
their start and their decrement. `OnInv`: whoever tells that grabbing is off has cleared
`_isRunning` before, and the next run waits for its thread to end. `StatusInv`: while a run is on, `grab` has yet
to look whether it is over, or a counted worker has, or the last one on its way out; here it
matters that no look comes before the looker's own store, and with lagging stores TLC shows
the counterexample of section 6. None of these theorems says that a run that goes on is never
denied, because that is not so (`LoadLeavesAcquisitionAlone`, section 6);
`RunsAreDeniedOnlyAfterAnEnd` says that the failure of another channel is the only way.

**ControlGateProofs**, for any bound on the requests:

| Theorem | States |
| --- | --- |
| `TypeCorrect` | `Spec => []TypeOK` |
| `OneSurfaceOperates` | `GateExclusive` |
| `NamedConnectionMet` | `ActsOnNamedConnection` |
| `WidgetComesBack` | `WidgetNotLeftDisabled` |

`AdmissionInv` is what makes the unlocked tests of `admitControl` safe: they run on the GUI
thread, and so does every other admission, so the gate found free is free when it is
taken. `ConnectionInv` carries the connection from its test to the operation;
`ThreadInv` ties the widget's operation thread to the one finished event it queues. `BeliefInv` is
the part `WidgetNotLeftDisabled` needs and does not say: if the last event in the queue says
that the gate is taken, or none is queued and the widget believes so, someone is left
who will tell it otherwise.

**CameraControlProofs**, for any sets of channels and of sizes:

| Theorem | States |
| --- | --- |
| `TypeCorrect` | `Spec => []TypeOK`; that a pair is compared or written only when both axes were read needs `SyncInv` |
| `HandlesValid` | `CachedHandlesValid` |
| `VerdictsAreTrue` | `VerdictIsTrue` |
| `ConnectedCamerasTried` | `EveryCameraTried` |
| `StreamsAreAligned` | `StreamsAligned` |

`OperationInv` and `DiscoveryInv` say what a discovery has taken from the cameras at each of
its steps (the cache is cleared before a handle becomes invalid). `TodoInv`: every
connected camera is on the list, under way, or has its verdict. `SyncInv`: the values
an alignment has read so far, axis by axis, are those of the camera and the applet unless
the GUI wrote since. `VerdictIsTrue` is not inductive without it: a verdict comes from what
was read, several steps before. `StartInv` keeps an aligned camera aligned: an operation
that aligns has no streaming camera on its list. `Inductive` is one lemma per part.

**ParameterControlProofs**, for any parameters, commands, values and bounds:

| Theorem | States |
| --- | --- |
| `TypeCorrect` | `Spec => []TypeOK` |
| `RevisionsNameObservations` | `RevisionNamesObservation` |
| `ResultsAreTrue` | `ResultIsTrue` |
| `WritesReplaceWhatWasSeen` | `ReplacesWhatWasSeen`, an action property |

`RevisionInv`: no revision is above the counter and none is given to two observations, of
whatever connection. `ShownInv`: a request for one parameter shows its latest observation, and none
between the write and the observation after it. `ValueInv`: that observation has the board's value
until the worker writes, unless the widget did. `EffectInv`: what is reported as the effect
follows what was sent to the SDK and what it answered. `ReplacesWhatWasSeen` joins all of
them: the write names the revision that was shown, a revision names one observation, so
the value the client saw is the one observed anew, which is the board's.

**FrameDeliveryProofs**, for every number of buffers from 2, frames, payloads, and every
behaviour of the consumer unless the theorem names one (`FrameConstants` is the only
assumption on constants):

| Theorem | States |
| --- | --- |
| `TypeCorrect` | `Spec => []TypeOK` |
| `UntornFrames` | with a status query that answers, `NoTornFrame` |
| `PoolIsConserved` | `PoolConserved` |
| `BackpressureHolds` | `OnePermit`, which speaks of consumers whose every `ready()` answers a frame |
| `PermitsStayBounded` | `PermitsBounded`, which no run repeats |
| `StatisticsAccount` | with payloads that are counted, `FramesAccounted` |
| `ImplementsStream` | without stray calls of `ready()`, `Spec` implements `FrameStream` |

`NoTornFrame` is not inductive. The invariant that is says where a torn copy can have
come from: if the copy in hand is torn then the board had begun the transfer of frame
`lastPicture + BufferCount`, hence had completed all but one of those before it. The counter
the worker then reads is at least `lastPicture + BufferCount - 1`, and
`MayBeOverwritten` drops the copy: that is why the threshold is `BufferCount - 1`,
and the off-by-one mutant shows that it cannot be larger. The stream's refinement
needs that `shown` never passes `lastPicture`, nor that the newest frame, and that a
permit in the worker's hand excludes one owed (`OnePermit`).

**AppletLifecycleProofs**, for any applets, configurations, number of opens, and reader:

| Theorem | States |
| --- | --- |
| `TypeCorrect` | `Spec => []TypeOK` |
| `OneHandle` | `OneBoardHandle` |
| `EnumerationMeetsNoHandle` | `EnumeratesReleased` |
| `GenerationNamesOneHandle` | `ConnectionNamesOneOpen` |
| `ImplementsSession` | `SessionSpecification`: `Spec` implements `BoardSession` |

The invariant has four parts. `HandleInv`: a handle with an applet is the session's or the
fresh one; there is a fresh one exactly at the steps between an opening and its adoption;
the session has one only at the steps at which it has not been released or has been
adopted again. `TargetInv`: a step that opens a board knows what applet it opens, so every
open handle has one. `GenerationInv`: the generation, plus one if a handle waits to be
adopted, is at most the number of opens, and a client's is at most the session's.
`OneBoardHandle` alone is not inductive: after `Fg_Init` it needs to know that the old
handle was freed before, which is what the lists of steps in `HandleInv` say. The
proof has one step per action in `StepPreserves`, on the lemmas `OpenedAdds`,
`ConfiguredKeepsApplets` and `FreedCloses` about what an SDK call does to `sdk`.

`ImplementsSession` adds what was told: the status differs from the session's handle
only at the steps between a release or an adoption and its notification, and no step
between them opens or releases.

**AppletRestoreProofs** goes on from there:

| Theorem | States |
| --- | --- |
| `RestoresPreviousApplet` | `RestoresPrevious` |
| `ObserversAgreeWithBoard` | `ObserversAgree`: the status, and the path as long as no setter was called since the adoption |

`RestoresPrevious` speaks of a state long after the capture. `CaptureInv` carries
`PreviousApplet` there: a load captures right before it releases, the paths stay what was
captured until an adoption, and a restoration keeps the request's error aside. `PathInv`: an
open handle has the applet of the path it was, or is about to be, adopted with.
That a setter may name other paths in the middle of all this is why each of these parts
speaks of paths that were not `renamed`. Nothing is claimed of the feature model in the
cache (section 6).

**PluginSessionProofs**, for any finite set of other systems and any number of requests:

| Theorem | States |
| --- | --- |
| `TypeCorrect` | `Spec => []TypeOK`; that the count stays between 0 and the number of systems needs `CountInv` |
| `OutlivedByWhatItServes` | `SessionOutlivesItsUsers`: the controller, the session, the Framegrabber and the stream, and the widget in its operation and its earlier writes |
| `LibrariesOutliveBoards` | `LibrariesHeld` |
| `CompletionsPrecedeDestruction` | `CompletedBeforeGone` |

The invariant (`Inductive`) is `TypeOK`, `CompletedBeforeGone` and four more parts.
`CountInv`: the count is the cardinality of `initialized`, and `Own` is in it as long
as the session lives. `AliveInv`: which objects each step of the destructors has left, and
which of widget and session is being destroyed. `WaitInv`: what each wait established, for
the steps after it: no operation after `waitOperation`, no parameter write after
`waitParameters`, no work after `waitWork`, no DMA worker after the join. `CallInv`: a
thread has callbacks to call only at the steps that wait for them (`Told`, `ControlEnded`,
`DmaExits`). `SessionOutlivesItsUsers` is not inductive: that a copied callback meets a living
controller follows from the step its thread is at and from which wait of the GUI thread is
still to come, and not from the registry, which it may have left since. `LibrariesHeld`
needs in addition that an open board means a living Framegrabber, which is freed before
its system. `SystemsCounted` is the one lemma about cardinality.

Only model-checked: liveness (`OperationsReturn`, `StopEndsWorkers`, `StopResponsive`,
`GateReleased`, `DestructionEnds`), which is out of the prover's reach, and the three
disagreements of section 4, whose runs show a counterexample.

Two definitions were changed for the proofs. `TypeOK` of `ParameterControl` could not be
proved for more than two parameters until `Observed` had the bound described in section 3.
`GotoFor` of `ChannelLifecycle` writes a whole record where it had updated two fields of one
entry in a single `EXCEPT`: the prover's translation of `[f EXCEPT ![t].a = .., ![t].b = ..]`
is wrong (it proves falsehoods of it), so no module a proof is about uses that form.

## 6. What is known and not stated by a run

These came up while modelling. Most contradict no line of the documentation, or need a part
that is not modelled; where one does contradict a line, it is named.

- *Callbacks and the lifecycle lock (2290).* A grab callback that calls an operation which
  locks `_lifecycleMutex` waits for a holder that joins its worker. `channel_safety`
  reaches that deadlock, which is why it does not check for one; `OperationsReturn` is
  about callbacks that do not call back.
- *A run that clears the next one's flag (2144).* README.md:87 says that acquisition running
  leaves the loaded applet untouched. The worker of a channel that failed, and that found
  no other one active, can clear `_isRunning` after `grab` has started the next channel; a
  load is then admitted and stops it. `LoadLeavesAcquisitionAlone` in `ChannelLifecycle`
  states the promise; with two channels and two controllers TLC finds it violated after 38
  steps. `StatusFollowsRuns` does not exempt that run: it says that a channel of it has
  ended.
- *A widget that goes before its callers (QFramegrabberWidget.cpp:473).* The widget's status
  callback tests a `QPointer` on the worker that notifies and posts to the widget after.
  When the host destroys the widget while a tool call runs, the widget can be freed between
  the two. `WidgetOutlivesItsUsers` in `PluginSession` says that it is not; TLC finds it
  violated after 14 steps, and `SessionOutlivesItsUsers` leaves this use of the widget out. `DestroySession` alone is safe, because
  `~FramegrabberSourceController` waits for that worker before the widget can go.
- *A parameter write after the shutdown (QFramegrabberWidget.h:200).* `runAsyncWrite` does not
  ask for `_shuttingDown`, and the widget outlives the session: a write begun then has a
  thread that the second call of `prepareForShutdown` does not wait for. The same definition
  covers it.
- *The settled state (FramegrabberSourceController.cpp:474).* A comment says that results are
  copied after the gate is released, "so they report the settled state". The other surface may
  take the gate between `endControl` and the copy.
- *A Single that starts after the session asked it to stop.* `requestStop` in
  `prepareForShutdown` comes before the wait for `_work`; a Single at its `grab(1)` starts
  after it, and the GUI thread waits for its frame or for its 30 s.
- *requestStop and disconnect (3501).* `requestStop` clears `_isRunning` without a join, so a
  disconnect (or a refresh, which resets the handles) is admitted while a worker has
  yet to stop the stream of that camera.
- *Lagging stores (1648, 2140).* `grab` stores `_startingChannels` and loads
  `_activeChannels`; the last worker does it the other way round. Release and acquire
  do not order the two, so both may miss the end: with `StoresMayLag` TLC finds
  `_isRunning` left on after 30 steps. `channel_safety` takes the four accesses as
  sequentially consistent, which the code does not ask for.
- *Restored configuration (1168).* README.md:88 says that after a failed initialization "the
  previous applet and configuration are restored". `restorePreviousApplet` only logs a
  failing `Fg_loadConfig` and records the old configuration as loaded on a board with default
  parameters. `ConfigurationRestored` in `AppletLifecycle` states the promise; added to
  `AppletSession.cfg`, TLC finds it violated.
- *Stale parameter connection (FramegrabberParameterControl.cpp:365).* A request's connection
  is compared before the gate is taken, without a look at `controlBusy()` first (as
  `admitControl` has): an applet load that ends in between lets the request act on the new
  applet, against README.md:186. `ParameterControl` has these steps; the four properties
  hold all the same, because observations are kept by connection. `Admit_Unchecked`, a
  mutant of `ControlGate`, is this order.
- *Status query that fails (2023).* The copy is delivered unchecked.
- *Narrow rows.* A frame whose rows are shorter than its format needs ends in none of
  the four counters; `frame_async` leaves such payloads out for `FramesAccounted`.
- *Feature-model cache (2596).* A model is built outside the locks and stored without a look at
  the handle: a reader that holds no gate, such as the widget's, caches the model of an
  applet that was replaced meanwhile. `CachedModelIsCurrent` in `AppletLifecycle` says
  that it does not; TLC finds it violated after 17 steps.
- *Widget left enabled (QFramegrabberWidget.cpp:627).* The finished handler clears
  `_externalControl` without asking `controlBusy()`, and the widget ignores control
  statuses while its own operation thread is set (495): a tool call admitted in
  between is not seen, and the commands are enabled while it holds the gate, against
  README.md:146.
- *Smaller ones.* `setAppletPath` while a board is open (951) names a path that no board has;
  `appletPathFromConfiguration` tests for an open handle and then enumerates without the
  lock (832); a parameter is looked up and used in two critical sections (2685); a
  configuration load takes two holds of the gate (QFramegrabberWidget.cpp:838);
  `~Framegrabber` ignores a close that refuses (685); a rejected `refreshCameras` leaves
  `lastError` as it was; a GUI write during an alignment is rolled back by it (3395).

## 7. What is not modelled, and the plan

Not modelled for good: pixel-format conversion, strides and image wrapping; JSON, texts,
dialogs, trees and icons; build, packaging and staging scripts. The tests
(`CameraGeometrySyncTest.cpp`) were read as statements of what the code promises, and
are what `VerdictIsTrue` and `EveryCameraTried` say of every order
of failures.

The order of work, most important behaviour first; done but for what an item says is left:

1. `ChannelLifecycle`: the lifecycle everything else hangs on.
2. `FrameStream`, `FrameDelivery`, `FrameDeliveryProofs`.
3. `ControlGate`.
4. `AppletLifecycle`, `AppletLifecycleProofs`.
5. `CameraControl`.
6. `ParameterControl`. Left of it: the read-back test of `setAppletParameterById` and access
   by name, which other callers use.
7. `PluginSession`, `PluginSessionProofs`: the reference count of the SDK libraries and the
   plugin's order of destruction. Left of it: board discovery (`updateFramegrabberList`
   replaces `_boards` under its own mutex), node notifications, several sessions at once.
8. `BoardSession` and its refinement are done. Left: the gate composed with
   `AppletLifecycle`, so that a request's connection is the applet it acts on.
9. `ChannelLifecycleProofs`, `ControlGateProofs`, `CameraControlProofs`,
   `ParameterControlProofs`, `AppletRestoreProofs`: every safety property of the runs.
10. Left to prove: when item 8 composes the gate with `AppletLifecycle`, that a request acts
    on the applet it saw.
