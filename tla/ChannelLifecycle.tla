-------------------------- MODULE ChannelLifecycle --------------------------
(***************************************************************************)
(* The acquisition lifecycle of one Framegrabber: grab, stop, requestStop, *)
(* close, loading an applet and (dis)connecting cameras, called by any     *)
(* number of threads, together with the worker thread that grab starts for *)
(* every DMA channel.  Every read or write of an atomic, every critical    *)
(* section and every SDK call that another thread can tell apart is one    *)
(* step; a critical section of _stateMutex is one step as a whole.         *)
(*                                                                         *)
(* dmaOn, camOn and memory are the state of the Basler SDK (external): the *)
(* channels whose DMA transfers, whose CXP camera streams, and whose DMA   *)
(* memory is allocated.  Of a frame loop there is what a stop has to end:  *)
(* the waits for the permit, for a frame and for a free buffer; what is in *)
(* the frames is in FrameDelivery.                                         *)
(***************************************************************************)
EXTENDS Integers, FiniteSets

CONSTANTS
  Dmas,                \* the DMA channels of the applet, 0 .. n-1
  Controllers,         \* threads that call the public operations
  Operations,          \* the operations controllers call
  CallbackOperations,  \* the operations a grab callback calls on its worker
  CameraRequired,      \* _cameraControlRequired: the applet is CoaXPress
  PromptChannels,      \* channels whose callbacks call ready() before they return
  NoThread,            \* an unlocked mutex
  StoresMayLag         \* a release store may become visible after a later load

ASSUME ConstantsAssumption ==
  /\ IsFiniteSet(Dmas) /\ Dmas \subseteq Nat
  /\ Controllers \cap Dmas = {} /\ PromptChannels \subseteq Dmas
  /\ NoThread \notin Controllers \cup Dmas
  /\ Operations \subseteq {"grab", "stop", "requestStop", "close", "load",
                           "connect", "disconnect"}
  /\ CallbackOperations \subseteq Operations
  /\ CameraRequired \in BOOLEAN /\ StoresMayLag \in BOOLEAN

Threads == Controllers \cup Dmas

VARIABLES
  lifecycle,           \* owner of _lifecycleMutex
  startup,             \* owner of _cameraStartupMutex
  resource,            \* owner of every channel's resourceMutex
  isRunning,           \* _isRunning
  starting,            \* _startingChannels
  active,              \* _activeChannels
  opened,              \* _handle is not null
  channels,            \* the non-null entries of _channels
  joinable,            \* those whose thread has not been joined
  stopRequested,       \* DmaChannel::stopRequested
  acquisitionStarted,  \* DmaChannel::acquisitionStarted
  cameraStarted,       \* DmaChannel::cameraStarted
  memory,              \* channels whose dma_mem is allocated
  dmaOn,               \* channels between Fg_AcquireEx and Fg_stopAcquireEx
  camOn,               \* between Sgc_startAcquisition and Sgc_stopAcquisition
  connected,           \* CXP cameras that are connected
  status,              \* the GrabbingStatus last delivered to the callbacks
  permits,             \* channels in whose loop DmaChannel::permits is not 0
  drained,             \* channels whose ownedBufferPool has no free buffer
  worker,              \* where each DMA worker is
  call                 \* the operation each thread is in, and where

locks == <<lifecycle, startup, resource>>
run   == <<isRunning, starting, active, status>>
table == <<opened, channels, joinable>>
flags == <<stopRequested, acquisitionStarted, cameraStarted>>
waits == <<permits, drained>>
sdk   == <<memory, dmaOn, camOn, connected>>
vars  == <<locks, run, table, flags, waits, sdk, worker, call>>

\* In the frame loop: before the predicate of permitCondition, found it false but
\* not yet waiting, waiting; in the blocking wait for a frame; before the predicate of
\* the pool's condition, waiting on it; and in the grab callbacks.
LoopStates ==
  {"loop", "blocking", "asleep", "frame", "lease", "poolAsleep", "callback"}

WorkerStates ==
  {"exited", "acquire", "flagAcquired", "startup", "cameraBody", "flagCamera",
   "finish", "takeCamera", "stopCamera", "lockResource", "stopDma",
   "freeMemory", "leave", "checkStarting", "clearRunning", "notifyOff"}
  \cup LoopStates

CallStates ==
  {"idle", "lock", "clearRunning", "flagStop", "barrier", "takeCamera",
   "stopCamera", "lockResource", "stopDma", "join", "release", "adopt",
   "prepare", "reset", "announce", "startChannels", "started", "checkActive",
   "publish", "grabEmpty", "notifyOff"}

Idle == [op |-> "none", at |-> "idle", todo |-> {}]

TypeOK ==
  /\ lifecycle \in Threads \cup {NoThread}
  /\ startup \in Dmas \cup {NoThread}
  /\ resource \in [Dmas -> Threads \cup {NoThread}]
  /\ isRunning \in BOOLEAN /\ starting \in BOOLEAN /\ status \in BOOLEAN
  /\ active \in 0 .. Cardinality(Dmas)
  /\ opened \in BOOLEAN
  /\ channels \subseteq Dmas /\ joinable \subseteq channels
  /\ stopRequested \subseteq Dmas /\ acquisitionStarted \subseteq Dmas
  /\ cameraStarted \subseteq Dmas
  /\ permits \subseteq Dmas /\ drained \subseteq Dmas
  /\ memory \subseteq Dmas /\ dmaOn \subseteq Dmas
  /\ camOn \subseteq Dmas /\ connected \subseteq Dmas
  /\ worker \in [Dmas -> WorkerStates]
  /\ call \in [Threads -> [op : Operations \cup {"none"}, at : CallStates,
                           todo : SUBSET Dmas]]

Init ==
  /\ lifecycle = NoThread /\ startup = NoThread
  /\ resource = [d \in Dmas |-> NoThread]
  /\ isRunning = FALSE /\ starting = FALSE /\ active = 0 /\ status = FALSE
  /\ opened = FALSE /\ channels = {} /\ joinable = {}
  /\ stopRequested = {} /\ acquisitionStarted = {} /\ cameraStarted = {}
  /\ permits = {} /\ drained = {}
  /\ memory = {} /\ dmaOn = {} /\ camOn = {} /\ connected = {}
  /\ worker = [d \in Dmas |-> "exited"]
  /\ call = [t \in Threads |-> Idle]

-----------------------------------------------------------------------------
(* Moving the program counters.                                            *)

At(t, l) == call[t].at = l
Goto(t, l) == call' = [call EXCEPT ![t].at = l]
GotoFor(t, l, ds) == call' = [call EXCEPT ![t] = [op |-> @.op, at |-> l, todo |-> ds]]

\* Leaving an operation releases the lifecycle lock, which its scope holds.
Return(t) == lifecycle' = NoThread /\ call' = [call EXCEPT ![t] = Idle]

First(ds) == CHOOSE d \in ds : \A e \in ds : d <= e

WorkerGoto(d, l) == worker' = [worker EXCEPT ![d] = l]

-----------------------------------------------------------------------------
(* Entering an operation.  grab alone looks at _isRunning before it locks. *)

Begin(t, op) ==
  /\ At(t, "idle")
  /\ op = "grab" => ~isRunning
  /\ call' = [call EXCEPT ![t] = [op |-> op, at |-> "lock", todo |-> {}]]
  /\ UNCHANGED <<waits, locks, run, table, flags, sdk, worker>>

ControllerCalls(t) == t \in Controllers /\ \E op \in Operations : Begin(t, op)

\* A grab callback runs on the worker, inside its frame loop.
CallbackCalls(d) ==
  /\ worker[d] = "callback"
  /\ \E op \in CallbackOperations : Begin(d, op)

\* grab and load are refused while acquisition runs; the camera operations
\* too, and they are complete here; the others start with
\* requestStopChannels.
Refused(t) == call[t].op \in {"grab", "load", "connect", "disconnect"} /\ isRunning

LockLifecycle(t) ==
  /\ At(t, "lock") /\ lifecycle = NoThread
  /\ call[t].op \notin {"connect", "disconnect"} /\ ~Refused(t)
  /\ lifecycle' = t
  /\ Goto(t, "clearRunning")
  /\ UNCHANGED <<waits, startup, resource, run, table, flags, sdk, worker>>

LockAndRefuse(t) ==
  /\ At(t, "lock") /\ lifecycle = NoThread
  /\ Refused(t)
  /\ Return(t)
  /\ UNCHANGED <<waits, startup, resource, run, table, flags, sdk, worker>>

\* connectCamera: the camera is known only while the board is open, and
\* Sgc_connectCamera may fail.
ConnectCamera(t) ==
  /\ At(t, "lock") /\ lifecycle = NoThread
  /\ call[t].op = "connect" /\ ~Refused(t)
  /\ \/ UNCHANGED connected
     \/ \E d \in Dmas : opened /\ CameraRequired /\ connected' = connected \cup {d}
  /\ Return(t)
  /\ UNCHANGED <<waits, startup, resource, run, table, flags, memory, dmaOn,
                 camOn, worker>>

\* disconnectCamera of one camera, or of none when the SDK call fails.
DisconnectCamera(t) ==
  /\ At(t, "lock") /\ lifecycle = NoThread
  /\ call[t].op = "disconnect" /\ ~Refused(t)
  /\ \/ UNCHANGED connected
     \/ \E d \in connected : connected' = connected \ {d}
  /\ Return(t)
  /\ UNCHANGED <<waits, startup, resource, run, table, flags, memory, dmaOn,
                 camOn, worker>>

-----------------------------------------------------------------------------
(* requestStopChannels                                                     *)

ClearRunning(t) ==
  /\ At(t, "clearRunning")
  /\ isRunning' = FALSE
  /\ Goto(t, "flagStop")
  /\ UNCHANGED <<waits, locks, starting, active, status, table, flags, sdk, worker>>

\* notify_all of permitCondition and of the pool's condition: a worker that
\* waits goes back to its predicate, one that does not wait yet hears nothing.
PermitNotified(w) == IF w = "asleep" THEN "loop" ELSE w
PoolNotified(w)   == IF w = "poolAsleep" THEN "lease" ELSE w

\* Mutant: the buffer pools are not stopped.
FlagStop_PoolNotStopped(t) ==
  /\ At(t, "flagStop")
  /\ stopRequested' = stopRequested \cup channels
  /\ worker' = [d \in Dmas |-> IF d \in channels THEN PermitNotified(worker[d])
                                                ELSE worker[d]]
  /\ GotoFor(t, "barrier", channels)
  /\ UNCHANGED <<waits, locks, run, table, acquisitionStarted, cameraStarted, sdk>>

\* Under _stateMutex: flag every channel, notify its worker and stop its pool.
FlagStop(t) ==
  /\ At(t, "flagStop")
  /\ stopRequested' = stopRequested \cup channels
  /\ worker' = [d \in Dmas |-> IF d \in channels THEN PoolNotified(PermitNotified(worker[d]))
                                                ELSE worker[d]]
  /\ GotoFor(t, "barrier", channels)
  /\ UNCHANGED <<waits, locks, run, table, acquisitionStarted, cameraStarted, sdk>>

AfterStopChannels(t) ==
  IF call[t].op = "requestStop" THEN Return(t)
  ELSE GotoFor(t, "join", joinable \ {t}) /\ UNCHANGED lifecycle

\* Mutant: no wait for a camera startup in progress.
StartupBarrier_Skipped(t) ==
  /\ At(t, "barrier")
  /\ IF opened THEN Goto(t, "takeCamera") /\ UNCHANGED lifecycle
               ELSE AfterStopChannels(t)
  /\ UNCHANGED <<waits, startup, resource, run, table, flags, sdk, worker>>

\* Lock and unlock _cameraStartupMutex: wait for a startup in progress.
StartupBarrier(t) ==
  /\ At(t, "barrier") /\ startup = NoThread
  /\ IF opened THEN Goto(t, "takeCamera") /\ UNCHANGED lifecycle
               ELSE AfterStopChannels(t)
  /\ UNCHANGED <<waits, startup, resource, run, table, flags, sdk, worker>>

TakeCamera(t) ==
  /\ At(t, "takeCamera") /\ call[t].todo # {}
  /\ LET d == First(call[t].todo) IN
       /\ cameraStarted' = cameraStarted \ {d}
       /\ Goto(t, IF d \in cameraStarted THEN "stopCamera" ELSE "lockResource")
  /\ UNCHANGED <<waits, locks, run, table, stopRequested, acquisitionStarted,
                 sdk, worker>>

StopChannelsDone(t) ==
  /\ At(t, "takeCamera") /\ call[t].todo = {}
  /\ AfterStopChannels(t)
  /\ UNCHANGED <<waits, startup, resource, run, table, flags, sdk, worker>>

\* stopCameraAcquisitionForChannel
StopCamera(t) ==
  /\ At(t, "stopCamera")
  /\ camOn' = camOn \ {First(call[t].todo)}
  /\ Goto(t, "lockResource")
  /\ UNCHANGED <<waits, locks, run, table, flags, memory, dmaOn, connected, worker>>

\* Mutant: the stopping thread does without resourceMutex.
LockResource_Unlocked(t) ==
  /\ At(t, "lockResource")
  /\ LET d == First(call[t].todo) IN
       IF d \in memory \cap acquisitionStarted
         THEN /\ acquisitionStarted' = acquisitionStarted \ {d}
              /\ Goto(t, "stopDma")
         ELSE /\ GotoFor(t, "takeCamera", call[t].todo \ {d})
              /\ UNCHANGED acquisitionStarted
  /\ UNCHANGED <<waits, locks, run, table, stopRequested, cameraStarted, sdk,
                 worker>>

\* Under resourceMutex: stop the DMA unless the worker already did.
LockResource(t) ==
  /\ At(t, "lockResource")
  /\ LET d == First(call[t].todo) IN
       /\ resource[d] = NoThread
       /\ IF d \in memory \cap acquisitionStarted
            THEN /\ resource' = [resource EXCEPT ![d] = t]
                 /\ acquisitionStarted' = acquisitionStarted \ {d}
                 /\ Goto(t, "stopDma")
            ELSE /\ GotoFor(t, "takeCamera", call[t].todo \ {d})
                 /\ UNCHANGED <<resource, acquisitionStarted>>
  /\ UNCHANGED <<waits, lifecycle, startup, run, table, stopRequested,
                 cameraStarted, sdk, worker>>

StopDma(t) ==
  /\ At(t, "stopDma")
  /\ LET d == First(call[t].todo) IN
       /\ dmaOn' = dmaOn \ {d}
       /\ resource' = [resource EXCEPT ![d] = NoThread]
       /\ GotoFor(t, "takeCamera", call[t].todo \ {d})
  /\ UNCHANGED <<waits, lifecycle, startup, run, table, flags, memory, camOn,
                 connected, worker>>

-----------------------------------------------------------------------------
(* joinStoppedChannels: join every worker but the calling one.             *)

\* Mutant: the worker is detached instead of joined.
JoinOne_Detaches(t) ==
  /\ At(t, "join") /\ call[t].todo # {}
  /\ LET d == First(call[t].todo) IN
       /\ joinable' = joinable \ {d}
       /\ GotoFor(t, "join", call[t].todo \ {d})
  /\ UNCHANGED <<waits, locks, run, opened, channels, flags, sdk, worker>>

JoinOne(t) ==
  /\ At(t, "join") /\ call[t].todo # {}
  /\ LET d == First(call[t].todo) IN
       /\ worker[d] = "exited"
       /\ joinable' = joinable \ {d}
       /\ GotoFor(t, "join", call[t].todo \ {d})
  /\ UNCHANGED <<waits, locks, run, opened, channels, flags, sdk, worker>>

\* On a worker of this grabber the join is incomplete and the operation gives
\* up, leaving the channels for a later stop.
JoinRefused(t) ==
  /\ At(t, "join") /\ call[t].todo = {} /\ t \in joinable
  /\ Return(t)
  /\ UNCHANGED <<waits, startup, resource, run, table, flags, sdk, worker>>

\* Mutant: an incomplete join does not stop the operation.
Joined_ExceptSelf(t) ==
  /\ At(t, "join") /\ call[t].todo = {}
  /\ channels' = {} /\ joinable' = {}
  /\ CASE call[t].op = "stop" -> Return(t)
       [] call[t].op = "grab" -> Goto(t, "prepare") /\ UNCHANGED lifecycle
       [] OTHER -> Goto(t, "release") /\ UNCHANGED lifecycle
  /\ UNCHANGED <<waits, startup, resource, run, opened, flags, sdk, worker>>

Joined(t) ==
  /\ At(t, "join") /\ call[t].todo = {} /\ t \notin joinable
  /\ channels' = {} /\ joinable' = {}
  /\ CASE call[t].op = "stop" -> Return(t)
       [] call[t].op = "grab" -> Goto(t, "prepare") /\ UNCHANGED lifecycle
       [] OTHER -> Goto(t, "release") /\ UNCHANGED lifecycle
  /\ UNCHANGED <<waits, startup, resource, run, opened, flags, sdk, worker>>

-----------------------------------------------------------------------------
(* close, and loading an applet after it                                   *)

\* releaseHandles: disconnect the cameras, free the board and the grabber.
ReleaseHandles(t) ==
  /\ At(t, "release")
  /\ opened' = FALSE /\ connected' = {}
  /\ IF call[t].op = "close" THEN Return(t)
                             ELSE Goto(t, "adopt") /\ UNCHANGED lifecycle
  /\ UNCHANGED <<waits, startup, resource, run, channels, joinable, flags,
                 memory, dmaOn, camOn, worker>>

\* initializeBoard and adoptBoard: the board opens with whatever cameras the
\* discovery connects, or initialization fails.
AdoptBoard(t) ==
  /\ At(t, "adopt")
  /\ \/ opened' = TRUE /\ connected' \in SUBSET (IF CameraRequired THEN Dmas ELSE {})
     \/ UNCHANGED <<opened, connected>>
  /\ Return(t)
  /\ UNCHANGED <<waits, startup, resource, run, channels, joinable, flags,
                 memory, dmaOn, camOn, worker>>

-----------------------------------------------------------------------------
(* grab, after the old workers are joined                                  *)

Prepare(t) ==
  /\ At(t, "prepare")
  /\ isRunning' = opened
  /\ IF opened THEN Goto(t, "reset") /\ UNCHANGED lifecycle ELSE Return(t)
  /\ UNCHANGED <<waits, startup, resource, starting, active, status, table,
                 flags, sdk, worker>>

NoDmaChannels(t) ==
  /\ At(t, "reset")
  /\ isRunning' = FALSE
  /\ Return(t)
  /\ UNCHANGED <<waits, startup, resource, starting, active, status, table,
                 flags, sdk, worker>>

Reset(t) ==
  /\ At(t, "reset")
  /\ active' = 0 /\ starting' = TRUE
  /\ Goto(t, "announce")
  /\ UNCHANGED <<waits, locks, isRunning, status, table, flags, sdk, worker>>

Announce(t) ==
  /\ At(t, "announce")
  /\ status' = TRUE
  /\ GotoFor(t, "startChannels", Dmas)
  /\ UNCHANGED <<waits, locks, isRunning, starting, active, table, flags, sdk,
                 worker>>

\* startChannel: allocate, register and start the worker of a new DmaChannel.
StartChannel(t) ==
  /\ At(t, "startChannels") /\ call[t].todo # {}
  /\ LET d == First(call[t].todo) IN
       /\ channels' = channels \cup {d} /\ joinable' = joinable \cup {d}
       /\ stopRequested' = stopRequested \ {d}
       /\ acquisitionStarted' = acquisitionStarted \ {d}
       /\ cameraStarted' = cameraStarted \ {d}
       /\ permits' = permits \cup {d} /\ drained' = drained \ {d}
       /\ memory' = memory \cup {d}
       /\ active' = active + 1
       /\ WorkerGoto(d, "acquire")
       /\ GotoFor(t, "startChannels", call[t].todo \ {d})
  /\ UNCHANGED <<locks, isRunning, starting, status, opened, dmaOn, camOn,
                 connected>>

\* Unusable geometry, no memory, or no thread: everything is undone.
StartChannelFails(t) ==
  /\ At(t, "startChannels") /\ call[t].todo # {}
  /\ GotoFor(t, "startChannels", call[t].todo \ {First(call[t].todo)})
  /\ UNCHANGED <<waits, locks, run, table, flags, sdk, worker>>

Started(t) ==
  /\ At(t, "startChannels") /\ call[t].todo = {}
  /\ starting' = FALSE
  /\ Goto(t, "checkActive")
  /\ UNCHANGED <<waits, locks, isRunning, active, status, table, flags, sdk,
                 worker>>

\* Mutant: grab does not look whether any channel is left.
CheckActive_Dropped(t) ==
  /\ At(t, "checkActive")
  /\ Return(t)
  /\ UNCHANGED <<waits, startup, resource, run, table, flags, sdk, worker>>

CheckActive(t) ==
  /\ At(t, "checkActive")
  /\ IF active = 0 THEN Goto(t, "grabEmpty") /\ UNCHANGED lifecycle ELSE Return(t)
  /\ UNCHANGED <<waits, startup, resource, run, table, flags, sdk, worker>>

\* The store to _startingChannels is release and the load of _activeChannels
\* acquire, to different locations: the load may be satisfied first.  The
\* store is visible at the latest when the lifecycle lock is released.
LaggingLoad(t) ==
  /\ StoresMayLag
  /\ At(t, "startChannels") /\ call[t].todo = {} /\ active # 0
  /\ Goto(t, "publish")
  /\ UNCHANGED <<waits, locks, run, table, flags, sdk, worker>>

LaggingStore(t) ==
  /\ At(t, "publish")
  /\ starting' = FALSE
  /\ Return(t)
  /\ UNCHANGED <<waits, startup, resource, isRunning, active, status, table,
                 flags, sdk, worker>>

\* Nothing runs: the run is over before grab returns.
GrabEmpty(t) ==
  /\ At(t, "grabEmpty")
  /\ isRunning' = FALSE
  /\ Goto(t, "notifyOff")
  /\ UNCHANGED <<waits, locks, starting, active, status, table, flags, sdk, worker>>

GrabNotifyOff(t) ==
  /\ At(t, "notifyOff")
  /\ status' = FALSE
  /\ Return(t)
  /\ UNCHANGED <<waits, startup, resource, isRunning, starting, active, table,
                 flags, sdk, worker>>

-----------------------------------------------------------------------------
(* The DMA worker                                                          *)

Acquire(d) ==
  /\ worker[d] = "acquire"
  /\ \/ dmaOn' = dmaOn \cup {d} /\ WorkerGoto(d, "flagAcquired")
     \/ WorkerGoto(d, "finish") /\ UNCHANGED dmaOn
  /\ UNCHANGED <<waits, locks, run, table, flags, memory, camOn, connected, call>>

FlagAcquired(d) ==
  /\ worker[d] = "flagAcquired"
  /\ acquisitionStarted' = acquisitionStarted \cup {d}
  /\ WorkerGoto(d, "startup")
  /\ UNCHANGED <<waits, locks, run, table, stopRequested, cameraStarted, sdk, call>>

\* startCameraAcquisitionForChannel: lock and check that the run goes on.
CameraStartup(d) ==
  /\ worker[d] = "startup" /\ startup = NoThread
  /\ \/ /\ isRunning /\ CameraRequired
        /\ startup' = d /\ WorkerGoto(d, "cameraBody")
     \/ /\ isRunning /\ ~CameraRequired
        /\ WorkerGoto(d, "flagCamera") /\ UNCHANGED startup
     \/ /\ ~isRunning
        /\ WorkerGoto(d, "finish") /\ UNCHANGED startup
  /\ UNCHANGED <<waits, lifecycle, resource, run, table, flags, sdk, call>>

\* Connect the camera, align its geometry, start its stream; each can fail.
CameraBody(d) ==
  /\ worker[d] = "cameraBody"
  /\ startup' = NoThread
  /\ \/ /\ connected' = connected \cup {d} /\ camOn' = camOn \cup {d}
        /\ WorkerGoto(d, "flagCamera")
     \/ /\ connected' \in {connected, connected \cup {d}} /\ UNCHANGED camOn
        /\ WorkerGoto(d, "finish")
  /\ UNCHANGED <<waits, lifecycle, resource, run, table, flags, memory, dmaOn,
                 call>>

FlagCamera(d) ==
  /\ worker[d] = "flagCamera"
  /\ cameraStarted' = cameraStarted \cup {d}
  /\ WorkerGoto(d, "loop")
  /\ UNCHANGED <<waits, locks, run, table, stopRequested, acquisitionStarted,
                 sdk, call>>

\* The loop condition, the predicate of permitCondition, and the tests after it.
\* The predicate is evaluated under permitMutex, which neither ready() nor the
\* stop takes: either may come before the worker falls asleep.
EvaluatePermit(d) ==
  /\ worker[d] = "loop"
  /\ \/ d \in stopRequested /\ WorkerGoto(d, "finish") /\ UNCHANGED waits
     \/ /\ d \notin stopRequested /\ d \in permits
        /\ permits' = permits \ {d} /\ WorkerGoto(d, "frame") /\ UNCHANGED drained
     \/ /\ d \notin stopRequested /\ d \notin permits
        /\ WorkerGoto(d, "blocking") /\ UNCHANGED waits
  /\ UNCHANGED <<locks, run, table, flags, sdk, call>>

FallAsleep(d) ==
  /\ worker[d] = "blocking"
  /\ WorkerGoto(d, "asleep")
  /\ UNCHANGED <<waits, locks, run, table, flags, sdk, call>>

SpuriousWakeup(d) ==
  /\ worker[d] \in {"asleep", "poolAsleep"}
  /\ WorkerGoto(d, IF worker[d] = "asleep" THEN "loop" ELSE "lease")
  /\ UNCHANGED <<waits, locks, run, table, flags, sdk, call>>

\* Fg_getLastPicNumberBlockingEx: it times out and the permit is given back, or
\* the frame it returns is rejected, or is there to be copied.
AwaitFrame(d) ==
  /\ worker[d] = "frame"
  /\ \/ WorkerGoto(d, "loop") /\ permits' = permits \cup {d}
     \/ WorkerGoto(d, "lease") /\ UNCHANGED permits
  /\ UNCHANGED <<drained, locks, run, table, flags, sdk, call>>

\* Mutant: the predicate of the pool's condition leaves out the stop.
AcquireLease_StopIgnored(d) ==
  /\ worker[d] = "lease"
  /\ WorkerGoto(d, IF d \in drained THEN "poolAsleep" ELSE "callback")
  /\ UNCHANGED <<waits, locks, run, table, flags, sdk, call>>

\* OwnedBufferPool::acquire.  Its predicate is evaluated under the mutex that
\* stop() and release() take, so evaluating it and falling asleep are one step.
\* A copy that may be torn is dropped.
AcquireLease(d) ==
  /\ worker[d] = "lease"
  /\ \/ d \in stopRequested /\ WorkerGoto(d, "finish") /\ UNCHANGED waits
     \/ /\ d \notin stopRequested /\ d \in drained
        /\ WorkerGoto(d, "poolAsleep") /\ UNCHANGED waits
     \/ /\ d \notin stopRequested /\ d \notin drained
        /\ WorkerGoto(d, "callback") /\ UNCHANGED waits
     \/ /\ d \notin stopRequested /\ d \notin drained
        /\ permits' = permits \cup {d} /\ WorkerGoto(d, "loop") /\ UNCHANGED drained
  /\ UNCHANGED <<locks, run, table, flags, sdk, call>>

\* The callbacks return.  They may keep the image, and with it the last buffer.
CallbacksReturn(d) ==
  /\ worker[d] = "callback" /\ At(d, "idle")
  /\ permits' = IF d \in PromptChannels THEN permits \cup {d} ELSE permits
  /\ drained' \in {drained, drained \cup {d}}
  /\ WorkerGoto(d, "loop")
  /\ UNCHANGED <<locks, run, table, flags, sdk, call>>

\* The frame limit of grab(frames), or the wait for a frame failed, as it does
\* once the driver or Fg_stopAcquireEx has ended the acquisition.
LoopEnds(d) ==
  /\ worker[d] \in {"frame", "callback"} /\ At(d, "idle")
  /\ WorkerGoto(d, "finish")
  /\ UNCHANGED <<waits, locks, run, table, flags, sdk, call>>

\* ready(), from whatever thread of the consumer, for the frame that the callbacks
\* of the channel were given and have not answered.
Ready(d) ==
  /\ d \notin PromptChannels \cup permits
  /\ worker[d] \in {"callback", "loop", "blocking", "asleep"}
  /\ permits' = permits \cup {d}
  /\ WorkerGoto(d, PermitNotified(worker[d]))
  /\ UNCHANGED <<drained, locks, run, table, flags, sdk, call>>

\* The consumer lets go of an image it kept: OwnedBufferPool::release.
ReleaseImage(d) ==
  /\ d \in drained
  /\ drained' = drained \ {d}
  /\ WorkerGoto(d, PoolNotified(worker[d]))
  /\ UNCHANGED <<permits, locks, run, table, flags, sdk, call>>

\* finishChannel.  Its first step reads _handle and files the statistics; a
\* worker's handle is open as long as the worker lives (NothingLeftBehind).  Nobody
\* reads the channel's permit and pool any more, and the model forgets them.
Finish(d) ==
  /\ worker[d] = "finish"
  /\ WorkerGoto(d, "takeCamera")
  /\ permits' = permits \ {d} /\ drained' = drained \ {d}
  /\ UNCHANGED <<locks, run, table, flags, sdk, call>>

WorkerTakesCamera(d) ==
  /\ worker[d] = "takeCamera"
  /\ cameraStarted' = cameraStarted \ {d}
  /\ WorkerGoto(d, IF d \in cameraStarted THEN "stopCamera" ELSE "lockResource")
  /\ UNCHANGED <<waits, locks, run, table, stopRequested, acquisitionStarted,
                 sdk, call>>

WorkerStopsCamera(d) ==
  /\ worker[d] = "stopCamera"
  /\ camOn' = camOn \ {d}
  /\ WorkerGoto(d, "lockResource")
  /\ UNCHANGED <<waits, locks, run, table, flags, memory, dmaOn, connected, call>>

WorkerLocksResource(d) ==
  /\ worker[d] = "lockResource" /\ resource[d] = NoThread
  /\ resource' = [resource EXCEPT ![d] = d]
  /\ acquisitionStarted' = acquisitionStarted \ {d}
  /\ WorkerGoto(d, IF d \in acquisitionStarted THEN "stopDma" ELSE "freeMemory")
  /\ UNCHANGED <<waits, lifecycle, startup, run, table, stopRequested,
                 cameraStarted, sdk, call>>

WorkerStopsDma(d) ==
  /\ worker[d] = "stopDma"
  /\ dmaOn' = dmaOn \ {d}
  /\ WorkerGoto(d, "freeMemory")
  /\ UNCHANGED <<waits, locks, run, table, flags, memory, camOn, connected, call>>

FreeMemory(d) ==
  /\ worker[d] = "freeMemory"
  /\ memory' = memory \ {d}
  /\ resource' = [resource EXCEPT ![d] = NoThread]
  /\ WorkerGoto(d, "leave")
  /\ UNCHANGED <<waits, lifecycle, startup, run, table, flags, dmaOn, camOn,
                 connected, call>>

Leave(d) ==
  /\ worker[d] = "leave"
  /\ active' = active - 1
  /\ WorkerGoto(d, IF active = 1 THEN "checkStarting" ELSE "exited")
  /\ UNCHANGED <<waits, locks, isRunning, starting, status, table, flags, sdk,
                 call>>

CheckStarting(d) ==
  /\ worker[d] = "checkStarting"
  /\ WorkerGoto(d, IF starting THEN "exited" ELSE "clearRunning")
  /\ UNCHANGED <<waits, locks, run, table, flags, sdk, call>>

WorkerClearsRunning(d) ==
  /\ worker[d] = "clearRunning"
  /\ isRunning' = FALSE
  /\ WorkerGoto(d, "notifyOff")
  /\ UNCHANGED <<waits, locks, starting, active, status, table, flags, sdk, call>>

WorkerNotifiesOff(d) ==
  /\ worker[d] = "notifyOff"
  /\ status' = FALSE
  /\ WorkerGoto(d, "exited")
  /\ UNCHANGED <<waits, locks, isRunning, starting, active, table, flags, sdk,
                 call>>

-----------------------------------------------------------------------------
RequestStopChannels(t) ==
  \/ ClearRunning(t) \/ FlagStop(t) \/ StartupBarrier(t) \/ TakeCamera(t)
  \/ StopChannelsDone(t) \/ StopCamera(t) \/ LockResource(t) \/ StopDma(t)

JoinStoppedChannels(t) == JoinOne(t) \/ JoinRefused(t) \/ Joined(t)

Grab(t) ==
  \/ Prepare(t) \/ NoDmaChannels(t) \/ Reset(t) \/ Announce(t)
  \/ StartChannel(t) \/ StartChannelFails(t) \/ Started(t) \/ CheckActive(t)
  \/ LaggingLoad(t) \/ LaggingStore(t) \/ GrabEmpty(t) \/ GrabNotifyOff(t)

\* The steps an operation takes once it holds the lifecycle lock.
Proceed(t) ==
  \/ RequestStopChannels(t) \/ JoinStoppedChannels(t)
  \/ ReleaseHandles(t) \/ AdoptBoard(t) \/ Grab(t)

Enter(t) ==
  \/ LockLifecycle(t) \/ LockAndRefuse(t) \/ ConnectCamera(t) \/ DisconnectCamera(t)

\* The frame loop, where the worker does not sleep.
Loop(d) ==
  \/ EvaluatePermit(d) \/ FallAsleep(d) \/ AwaitFrame(d) \/ AcquireLease(d)
  \/ CallbacksReturn(d)

\* What may happen to a loop but does not have to.
LoopDisturbed(d) ==
  \/ CallbackCalls(d) \/ LoopEnds(d) \/ SpuriousWakeup(d)
  \/ Ready(d) \/ ReleaseImage(d)

\* The steps a worker takes of its own accord.
WorkerProceeds(d) ==
  \/ Acquire(d) \/ FlagAcquired(d) \/ CameraStartup(d) \/ CameraBody(d)
  \/ FlagCamera(d) \/ Loop(d) \/ Finish(d)
  \/ WorkerTakesCamera(d) \/ WorkerStopsCamera(d) \/ WorkerLocksResource(d)
  \/ WorkerStopsDma(d) \/ FreeMemory(d) \/ Leave(d) \/ CheckStarting(d)
  \/ WorkerClearsRunning(d) \/ WorkerNotifiesOff(d)

Next ==
  \/ \E t \in Threads : ControllerCalls(t) \/ Enter(t) \/ Proceed(t)
  \/ \E d \in Dmas : LoopDisturbed(d) \/ WorkerProceeds(d)

Spec == Init /\ [][Next]_vars

\* A thread that can run does run: a wait for a frame times out and a callback
\* returns.  Nothing is assumed of who gets the lifecycle lock, of when an
\* operation is called, of when a run ends, or of a consumer: that it answers a
\* frame, lets go of an image, or that a sleeping thread wakes without being notified.
FairSpec ==
  /\ Spec
  /\ \A t \in Threads : WF_vars(Proceed(t))
  /\ \A d \in Dmas : WF_vars(WorkerProceeds(d))
-----------------------------------------------------------------------------
(* What the lifecycle promises.                                            *)

Exited(d) == worker[d] = "exited"
AllExited == \A d \in Dmas : Exited(d)

\* A worker captures the Fg_Struct handle when it starts and uses it until its
\* thread ends: no close or load, from whatever thread, frees the handle while
\* a worker is alive.  Once the channel table is cleared (stop returned, close and
\* load go on) no worker, transfer, camera stream or DMA memory of the run is left.
NothingLeftBehind ==
  /\ ~opened => AllExited
  /\ channels = {} => AllExited /\ memory = {} /\ dmaOn = {} /\ camOn = {}

\* The DMA engine never writes into freed memory: Fg_FreeMemEx follows
\* Fg_stopAcquireEx for that memory, whichever thread makes either call.
NoTransferToFreedMemory == dmaOn \subseteq memory

\* When no operation is in progress and every worker has ended, _isRunning is
\* off and the callbacks were last told that grabbing is off: no run ends
\* unreported, however the last worker and the end of grab interleave.
QuietMeansOff == lifecycle = NoThread /\ AllExited => ~isRunning /\ ~status

\* Acquisition runs while a worker that nobody stopped is in its frame loop.
AcquisitionRuns == \E d \in Dmas : worker[d] \in LoopStates /\ d \notin stopRequested

\* The worker no longer counts as active.
Ended(d) == worker[d] \in {"checkStarting", "clearRunning", "notifyOff", "exited"}

\* While acquisition runs and no operation is in progress, a set _isRunning has been
\* told to the callbacks and no off of an earlier run has overtaken it; and _isRunning
\* is clear only if another channel of the run has ended.  That does happen: see
\* LoadLeavesAcquisitionAlone.
DeniedOnlyAfterAnEnd ==
  lifecycle = NoThread /\ AcquisitionRuns
    => IF isRunning THEN status ELSE \E d \in channels : Ended(d)

\* Both ends of a run: its end is told, and what is told of it while it goes on.
StatusFollowsRuns == QuietMeansOff /\ DeniedOnlyAfterAnEnd

\* Once a stop has passed the startup barrier it is not followed by a camera
\* start of a channel it flagged (startCameraAcquisitionForChannel's comment).
NoCameraStartAfterStop ==
  [][ (camOn' \ camOn) \cap stopRequested # {}
        => \E t \in Threads : At(t, "barrier") ]_vars

\* README: the camera stream of a channel stops first, then its DMA.
CameraStopsBeforeDma == [][ (dmaOn \ dmaOn') \cap camOn = {} ]_vars

\* README: loading an applet while acquisition is running leaves the loaded applet
\* untouched.  The program does not do so, and no run states it: the worker of a channel
\* that failed may count itself out as the only active one before grab has started the
\* next channel, and find grab done; it then clears _isRunning of a run that goes on.
LoadLeavesAcquisitionAlone ==
  [][ \A t \in Threads :
        call[t].op = "load" /\ At(t, "lock") /\ call'[t].at = "clearRunning"
          => ~AcquisitionRuns ]_vars

\* Whoever holds the lifecycle lock, joining included, lets it go.
OperationsReturn == \A t \in Threads : lifecycle = t ~> lifecycle # t

\* A worker told to stop ends, even when nobody joins it.
StopEndsWorkers == \A d \in Dmas : d \in stopRequested ~> (Exited(d) \/ d \notin stopRequested)

=============================================================================
