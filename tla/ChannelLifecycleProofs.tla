----------------------- MODULE ChannelLifecycleProofs -----------------------
(***************************************************************************)
(* Proofs about ChannelLifecycle for any finite set of DMA channels and    *)
(* any set of threads, whether or not a release store may lag.             *)
(***************************************************************************)
EXTENDS ChannelLifecycle, FiniteSetTheorems, WellFoundedInduction, TLAPS

-----------------------------------------------------------------------------
(* The inductive invariant                                                 *)

\* The thread that holds the lifecycle lock, and where it is.
Holds         == lifecycle \in Threads
HolderAt(ls)  == Holds /\ call[lifecycle].at \in ls
Todo          == call[lifecycle].todo

\* The holder is between taking d's flag and the SDK call that it stands for.
Stopping(d, l) == HolderAt({l}) /\ First(Todo) = d

\* Steps of requestStopChannels after the flags are set, and those of them that
\* are about one channel.
StopSteps    == {"barrier", "takeCamera", "stopCamera", "lockResource", "stopDma"}
ChannelSteps == {"stopCamera", "lockResource", "stopDma"}
OffSteps     == {"flagStop", "join", "release", "adopt", "prepare", "notifyOff"} \cup StopSteps
StartSteps   == {"reset", "announce", "startChannels", "checkActive", "grabEmpty"}

\* A worker counts as active, and owns DMA memory, from its start to these steps.
WithMemory == WorkerStates \ {"exited", "leave", "checkStarting", "clearRunning", "notifyOff"}
Counted    == {d \in Dmas : worker[d] \in WithMemory \cup {"leave"}}

\* The states between which a notification moves a worker.
Sleeping == {"loop", "asleep", "lease", "poolAsleep"}

\* One thread is inside an operation, and it holds the lock.
LockInv == \A t \in Threads : lifecycle = t <=> call[t].at \notin {"idle", "lock"}

\* What the holder has achieved when it is at a step.
HolderInv ==
  /\ HolderAt(StopSteps) => Todo \subseteq channels
  /\ HolderAt(ChannelSteps) => Todo # {}
  /\ HolderAt(OffSteps) => ~isRunning
  /\ HolderAt({"join"}) => joinable \ {lifecycle} \subseteq Todo
  /\ HolderAt({"release", "adopt", "prepare", "reset", "announce"}) => channels = {}
  /\ HolderAt({"startChannels"}) => Todo \cap channels = {}
  /\ HolderAt({"reset", "announce", "startChannels"}) => opened
  /\ HolderAt({"stopDma"})
       => \A d \in Dmas : First(Todo) = d
            => resource[d] = lifecycle /\ worker[d] \notin {"stopDma", "freeMemory"}
  /\ HolderAt({"publish"}) => StoresMayLag

\* What is left of a channel tells where its worker is.
WorkerInv ==
  \A d \in Dmas :
    /\ worker[d] # "exited" => d \in joinable /\ opened
    /\ startup = d <=> worker[d] = "cameraBody"
    /\ worker[d] \in {"stopDma", "freeMemory"} => resource[d] = d
    /\ call[d].at # "idle" => worker[d] = "callback"

\* Who will stop what a channel has running.
SdkInv ==
  \A d \in Dmas :
    /\ d \in memory <=> worker[d] \in WithMemory
    /\ d \in dmaOn
         => /\ worker[d] \in WithMemory \ {"acquire", "freeMemory"}
            /\ \/ d \in acquisitionStarted
               \/ worker[d] \in {"flagAcquired", "stopDma"}
               \/ Stopping(d, "stopDma")
    /\ d \in cameraStarted => worker[d] \in LoopStates \cup {"finish", "takeCamera"}
    /\ d \in camOn
         => \/ d \in cameraStarted
            \/ worker[d] \in {"flagCamera", "stopCamera"}
            \/ Stopping(d, "stopCamera")

\* A channel told to stop starts nothing once the startup barrier is passed.
StopInv ==
  \A d \in stopRequested :
    /\ isRunning => worker[d] = "exited"
    /\ worker[d] = "cameraBody" => HolderAt({"barrier"})

CountInv == active = Cardinality(Counted)

\* Someone will still look whether the run is over: grab, or a counted worker,
\* or the last one on its way out.
LastOut(ls)   == \E d \in Dmas : worker[d] \in ls
Watched(ls)   == ~starting /\ (active > 0 \/ LastOut(ls))

StatusInv ==
  /\ HolderAt({"checkActive"}) => ~starting
  /\ isRunning => HolderAt(StartSteps) \/ Watched({"checkStarting", "clearRunning"})
  /\ status => \/ HolderAt({"startChannels", "checkActive", "grabEmpty", "notifyOff"})
               \/ Watched({"checkStarting", "clearRunning", "notifyOff"})

\* Whoever tells that grabbing is off has cleared _isRunning before.
OnInv ==
  /\ LastOut({"notifyOff"}) => ~isRunning
  /\ isRunning /\ ~status => HolderAt({"reset", "announce"})

\* _isRunning is clear in a run only once the run is told to stop or one of its channels
\* has ended.
SomeEnded == \E d \in channels : Ended(d)

DeniedInv ==
  /\ ~isRunning => HolderAt({"flagStop"}) \/ channels \subseteq stopRequested \/ SomeEnded
  /\ HolderAt({"reset", "announce", "startChannels"}) => isRunning \/ SomeEnded
  /\ HolderAt({"grabEmpty"}) => \A d \in channels : Ended(d)

IInv ==
  /\ TypeOK /\ LockInv /\ HolderInv /\ WorkerInv /\ SdkInv /\ StopInv /\ CountInv /\ OnInv
  /\ DeniedInv
  /\ ~StoresMayLag => StatusInv

-----------------------------------------------------------------------------
(* Lemmas about the operators                                              *)

\* First takes the least channel of a set that is not empty.
LEMMA FirstIn ==
  ASSUME NEW ds \in SUBSET Dmas, ds # {}
  PROVE  First(ds) \in ds
<1> DEFINE UpTo(n) == {e \in ds : e <= n}
           Sets    == {UpTo(n) : n \in ds}
<1>1. IsFiniteSet(ds) /\ \A n \in ds : n \in Nat
  BY ConstantsAssumption, FS_Subset
<1>2. Sets \subseteq FiniteSubsetsOf(ds) /\ Sets # {}
  <2>1. \A n \in ds : UpTo(n) \in FiniteSubsetsOf(ds)
    <3> SUFFICES ASSUME NEW n \in ds PROVE UpTo(n) \in FiniteSubsetsOf(ds)
      OBVIOUS
    <3>1. UpTo(n) \subseteq ds
      OBVIOUS
    <3>2. IsFiniteSet(UpTo(n))
      <4> HIDE DEF UpTo
      <4> QED
        BY <1>1, <3>1, FS_Subset
    <3> QED
      BY <3>1, <3>2 DEF FiniteSubsetsOf
  <2> QED
    BY <2>1
<1>3. PICK x \in Sets : \A y \in Sets : <<y, x>> \notin StrictSubsetOrdering(ds)
  <2> HIDE DEF Sets
  <2> QED
    BY <1>2, FS_StrictSubsetOrderingWellFounded, WFMin
<1>4. PICK d \in ds : x = UpTo(d)
  OBVIOUS
<1>5. ASSUME NEW e \in ds, ~(d <= e)
      PROVE  FALSE
  <2>1. d \in UpTo(d) /\ d \notin UpTo(e)
    BY <1>1, <1>5
  <2>2. UpTo(e) \subseteq UpTo(d)
    <3> SUFFICES ASSUME NEW f \in ds, f <= e PROVE f <= d
      OBVIOUS
    <3>1. d \in Nat /\ e \in Nat /\ f \in Nat
      BY <1>1
    <3> QED
      BY <1>5, <3>1
  <2>3. UpTo(e) \in Sets /\ UpTo(e) \subseteq ds /\ UpTo(d) \subseteq ds
    OBVIOUS
  <2>4. <<UpTo(e), UpTo(d)>> \in StrictSubsetOrdering(ds)
    <3> HIDE DEF UpTo
    <3> QED
      BY <2>1, <2>2, <2>3 DEF StrictSubsetOrdering
  <2> QED
    BY <1>3, <1>4, <2>3, <2>4
<1> QED
  BY <1>5 DEF First

\* No worker is counted while all of them have ended.
LEMMA Counting ==
  ASSUME TypeOK, CountInv
  PROVE  /\ IsFiniteSet(Counted) /\ active \in Nat
         /\ AllExited => active = 0
         /\ active = 0 => \A d \in Dmas : Ended(d)
<1>1. IsFiniteSet(Counted)
  BY ConstantsAssumption, FS_Subset DEF Counted
<1>2. AllExited => Counted = {}
  BY DEF AllExited, Exited, Counted, WithMemory
<1>3. active = 0 => Counted = {}
  BY <1>1, FS_EmptySet DEF CountInv
<1>4. Counted = {} => \A d \in Dmas : Ended(d)
  BY DEF TypeOK, Counted, WithMemory, WorkerStates, LoopStates, Ended
<1> QED
  BY <1>1, <1>2, <1>3, <1>4, FS_CardinalityType, FS_EmptySet DEF CountInv

\* A notification only sends a waiting worker back to its predicate.
LEMMA Notifying ==
  ASSUME TypeOK, NEW t \in Threads, FlagStop(t)
  PROVE  /\ At(t, "flagStop") /\ GotoFor(t, "barrier", channels)
         /\ stopRequested' = stopRequested \cup channels
         /\ worker' \in [Dmas -> WorkerStates]
         /\ \A d \in Dmas : \/ worker'[d] = worker[d]
                            \/ worker[d] \in Sleeping /\ worker'[d] \in Sleeping
         /\ UNCHANGED <<waits, locks, run, table, acquisitionStarted, cameraStarted, sdk>>
BY DEF TypeOK, FlagStop, PermitNotified, PoolNotified, WorkerStates, LoopStates,
   Sleeping

-----------------------------------------------------------------------------
(* TypeOK in parts: flags, sets of channels, and where the threads are     *)

Flags ==
  /\ isRunning \in BOOLEAN /\ starting \in BOOLEAN /\ status \in BOOLEAN
  /\ opened \in BOOLEAN

Sets ==
  /\ channels \subseteq Dmas /\ joinable \subseteq channels
  /\ stopRequested \subseteq Dmas /\ acquisitionStarted \subseteq Dmas
  /\ cameraStarted \subseteq Dmas
  /\ permits \subseteq Dmas /\ drained \subseteq Dmas
  /\ memory \subseteq Dmas /\ dmaOn \subseteq Dmas
  /\ camOn \subseteq Dmas /\ connected \subseteq Dmas

Places ==
  /\ lifecycle \in Threads \cup {NoThread}
  /\ startup \in Dmas \cup {NoThread}
  /\ resource \in [Dmas -> Threads \cup {NoThread}]
  /\ worker \in [Dmas -> WorkerStates]
  /\ call \in [Threads -> [op : Operations \cup {"none"}, at : CallStates,
                           todo : SUBSET Dmas]]

\* Every assignment to a flag is a Boolean.
LEMMA FlagsKept ==
  ASSUME Flags, Next
  PROVE  Flags'
<1> USE ConstantsAssumption
    DEF Flags, locks, run, table, flags, waits, sdk, Return, Goto, GotoFor
<1>1. CASE \E t \in Threads : ControllerCalls(t)
  BY <1>1 DEF ControllerCalls, Begin
<1>2. CASE \E t \in Threads : Enter(t)
  BY <1>2 DEF Enter, LockLifecycle, LockAndRefuse, ConnectCamera, DisconnectCamera,
     Refused
<1>3. ASSUME NEW t \in Threads, RequestStopChannels(t)
      PROVE  Flags'
  <2>1. CASE ClearRunning(t)
    BY <2>1 DEF ClearRunning
  <2>2. CASE FlagStop(t)
    BY <2>2 DEF FlagStop
  <2>3. CASE StartupBarrier(t)
    BY <2>3 DEF StartupBarrier, AfterStopChannels
  <2>4. CASE TakeCamera(t)
    BY <2>4 DEF TakeCamera
  <2>5. CASE StopChannelsDone(t)
    BY <2>5 DEF StopChannelsDone, AfterStopChannels
  <2>6. CASE StopCamera(t)
    BY <2>6 DEF StopCamera
  <2>7. CASE LockResource(t)
    BY <2>7 DEF LockResource
  <2>8. CASE StopDma(t)
    BY <2>8 DEF StopDma
  <2> QED
    BY <1>3, <2>1, <2>2, <2>3, <2>4, <2>5, <2>6, <2>7, <2>8 DEF RequestStopChannels
<1>4. CASE \E t \in Threads : JoinStoppedChannels(t) \/ ReleaseHandles(t) \/ AdoptBoard(t)
  BY <1>4 DEF JoinStoppedChannels, JoinOne, JoinRefused, Joined, ReleaseHandles,
     AdoptBoard
<1>5. CASE \E t \in Threads : Grab(t)
  BY <1>5 DEF Grab, Prepare, NoDmaChannels, Reset, Announce, StartChannel,
     StartChannelFails, Started, CheckActive, LaggingLoad, LaggingStore, GrabEmpty,
     GrabNotifyOff
<1>6. CASE \E d \in Dmas : LoopDisturbed(d)
  BY <1>6 DEF LoopDisturbed, CallbackCalls, Begin, LoopEnds, SpuriousWakeup, Ready,
     ReleaseImage, PermitNotified, PoolNotified
<1>7. CASE \E d \in Dmas : WorkerProceeds(d)
  BY <1>7 DEF WorkerProceeds, Acquire, FlagAcquired, CameraStartup, CameraBody,
     FlagCamera, Loop, EvaluatePermit, FallAsleep, AwaitFrame, AcquireLease,
     CallbacksReturn, Finish, WorkerTakesCamera, WorkerStopsCamera,
     WorkerLocksResource, WorkerStopsDma, FreeMemory, Leave, CheckStarting,
     WorkerClearsRunning, WorkerNotifiesOff
<1> QED
  BY <1>1, <1>2, <1>3, <1>4, <1>5, <1>6, <1>7 DEF Next, Proceed

\* The sets are sets of channels, and only a channel in the table is joinable.
LEMMA SetsKept ==
  ASSUME TypeOK, Next
  PROVE  Sets'
<1> USE ConstantsAssumption, FirstIn
    DEF Sets, TypeOK, locks, run, table, flags, waits, sdk, Return, Goto, GotoFor
<1>1. CASE \E t \in Threads : ControllerCalls(t)
  BY <1>1 DEF ControllerCalls, Begin
<1>2. CASE \E t \in Threads : Enter(t)
  BY <1>2 DEF Enter, LockLifecycle, LockAndRefuse, ConnectCamera, DisconnectCamera,
     Refused
<1>3. ASSUME NEW t \in Threads, RequestStopChannels(t)
      PROVE  Sets'
  <2>1. CASE ClearRunning(t)
    BY <2>1 DEF ClearRunning
  <2>2. CASE FlagStop(t)
    BY <2>2, Notifying DEF Sleeping
  <2>3. CASE StartupBarrier(t)
    BY <2>3 DEF StartupBarrier, AfterStopChannels
  <2>4. CASE TakeCamera(t)
    BY <2>4 DEF TakeCamera
  <2>5. CASE StopChannelsDone(t)
    BY <2>5 DEF StopChannelsDone, AfterStopChannels
  <2>6. CASE StopCamera(t)
    BY <2>6 DEF StopCamera
  <2>7. CASE LockResource(t)
    BY <2>7 DEF LockResource
  <2>8. CASE StopDma(t)
    BY <2>8 DEF StopDma
  <2> QED
    BY <1>3, <2>1, <2>2, <2>3, <2>4, <2>5, <2>6, <2>7, <2>8 DEF RequestStopChannels
<1>4. CASE \E t \in Threads : JoinStoppedChannels(t) \/ ReleaseHandles(t) \/ AdoptBoard(t)
  BY <1>4 DEF JoinStoppedChannels, JoinOne, JoinRefused, Joined, ReleaseHandles,
     AdoptBoard
<1>5. CASE \E t \in Threads : Grab(t)
  BY <1>5 DEF Grab, Prepare, NoDmaChannels, Reset, Announce, StartChannel,
     StartChannelFails, Started, CheckActive, LaggingLoad, LaggingStore, GrabEmpty,
     GrabNotifyOff
<1>6. CASE \E d \in Dmas : LoopDisturbed(d)
  BY <1>6 DEF LoopDisturbed, CallbackCalls, Begin, LoopEnds, SpuriousWakeup, Ready,
     ReleaseImage, PermitNotified, PoolNotified
<1>7. CASE \E d \in Dmas : WorkerProceeds(d)
  BY <1>7 DEF WorkerProceeds, Acquire, FlagAcquired, CameraStartup, CameraBody,
     FlagCamera, Loop, EvaluatePermit, FallAsleep, AwaitFrame, AcquireLease,
     CallbacksReturn, Finish, WorkerTakesCamera, WorkerStopsCamera,
     WorkerLocksResource, WorkerStopsDma, FreeMemory, Leave, CheckStarting,
     WorkerClearsRunning, WorkerNotifiesOff
<1> QED
  BY <1>1, <1>2, <1>3, <1>4, <1>5, <1>6, <1>7 DEF Next, Proceed

\* Locks are held by threads, and program counters stay in their ranges.
LEMMA PlacesKept ==
  ASSUME TypeOK, Next
  PROVE  Places'
<1> USE ConstantsAssumption, FirstIn
    DEF Places, TypeOK, locks, run, table, flags, waits, sdk, At, Goto, GotoFor,
        Return, Idle, WorkerGoto, Threads, WorkerStates, LoopStates, CallStates
<1>1. CASE \E t \in Threads : ControllerCalls(t)
  BY <1>1 DEF ControllerCalls, Begin
<1>2. CASE \E t \in Threads : Enter(t)
  BY <1>2 DEF Enter, LockLifecycle, LockAndRefuse, ConnectCamera, DisconnectCamera,
     Refused
<1>3. ASSUME NEW t \in Threads, RequestStopChannels(t)
      PROVE  Places'
  <2>1. CASE ClearRunning(t)
    BY <2>1 DEF ClearRunning
  <2>2. CASE FlagStop(t)
    <3>1. worker' \in [Dmas -> WorkerStates] /\ UNCHANGED locks
      BY <2>2, Notifying
    <3>2. call' = [call EXCEPT ![t] = [op |-> @.op, at |-> "barrier", todo |-> channels]]
      BY <2>2, Notifying
    <3> QED
      BY <3>1, <3>2
  <2>3. CASE StartupBarrier(t)
    BY <2>3 DEF StartupBarrier, AfterStopChannels
  <2>4. CASE TakeCamera(t)
    BY <2>4 DEF TakeCamera
  <2>5. CASE StopChannelsDone(t)
    <3>1. joinable \ {t} \in SUBSET Dmas
      OBVIOUS
    <3>2. CASE call[t].op = "requestStop"
      BY <2>5, <3>2 DEF StopChannelsDone, AfterStopChannels
    <3>3. CASE call' = [call EXCEPT ![t] = [op |-> @.op, at |-> "join", todo |-> joinable \ {t}]]
      BY <2>5, <3>1, <3>3 DEF StopChannelsDone, AfterStopChannels
    <3> QED
      BY <2>5, <3>2, <3>3 DEF StopChannelsDone, AfterStopChannels
  <2>6. CASE StopCamera(t)
    BY <2>6 DEF StopCamera
  <2>7. CASE LockResource(t)
    BY <2>7 DEF LockResource
  <2>8. CASE StopDma(t)
    BY <2>8 DEF StopDma
  <2> QED
    BY <1>3, <2>1, <2>2, <2>3, <2>4, <2>5, <2>6, <2>7, <2>8 DEF RequestStopChannels
<1>4. CASE \E t \in Threads : JoinStoppedChannels(t) \/ ReleaseHandles(t) \/ AdoptBoard(t)
  BY <1>4 DEF JoinStoppedChannels, JoinOne, JoinRefused, Joined, ReleaseHandles,
     AdoptBoard
<1>5. CASE \E t \in Threads : Grab(t)
  BY <1>5 DEF Grab, Prepare, NoDmaChannels, Reset, Announce, StartChannel,
     StartChannelFails, Started, CheckActive, LaggingLoad, LaggingStore, GrabEmpty,
     GrabNotifyOff
<1>6. CASE \E d \in Dmas : LoopDisturbed(d)
  BY <1>6 DEF LoopDisturbed, CallbackCalls, Begin, LoopEnds, SpuriousWakeup, Ready,
     ReleaseImage, PermitNotified, PoolNotified
<1>7. CASE \E d \in Dmas : WorkerProceeds(d)
  BY <1>7 DEF WorkerProceeds, Acquire, FlagAcquired, CameraStartup, CameraBody,
     FlagCamera, Loop, EvaluatePermit, FallAsleep, AwaitFrame, AcquireLease,
     CallbacksReturn, Finish, WorkerTakesCamera, WorkerStopsCamera,
     WorkerLocksResource, WorkerStopsDma, FreeMemory, Leave, CheckStarting,
     WorkerClearsRunning, WorkerNotifiesOff
<1> QED
  BY <1>1, <1>2, <1>3, <1>4, <1>5, <1>6, <1>7 DEF Next, Proceed

-----------------------------------------------------------------------------
(* The count of active channels                                            *)

\* startChannel counts a worker and leaving counts it out; the count is reset when
\* there is none, and no other step changes which workers are counted.
LEMMA CountKept ==
  ASSUME TypeOK, LockInv, HolderInv, WorkerInv, CountInv, Next
  PROVE  CountInv' /\ active' \in 0 .. Cardinality(Dmas)
<1> USE DEF locks, run, table, flags, waits, sdk, WorkerGoto
<1>1. CountInv' => active' \in 0 .. Cardinality(Dmas)
  <2>1. Counted' \subseteq Dmas
    BY DEF Counted
  <2>2. /\ IsFiniteSet(Counted') /\ Cardinality(Counted') <= Cardinality(Dmas)
        /\ Cardinality(Counted') \in Nat /\ Cardinality(Dmas) \in Nat
    BY <2>1, ConstantsAssumption, FS_Subset, FS_CardinalityType
  <2> QED
    BY <2>2 DEF CountInv
<1>2. CASE active' = active /\ Counted' = Counted
  BY <1>2, <1>1 DEF CountInv
<1>3. CASE UNCHANGED <<active, worker>>
  BY <1>2, <1>3 DEF Counted
<1>4. ASSUME NEW t \in Threads, Reset(t)
      PROVE  CountInv'
  <2>1. HolderAt({"reset"})
    BY <1>4 DEF Reset, At, LockInv, HolderAt, Holds
  <2>2. AllExited /\ worker' = worker /\ active' = 0
    BY <1>4, <2>1 DEF Reset, TypeOK, HolderInv, WorkerInv, AllExited, Exited, HolderAt
  <2>3. active = 0 /\ Counted' = Counted
    BY <2>2, Counting DEF Counted
  <2> QED
    BY <2>2, <2>3 DEF CountInv
<1>5. ASSUME NEW t \in Threads, StartChannel(t)
      PROVE  CountInv'
  <2> DEFINE d == First(call[t].todo)
  <2>1. HolderAt({"startChannels"}) /\ lifecycle = t
    BY <1>5 DEF StartChannel, At, LockInv, HolderAt, Holds
  <2>2. d \in call[t].todo /\ d \in Dmas
    BY <1>5, FirstIn DEF StartChannel, TypeOK
  <2>3. worker[d] = "exited"
    BY <2>1, <2>2 DEF TypeOK, HolderInv, WorkerInv, HolderAt, Todo
  <2>4. Counted' = Counted \cup {d} /\ d \notin Counted /\ active' = active + 1
    BY <1>5, <2>2, <2>3 DEF StartChannel, TypeOK, Counted, WithMemory, WorkerStates
  <2> QED
    BY <2>4, Counting, FS_AddElement DEF CountInv
<1>6. ASSUME NEW d \in Dmas, Leave(d)
      PROVE  CountInv'
  <2>1. Counted' = Counted \ {d} /\ d \in Counted /\ active' = active - 1
    BY <1>6 DEF Leave, TypeOK, Counted, WithMemory, WorkerStates
  <2> QED
    BY <2>1, Counting, FS_RemoveElement DEF CountInv
<1>7. ASSUME NEW d \in Dmas, LoopDisturbed(d) \/ (WorkerProceeds(d) /\ ~Leave(d))
      PROVE  active' = active /\ Counted' = Counted
  BY <1>7 DEF WorkerProceeds, Acquire, FlagAcquired, CameraStartup, CameraBody,
     FlagCamera, Loop, EvaluatePermit, FallAsleep, AwaitFrame, AcquireLease,
     CallbacksReturn, LoopDisturbed, CallbackCalls, Begin, LoopEnds, SpuriousWakeup,
     Ready, ReleaseImage, PermitNotified, PoolNotified, Finish, WorkerTakesCamera,
     WorkerStopsCamera, WorkerLocksResource, WorkerStopsDma, FreeMemory,
     CheckStarting, WorkerClearsRunning, WorkerNotifiesOff, TypeOK, Counted,
     WithMemory, WorkerStates, LoopStates
<1>8. CASE \E t \in Threads :
              \/ ControllerCalls(t) \/ Enter(t)
              \/ Proceed(t) /\ ~FlagStop(t) /\ ~Reset(t) /\ ~StartChannel(t)
  BY <1>3, <1>8 DEF ControllerCalls, Begin, Enter, Proceed, RequestStopChannels,
     JoinStoppedChannels, Grab, AfterStopChannels, LockLifecycle, LockAndRefuse,
     ConnectCamera, DisconnectCamera, ClearRunning, StartupBarrier, TakeCamera,
     StopChannelsDone, StopCamera, LockResource, StopDma, JoinOne, JoinRefused,
     Joined, ReleaseHandles, AdoptBoard, Prepare, NoDmaChannels, Announce,
     StartChannelFails, Started, CheckActive, LaggingLoad, LaggingStore, GrabEmpty,
     GrabNotifyOff
<1>9. ASSUME NEW t \in Threads, FlagStop(t)
      PROVE  active' = active /\ Counted' = Counted
  <2>1. active' = active
    BY <1>9 DEF FlagStop
  <2>2. Counted' = Counted
    BY <1>9, Notifying DEF Counted, WithMemory, WorkerStates, LoopStates, Sleeping,
       TypeOK
  <2> QED
    BY <2>1, <2>2
<1> QED
  BY <1>1, <1>2, <1>4, <1>5, <1>6, <1>7, <1>8, <1>9 DEF Next

-----------------------------------------------------------------------------
(* The structure of an operation and of its workers                        *)

\* An operation holds the lock from entering it to its return.
LEMMA LockKept ==
  ASSUME TypeOK, TypeOK', LockInv, Next
  PROVE  LockInv'
<1> USE ConstantsAssumption, FirstIn
    DEF TypeOK, LockInv, Holds, HolderAt, Todo, Stopping, StopSteps, ChannelSteps,
        OffSteps, WithMemory, Threads, WorkerStates, LoopStates, CallStates, At, Goto,
        GotoFor, Return, Idle, WorkerGoto, locks, run, table, flags, waits, sdk
<1>1. CASE \E t \in Threads : ControllerCalls(t)
  BY <1>1 DEF ControllerCalls, Begin
<1>2. CASE \E t \in Threads : Enter(t)
  BY <1>2 DEF Enter, LockLifecycle, LockAndRefuse, ConnectCamera, DisconnectCamera,
     Refused
<1>3. ASSUME NEW t \in Threads, RequestStopChannels(t)
      PROVE  LockInv'
  <2>1. CASE ClearRunning(t)
    BY <2>1 DEF ClearRunning
  <2>2. CASE FlagStop(t)
    BY <2>2, Notifying DEF Sleeping
  <2>3. CASE StartupBarrier(t)
    BY <2>3 DEF StartupBarrier, AfterStopChannels
  <2>4. CASE TakeCamera(t)
    BY <2>4 DEF TakeCamera
  <2>5. CASE StopChannelsDone(t)
    BY <2>5 DEF StopChannelsDone, AfterStopChannels
  <2>6. CASE StopCamera(t)
    BY <2>6 DEF StopCamera
  <2>7. CASE LockResource(t)
    BY <2>7 DEF LockResource
  <2>8. CASE StopDma(t)
    BY <2>8 DEF StopDma
  <2> QED
    BY <1>3, <2>1, <2>2, <2>3, <2>4, <2>5, <2>6, <2>7, <2>8 DEF RequestStopChannels
<1>4. CASE \E t \in Threads : JoinStoppedChannels(t) \/ ReleaseHandles(t) \/ AdoptBoard(t)
  BY <1>4 DEF JoinStoppedChannels, JoinOne, JoinRefused, Joined, ReleaseHandles,
     AdoptBoard
<1>5. CASE \E t \in Threads : Grab(t)
  BY <1>5 DEF Grab, Prepare, NoDmaChannels, Reset, Announce, StartChannel,
     StartChannelFails, Started, CheckActive, LaggingLoad, LaggingStore, GrabEmpty,
     GrabNotifyOff
<1>6. CASE \E d \in Dmas : LoopDisturbed(d)
  BY <1>6 DEF LoopDisturbed, CallbackCalls, Begin, LoopEnds, SpuriousWakeup, Ready,
     ReleaseImage, PermitNotified, PoolNotified
<1>7. CASE \E d \in Dmas : WorkerProceeds(d)
  BY <1>7 DEF WorkerProceeds, Acquire, FlagAcquired, CameraStartup, CameraBody,
     FlagCamera, Loop, EvaluatePermit, FallAsleep, AwaitFrame, AcquireLease,
     CallbacksReturn, Finish, WorkerTakesCamera, WorkerStopsCamera,
     WorkerLocksResource, WorkerStopsDma, FreeMemory, Leave, CheckStarting,
     WorkerClearsRunning, WorkerNotifiesOff
<1> QED
  BY <1>1, <1>2, <1>3, <1>4, <1>5, <1>6, <1>7 DEF Next, Proceed

\* Each step of an operation leaves behind what its later steps rely on; no worker's
\* step and no thread that waits for the lock undoes it.
LEMMA HolderKept ==
  ASSUME TypeOK, TypeOK', LockInv, HolderInv, WorkerInv, Next
  PROVE  HolderInv'
<1> USE ConstantsAssumption, FirstIn
    DEF TypeOK, HolderInv, WorkerInv, LockInv, Holds, HolderAt, Todo, Stopping,
        StopSteps, ChannelSteps, OffSteps, WithMemory, Threads, WorkerStates,
        LoopStates, CallStates, At, Goto, GotoFor, Return, Idle, WorkerGoto, locks,
        run, table, flags, waits, sdk
<1>1. CASE \E t \in Threads : ControllerCalls(t)
  BY <1>1 DEF ControllerCalls, Begin
<1>2. CASE \E t \in Threads : Enter(t)
  BY <1>2 DEF Enter, LockLifecycle, LockAndRefuse, ConnectCamera, DisconnectCamera,
     Refused
<1>3. ASSUME NEW t \in Threads, RequestStopChannels(t)
      PROVE  HolderInv'
  <2>1. CASE ClearRunning(t)
    BY <2>1 DEF ClearRunning
  <2>2. CASE FlagStop(t)
    BY <2>2, Notifying DEF Sleeping
  <2>3. CASE StartupBarrier(t)
    BY <2>3 DEF StartupBarrier, AfterStopChannels
  <2>4. CASE TakeCamera(t)
    BY <2>4 DEF TakeCamera
  <2>5. CASE StopChannelsDone(t)
    BY <2>5 DEF StopChannelsDone, AfterStopChannels
  <2>6. CASE StopCamera(t)
    BY <2>6 DEF StopCamera
  <2>7. CASE LockResource(t)
    BY <2>7 DEF LockResource
  <2>8. CASE StopDma(t)
    BY <2>8 DEF StopDma
  <2> QED
    BY <1>3, <2>1, <2>2, <2>3, <2>4, <2>5, <2>6, <2>7, <2>8 DEF RequestStopChannels
<1>4. CASE \E t \in Threads : JoinStoppedChannels(t) \/ ReleaseHandles(t) \/ AdoptBoard(t)
  BY <1>4 DEF JoinStoppedChannels, JoinOne, JoinRefused, Joined, ReleaseHandles,
     AdoptBoard
<1>5. CASE \E t \in Threads : Grab(t)
  BY <1>5 DEF Grab, Prepare, NoDmaChannels, Reset, Announce, StartChannel,
     StartChannelFails, Started, CheckActive, LaggingLoad, LaggingStore, GrabEmpty,
     GrabNotifyOff
<1>6. CASE \E d \in Dmas : LoopDisturbed(d)
  BY <1>6 DEF LoopDisturbed, CallbackCalls, Begin, LoopEnds, SpuriousWakeup, Ready,
     ReleaseImage, PermitNotified, PoolNotified
<1>7. CASE \E d \in Dmas : WorkerProceeds(d)
  BY <1>7 DEF WorkerProceeds, Acquire, FlagAcquired, CameraStartup, CameraBody,
     FlagCamera, Loop, EvaluatePermit, FallAsleep, AwaitFrame, AcquireLease,
     CallbacksReturn, Finish, WorkerTakesCamera, WorkerStopsCamera,
     WorkerLocksResource, WorkerStopsDma, FreeMemory, Leave, CheckStarting,
     WorkerClearsRunning, WorkerNotifiesOff
<1> QED
  BY <1>1, <1>2, <1>3, <1>4, <1>5, <1>6, <1>7 DEF Next, Proceed

\* A worker lives only while its channel is in the table and joinable.
LEMMA WorkerKept ==
  ASSUME TypeOK, TypeOK', LockInv, HolderInv, WorkerInv, StopInv, Next
  PROVE  WorkerInv'
<1> USE ConstantsAssumption, FirstIn
    DEF TypeOK, HolderInv, WorkerInv, StopInv, LockInv, Holds, HolderAt, Todo,
        Stopping, StopSteps, ChannelSteps, OffSteps, WithMemory, Threads,
        WorkerStates, LoopStates, CallStates, At, Goto, GotoFor, Return, Idle,
        WorkerGoto, locks, run, table, flags, waits, sdk
<1>1. ASSUME NEW t \in Threads, ControllerCalls(t)
      PROVE  WorkerInv'
  BY <1>1 DEF ControllerCalls, Begin
<1>2. CASE \E t \in Threads : Enter(t)
  BY <1>2 DEF Enter, LockLifecycle, LockAndRefuse, ConnectCamera, DisconnectCamera,
     Refused
<1>3. ASSUME NEW t \in Threads, RequestStopChannels(t)
      PROVE  WorkerInv'
  <2>1. CASE ClearRunning(t)
    BY <2>1 DEF ClearRunning
  <2>2. CASE FlagStop(t)
    BY <2>2, Notifying DEF Sleeping
  <2>3. CASE StartupBarrier(t)
    BY <2>3 DEF StartupBarrier, AfterStopChannels
  <2>4. CASE TakeCamera(t)
    BY <2>4 DEF TakeCamera
  <2>5. CASE StopChannelsDone(t)
    BY <2>5 DEF StopChannelsDone, AfterStopChannels
  <2>6. CASE StopCamera(t)
    BY <2>6 DEF StopCamera
  <2>7. CASE LockResource(t)
    BY <2>7 DEF LockResource
  <2>8. CASE StopDma(t)
    BY <2>8 DEF StopDma
  <2> QED
    BY <1>3, <2>1, <2>2, <2>3, <2>4, <2>5, <2>6, <2>7, <2>8 DEF RequestStopChannels
<1>4. CASE \E t \in Threads : JoinStoppedChannels(t) \/ ReleaseHandles(t) \/ AdoptBoard(t)
  BY <1>4 DEF JoinStoppedChannels, JoinOne, JoinRefused, Joined, ReleaseHandles,
     AdoptBoard
<1>5. CASE \E t \in Threads : Grab(t)
  BY <1>5 DEF Grab, Prepare, NoDmaChannels, Reset, Announce, StartChannel,
     StartChannelFails, Started, CheckActive, LaggingLoad, LaggingStore, GrabEmpty,
     GrabNotifyOff
<1>6. ASSUME NEW d \in Dmas, LoopDisturbed(d) \/ WorkerProceeds(d)
      PROVE  WorkerInv'
  <2>1. CASE CallbackCalls(d)
    BY <2>1 DEF CallbackCalls, Begin
  <2>2. CASE Acquire(d)
    BY <2>2 DEF Acquire
  <2>3. CASE FlagAcquired(d)
    BY <2>3 DEF FlagAcquired
  <2>4. CASE CameraStartup(d)
    BY <2>4 DEF CameraStartup
  <2>5. CASE CameraBody(d)
    BY <2>5 DEF CameraBody
  <2>6. CASE FlagCamera(d)
    BY <2>6 DEF FlagCamera
  <2>7. CASE Loop(d)
    BY <2>7 DEF Loop, EvaluatePermit, FallAsleep, AwaitFrame, AcquireLease,
       CallbacksReturn
  <2>8. CASE LoopEnds(d) \/ SpuriousWakeup(d) \/ Ready(d) \/ ReleaseImage(d)
    BY <2>8 DEF LoopEnds, SpuriousWakeup, Ready, ReleaseImage, PermitNotified,
       PoolNotified
  <2>9. CASE Finish(d)
    BY <2>9 DEF Finish
  <2>10. CASE WorkerTakesCamera(d)
    BY <2>10 DEF WorkerTakesCamera
  <2>11. CASE WorkerStopsCamera(d)
    BY <2>11 DEF WorkerStopsCamera
  <2>12. CASE WorkerLocksResource(d)
    BY <2>12 DEF WorkerLocksResource
  <2>13. CASE WorkerStopsDma(d)
    BY <2>13 DEF WorkerStopsDma
  <2>14. CASE FreeMemory(d)
    BY <2>14 DEF FreeMemory
  <2>15. CASE Leave(d)
    BY <2>15 DEF Leave
  <2>16. CASE CheckStarting(d)
    BY <2>16 DEF CheckStarting
  <2>17. CASE WorkerClearsRunning(d)
    BY <2>17 DEF WorkerClearsRunning
  <2>18. CASE WorkerNotifiesOff(d)
    BY <2>18 DEF WorkerNotifiesOff
  <2> QED
    BY <1>6, <2>1, <2>2, <2>3, <2>4, <2>5, <2>6, <2>7, <2>8, <2>9, <2>10, <2>11,
       <2>12, <2>13, <2>14, <2>15, <2>16, <2>17, <2>18 DEF LoopDisturbed,
       WorkerProceeds
<1> QED
  BY <1>1, <1>2, <1>3, <1>4, <1>5, <1>6 DEF Next, Proceed

\* Who has taken the flag of a stream or a transfer stops it, and the memory outlives
\* the transfer.
LEMMA SdkKept ==
  ASSUME TypeOK, TypeOK', LockInv, HolderInv, WorkerInv, SdkInv, Next
  PROVE  SdkInv'
<1> USE ConstantsAssumption, FirstIn
    DEF TypeOK, HolderInv, WorkerInv, SdkInv, LockInv, Holds, HolderAt, Todo,
        Stopping, StopSteps, ChannelSteps, OffSteps, WithMemory, Threads,
        WorkerStates, LoopStates, CallStates, At, Goto, GotoFor, Return, Idle,
        WorkerGoto, locks, run, table, flags, waits, sdk
<1>1. CASE \E t \in Threads : ControllerCalls(t)
  BY <1>1 DEF ControllerCalls, Begin
<1>2. CASE \E t \in Threads : Enter(t)
  BY <1>2 DEF Enter, LockLifecycle, LockAndRefuse, ConnectCamera, DisconnectCamera,
     Refused
<1>3. ASSUME NEW t \in Threads, RequestStopChannels(t)
      PROVE  SdkInv'
  <2>1. CASE ClearRunning(t)
    BY <2>1 DEF ClearRunning
  <2>2. CASE FlagStop(t)
    BY <2>2, Notifying DEF Sleeping
  <2>3. CASE StartupBarrier(t)
    BY <2>3 DEF StartupBarrier, AfterStopChannels
  <2>4. CASE TakeCamera(t)
    BY <2>4 DEF TakeCamera
  <2>5. CASE StopChannelsDone(t)
    BY <2>5 DEF StopChannelsDone, AfterStopChannels
  <2>6. CASE StopCamera(t)
    BY <2>6 DEF StopCamera
  <2>7. CASE LockResource(t)
    BY <2>7 DEF LockResource
  <2>8. CASE StopDma(t)
    BY <2>8 DEF StopDma
  <2> QED
    BY <1>3, <2>1, <2>2, <2>3, <2>4, <2>5, <2>6, <2>7, <2>8 DEF RequestStopChannels
<1>4. CASE \E t \in Threads : JoinStoppedChannels(t) \/ ReleaseHandles(t) \/ AdoptBoard(t)
  BY <1>4 DEF JoinStoppedChannels, JoinOne, JoinRefused, Joined, ReleaseHandles,
     AdoptBoard
<1>5. ASSUME NEW t \in Threads, Grab(t)
      PROVE  SdkInv'
  <2>1. CASE Prepare(t)
    BY <2>1 DEF Prepare
  <2>2. CASE NoDmaChannels(t)
    BY <2>2 DEF NoDmaChannels
  <2>3. CASE Reset(t)
    BY <2>3 DEF Reset
  <2>4. CASE Announce(t)
    BY <2>4 DEF Announce
  <2>5. CASE StartChannel(t)
    BY <2>5 DEF StartChannel
  <2>6. CASE StartChannelFails(t)
    BY <2>6 DEF StartChannelFails
  <2>7. CASE Started(t)
    BY <2>7 DEF Started
  <2>8. CASE CheckActive(t)
    BY <2>8 DEF CheckActive
  <2>9. CASE LaggingLoad(t)
    BY <2>9 DEF LaggingLoad
  <2>10. CASE LaggingStore(t)
    BY <2>10 DEF LaggingStore
  <2>11. CASE GrabEmpty(t)
    BY <2>11 DEF GrabEmpty
  <2>12. CASE GrabNotifyOff(t)
    BY <2>12 DEF GrabNotifyOff
  <2> QED
    BY <1>5, <2>1, <2>2, <2>3, <2>4, <2>5, <2>6, <2>7, <2>8, <2>9, <2>10, <2>11, <2>12
       DEF Grab
<1>6. ASSUME NEW d \in Dmas, LoopDisturbed(d) \/ WorkerProceeds(d)
      PROVE  SdkInv'
  <2>1. CASE CallbackCalls(d)
    BY <2>1 DEF CallbackCalls, Begin
  <2>2. CASE Acquire(d)
    BY <2>2 DEF Acquire
  <2>3. CASE FlagAcquired(d)
    BY <2>3 DEF FlagAcquired
  <2>4. CASE CameraStartup(d)
    BY <2>4 DEF CameraStartup
  <2>5. CASE CameraBody(d)
    BY <2>5 DEF CameraBody
  <2>6. CASE FlagCamera(d)
    BY <2>6 DEF FlagCamera
  <2>7. CASE Loop(d)
    BY <2>7 DEF Loop, EvaluatePermit, FallAsleep, AwaitFrame, AcquireLease,
       CallbacksReturn
  <2>8. CASE LoopEnds(d) \/ SpuriousWakeup(d) \/ Ready(d) \/ ReleaseImage(d)
    BY <2>8 DEF LoopEnds, SpuriousWakeup, Ready, ReleaseImage, PermitNotified,
       PoolNotified
  <2>9. CASE Finish(d)
    BY <2>9 DEF Finish
  <2>10. CASE WorkerTakesCamera(d)
    BY <2>10 DEF WorkerTakesCamera
  <2>11. CASE WorkerStopsCamera(d)
    BY <2>11 DEF WorkerStopsCamera
  <2>12. CASE WorkerLocksResource(d)
    BY <2>12 DEF WorkerLocksResource
  <2>13. CASE WorkerStopsDma(d)
    BY <2>13 DEF WorkerStopsDma
  <2>14. CASE FreeMemory(d)
    BY <2>14 DEF FreeMemory
  <2>15. CASE Leave(d)
    BY <2>15 DEF Leave
  <2>16. CASE CheckStarting(d)
    BY <2>16 DEF CheckStarting
  <2>17. CASE WorkerClearsRunning(d)
    BY <2>17 DEF WorkerClearsRunning
  <2>18. CASE WorkerNotifiesOff(d)
    BY <2>18 DEF WorkerNotifiesOff
  <2> QED
    BY <1>6, <2>1, <2>2, <2>3, <2>4, <2>5, <2>6, <2>7, <2>8, <2>9, <2>10, <2>11,
       <2>12, <2>13, <2>14, <2>15, <2>16, <2>17, <2>18 DEF LoopDisturbed,
       WorkerProceeds
<1> QED
  BY <1>1, <1>2, <1>3, <1>4, <1>5, <1>6 DEF Next, Proceed

\* A stop flag set before the barrier is seen by every later camera startup.
LEMMA StopKept ==
  ASSUME TypeOK, TypeOK', LockInv, HolderInv, WorkerInv, StopInv, Next
  PROVE  StopInv'
<1> USE ConstantsAssumption, FirstIn
    DEF TypeOK, HolderInv, WorkerInv, StopInv, LockInv, Holds, HolderAt, Todo,
        Stopping, StopSteps, ChannelSteps, OffSteps, WithMemory, Threads,
        WorkerStates, LoopStates, CallStates, At, Goto, GotoFor, Return, Idle,
        WorkerGoto, locks, run, table, flags, waits, sdk
<1>1. CASE \E t \in Threads : ControllerCalls(t)
  BY <1>1 DEF ControllerCalls, Begin
<1>2. CASE \E t \in Threads : Enter(t)
  BY <1>2 DEF Enter, LockLifecycle, LockAndRefuse, ConnectCamera, DisconnectCamera,
     Refused
<1>3. ASSUME NEW t \in Threads, RequestStopChannels(t)
      PROVE  StopInv'
  <2>1. CASE ClearRunning(t)
    BY <2>1 DEF ClearRunning
  <2>2. CASE FlagStop(t)
    BY <2>2, Notifying DEF Sleeping
  <2>3. CASE StartupBarrier(t)
    BY <2>3 DEF StartupBarrier, AfterStopChannels
  <2>4. CASE TakeCamera(t)
    BY <2>4 DEF TakeCamera
  <2>5. CASE StopChannelsDone(t)
    BY <2>5 DEF StopChannelsDone, AfterStopChannels
  <2>6. CASE StopCamera(t)
    BY <2>6 DEF StopCamera
  <2>7. CASE LockResource(t)
    BY <2>7 DEF LockResource
  <2>8. CASE StopDma(t)
    BY <2>8 DEF StopDma
  <2> QED
    BY <1>3, <2>1, <2>2, <2>3, <2>4, <2>5, <2>6, <2>7, <2>8 DEF RequestStopChannels
<1>4. CASE \E t \in Threads : JoinStoppedChannels(t) \/ ReleaseHandles(t) \/ AdoptBoard(t)
  BY <1>4 DEF JoinStoppedChannels, JoinOne, JoinRefused, Joined, ReleaseHandles,
     AdoptBoard
<1>5. ASSUME NEW t \in Threads, Grab(t)
      PROVE  StopInv'
  <2>1. CASE Prepare(t)
    BY <2>1 DEF Prepare
  <2>2. CASE NoDmaChannels(t)
    BY <2>2 DEF NoDmaChannels
  <2>3. CASE Reset(t)
    BY <2>3 DEF Reset
  <2>4. CASE Announce(t)
    BY <2>4 DEF Announce
  <2>5. CASE StartChannel(t)
    BY <2>5 DEF StartChannel
  <2>6. CASE StartChannelFails(t)
    BY <2>6 DEF StartChannelFails
  <2>7. CASE Started(t)
    BY <2>7 DEF Started
  <2>8. CASE CheckActive(t)
    BY <2>8 DEF CheckActive
  <2>9. CASE LaggingLoad(t)
    BY <2>9 DEF LaggingLoad
  <2>10. CASE LaggingStore(t)
    BY <2>10 DEF LaggingStore
  <2>11. CASE GrabEmpty(t)
    BY <2>11 DEF GrabEmpty
  <2>12. CASE GrabNotifyOff(t)
    BY <2>12 DEF GrabNotifyOff
  <2> QED
    BY <1>5, <2>1, <2>2, <2>3, <2>4, <2>5, <2>6, <2>7, <2>8, <2>9, <2>10, <2>11, <2>12
       DEF Grab
<1>6. ASSUME NEW d \in Dmas, LoopDisturbed(d) \/ WorkerProceeds(d)
      PROVE  StopInv'
  <2>1. CASE CallbackCalls(d)
    BY <2>1 DEF CallbackCalls, Begin
  <2>2. CASE Acquire(d)
    BY <2>2 DEF Acquire
  <2>3. CASE FlagAcquired(d)
    BY <2>3 DEF FlagAcquired
  <2>4. CASE CameraStartup(d)
    BY <2>4 DEF CameraStartup
  <2>5. CASE CameraBody(d)
    BY <2>5 DEF CameraBody
  <2>6. CASE FlagCamera(d)
    BY <2>6 DEF FlagCamera
  <2>7. CASE Loop(d)
    BY <2>7 DEF Loop, EvaluatePermit, FallAsleep, AwaitFrame, AcquireLease,
       CallbacksReturn
  <2>8. CASE LoopEnds(d) \/ SpuriousWakeup(d) \/ Ready(d) \/ ReleaseImage(d)
    BY <2>8 DEF LoopEnds, SpuriousWakeup, Ready, ReleaseImage, PermitNotified,
       PoolNotified
  <2>9. CASE Finish(d)
    BY <2>9 DEF Finish
  <2>10. CASE WorkerTakesCamera(d)
    BY <2>10 DEF WorkerTakesCamera
  <2>11. CASE WorkerStopsCamera(d)
    BY <2>11 DEF WorkerStopsCamera
  <2>12. CASE WorkerLocksResource(d)
    BY <2>12 DEF WorkerLocksResource
  <2>13. CASE WorkerStopsDma(d)
    BY <2>13 DEF WorkerStopsDma
  <2>14. CASE FreeMemory(d)
    BY <2>14 DEF FreeMemory
  <2>15. CASE Leave(d)
    BY <2>15 DEF Leave
  <2>16. CASE CheckStarting(d)
    BY <2>16 DEF CheckStarting
  <2>17. CASE WorkerClearsRunning(d)
    BY <2>17 DEF WorkerClearsRunning
  <2>18. CASE WorkerNotifiesOff(d)
    BY <2>18 DEF WorkerNotifiesOff
  <2> QED
    BY <1>6, <2>1, <2>2, <2>3, <2>4, <2>5, <2>6, <2>7, <2>8, <2>9, <2>10, <2>11,
       <2>12, <2>13, <2>14, <2>15, <2>16, <2>17, <2>18 DEF LoopDisturbed,
       WorkerProceeds
<1> QED
  BY <1>1, <1>2, <1>3, <1>4, <1>5, <1>6 DEF Next, Proceed

-----------------------------------------------------------------------------
(* The end of a run                                                        *)

\* No notice that grabbing is off comes after the next run has begun, even if stores lag.
LEMMA OnKept ==
  ASSUME TypeOK, LockInv, HolderInv, WorkerInv, OnInv, Next
  PROVE  OnInv'
<1> USE ConstantsAssumption, FirstIn
    DEF TypeOK, LockInv, HolderInv, WorkerInv, OnInv, LastOut, Watched, AllExited,
        Exited, Holds, HolderAt, OffSteps, StopSteps, StartSteps, Threads,
        WorkerStates, LoopStates, CallStates, Todo, At, Goto, GotoFor, Return, Idle,
        WorkerGoto, locks, run, table, flags, waits, sdk
<1>1. CASE \E t \in Threads : ControllerCalls(t)
  BY <1>1 DEF ControllerCalls, Begin
<1>2. CASE \E t \in Threads : Enter(t)
  BY <1>2 DEF Enter, LockLifecycle, LockAndRefuse, ConnectCamera, DisconnectCamera,
     Refused
<1>3. ASSUME NEW t \in Threads, RequestStopChannels(t)
      PROVE  OnInv'
  <2>1. CASE ClearRunning(t)
    BY <2>1 DEF ClearRunning
  <2>2. CASE FlagStop(t)
    BY <2>2, Notifying DEF Sleeping
  <2>3. CASE StartupBarrier(t)
    BY <2>3 DEF StartupBarrier, AfterStopChannels
  <2>4. CASE TakeCamera(t)
    BY <2>4 DEF TakeCamera
  <2>5. CASE StopChannelsDone(t)
    BY <2>5 DEF StopChannelsDone, AfterStopChannels
  <2>6. CASE StopCamera(t)
    BY <2>6 DEF StopCamera
  <2>7. CASE LockResource(t)
    BY <2>7 DEF LockResource
  <2>8. CASE StopDma(t)
    BY <2>8 DEF StopDma
  <2> QED
    BY <1>3, <2>1, <2>2, <2>3, <2>4, <2>5, <2>6, <2>7, <2>8 DEF RequestStopChannels
<1>4. CASE \E t \in Threads : JoinStoppedChannels(t) \/ ReleaseHandles(t) \/ AdoptBoard(t)
  BY <1>4 DEF JoinStoppedChannels, JoinOne, JoinRefused, Joined, ReleaseHandles,
     AdoptBoard
<1>5. ASSUME NEW t \in Threads, Grab(t)
      PROVE  OnInv'
  <2>1. CASE Prepare(t)
    BY <2>1 DEF Prepare
  <2>2. CASE NoDmaChannels(t)
    BY <2>2 DEF NoDmaChannels
  <2>3. CASE Reset(t)
    BY <2>3 DEF Reset
  <2>4. CASE Announce(t)
    BY <2>4 DEF Announce
  <2>5. CASE StartChannel(t)
    BY <2>5 DEF StartChannel
  <2>6. CASE StartChannelFails(t)
    BY <2>6 DEF StartChannelFails
  <2>7. CASE Started(t)
    BY <2>7 DEF Started
  <2>8. CASE CheckActive(t)
    BY <2>8 DEF CheckActive
  <2>9. CASE LaggingLoad(t)
    BY <2>9 DEF LaggingLoad
  <2>10. CASE LaggingStore(t)
    BY <2>10 DEF LaggingStore
  <2>11. CASE GrabEmpty(t)
    BY <2>11 DEF GrabEmpty
  <2>12. CASE GrabNotifyOff(t)
    BY <2>12 DEF GrabNotifyOff
  <2> QED
    BY <1>5, <2>1, <2>2, <2>3, <2>4, <2>5, <2>6, <2>7, <2>8, <2>9, <2>10, <2>11, <2>12
       DEF Grab
<1>6. ASSUME NEW d \in Dmas, LoopDisturbed(d) \/ WorkerProceeds(d)
      PROVE  OnInv'
  <2>1. CASE CallbackCalls(d)
    BY <2>1 DEF CallbackCalls, Begin
  <2>2. CASE Acquire(d)
    BY <2>2 DEF Acquire
  <2>3. CASE FlagAcquired(d)
    BY <2>3 DEF FlagAcquired
  <2>4. CASE CameraStartup(d)
    BY <2>4 DEF CameraStartup
  <2>5. CASE CameraBody(d)
    BY <2>5 DEF CameraBody
  <2>6. CASE FlagCamera(d)
    BY <2>6 DEF FlagCamera
  <2>7. CASE Loop(d)
    BY <2>7 DEF Loop, EvaluatePermit, FallAsleep, AwaitFrame, AcquireLease,
       CallbacksReturn
  <2>8. CASE LoopEnds(d) \/ SpuriousWakeup(d) \/ Ready(d) \/ ReleaseImage(d)
    BY <2>8 DEF LoopEnds, SpuriousWakeup, Ready, ReleaseImage, PermitNotified,
       PoolNotified
  <2>9. CASE Finish(d)
    BY <2>9 DEF Finish
  <2>10. CASE WorkerTakesCamera(d)
    BY <2>10 DEF WorkerTakesCamera
  <2>11. CASE WorkerStopsCamera(d)
    BY <2>11 DEF WorkerStopsCamera
  <2>12. CASE WorkerLocksResource(d)
    BY <2>12 DEF WorkerLocksResource
  <2>13. CASE WorkerStopsDma(d)
    BY <2>13 DEF WorkerStopsDma
  <2>14. CASE FreeMemory(d)
    BY <2>14 DEF FreeMemory
  <2>15. CASE Leave(d)
    BY <2>15 DEF Leave
  <2>16. CASE CheckStarting(d)
    BY <2>16 DEF CheckStarting
  <2>17. CASE WorkerClearsRunning(d)
    BY <2>17 DEF WorkerClearsRunning
  <2>18. CASE WorkerNotifiesOff(d)
    BY <2>18 DEF WorkerNotifiesOff
  <2> QED
    BY <1>6, <2>1, <2>2, <2>3, <2>4, <2>5, <2>6, <2>7, <2>8, <2>9, <2>10, <2>11,
       <2>12, <2>13, <2>14, <2>15, <2>16, <2>17, <2>18 DEF LoopDisturbed,
       WorkerProceeds
<1> QED
  BY <1>1, <1>2, <1>3, <1>4, <1>5, <1>6 DEF Next, Proceed

\* Of a run that nobody stopped, only a worker that has ended clears _isRunning.
LEMMA DeniedKept ==
  ASSUME TypeOK, LockInv, HolderInv, WorkerInv, CountInv, DeniedInv, Next
  PROVE  DeniedInv'
<1> USE ConstantsAssumption, FirstIn
    DEF TypeOK, SomeEnded, Ended, LockInv, HolderInv, WorkerInv, DeniedInv, LastOut,
        Watched, AllExited, Exited, Holds, HolderAt, OffSteps, StopSteps, StartSteps,
        Threads, WorkerStates, LoopStates, CallStates, Todo, At, Goto, GotoFor,
        Return, Idle, WorkerGoto, locks, run, table, flags, waits, sdk
<1>1. CASE \E t \in Threads : ControllerCalls(t)
  BY <1>1 DEF ControllerCalls, Begin
<1>2. CASE \E t \in Threads : Enter(t)
  BY <1>2 DEF Enter, LockLifecycle, LockAndRefuse, ConnectCamera, DisconnectCamera,
     Refused
<1>3. ASSUME NEW t \in Threads, RequestStopChannels(t)
      PROVE  DeniedInv'
  <2>1. CASE ClearRunning(t)
    BY <2>1 DEF ClearRunning
  <2>2. CASE FlagStop(t)
    BY <2>2, Notifying DEF Sleeping
  <2>3. CASE StartupBarrier(t)
    BY <2>3 DEF StartupBarrier, AfterStopChannels
  <2>4. CASE TakeCamera(t)
    BY <2>4 DEF TakeCamera
  <2>5. CASE StopChannelsDone(t)
    BY <2>5 DEF StopChannelsDone, AfterStopChannels
  <2>6. CASE StopCamera(t)
    BY <2>6 DEF StopCamera
  <2>7. CASE LockResource(t)
    BY <2>7 DEF LockResource
  <2>8. CASE StopDma(t)
    BY <2>8 DEF StopDma
  <2> QED
    BY <1>3, <2>1, <2>2, <2>3, <2>4, <2>5, <2>6, <2>7, <2>8 DEF RequestStopChannels
<1>4. CASE \E t \in Threads : JoinStoppedChannels(t) \/ ReleaseHandles(t) \/ AdoptBoard(t)
  BY <1>4 DEF JoinStoppedChannels, JoinOne, JoinRefused, Joined, ReleaseHandles,
     AdoptBoard
<1>5. ASSUME NEW t \in Threads, Grab(t)
      PROVE  DeniedInv'
  <2>1. CASE Prepare(t)
    BY <2>1 DEF Prepare
  <2>2. CASE NoDmaChannels(t)
    BY <2>2 DEF NoDmaChannels
  <2>3. CASE Reset(t)
    BY <2>3 DEF Reset
  <2>4. CASE Announce(t)
    BY <2>4 DEF Announce
  <2>5. CASE StartChannel(t)
    BY <2>5 DEF StartChannel
  <2>6. CASE StartChannelFails(t)
    BY <2>6 DEF StartChannelFails
  <2>7. CASE Started(t)
    BY <2>7 DEF Started
  <2>8. CASE CheckActive(t)
    BY <2>8, Counting DEF CheckActive
  <2>9. CASE LaggingLoad(t)
    BY <2>9 DEF LaggingLoad
  <2>10. CASE LaggingStore(t)
    BY <2>10 DEF LaggingStore
  <2>11. CASE GrabEmpty(t)
    BY <2>11 DEF GrabEmpty
  <2>12. CASE GrabNotifyOff(t)
    BY <2>12 DEF GrabNotifyOff
  <2> QED
    BY <1>5, <2>1, <2>2, <2>3, <2>4, <2>5, <2>6, <2>7, <2>8, <2>9, <2>10, <2>11, <2>12
       DEF Grab
<1>6. ASSUME NEW d \in Dmas, LoopDisturbed(d) \/ WorkerProceeds(d)
      PROVE  DeniedInv'
  <2>1. CASE CallbackCalls(d)
    BY <2>1 DEF CallbackCalls, Begin
  <2>2. CASE Acquire(d)
    BY <2>2 DEF Acquire
  <2>3. CASE FlagAcquired(d)
    BY <2>3 DEF FlagAcquired
  <2>4. CASE CameraStartup(d)
    BY <2>4 DEF CameraStartup
  <2>5. CASE CameraBody(d)
    BY <2>5 DEF CameraBody
  <2>6. CASE FlagCamera(d)
    BY <2>6 DEF FlagCamera
  <2>7. CASE Loop(d)
    <3>1. UNCHANGED <<channels, stopRequested, isRunning, lifecycle, call>>
      BY <2>7 DEF Loop, EvaluatePermit, FallAsleep, AwaitFrame, AcquireLease,
         CallbacksReturn
    <3>2. worker[d] \in LoopStates /\ \A e \in Dmas \ {d} : worker'[e] = worker[e]
      BY <2>7 DEF Loop, EvaluatePermit, FallAsleep, AwaitFrame, AcquireLease,
         CallbacksReturn
    <3>3. \A e \in Dmas : Ended(e) => Ended(e)'
      BY <3>2
    <3> HIDE DEF Ended
    <3> QED
      BY <3>1, <3>3
  <2>8. CASE LoopEnds(d) \/ SpuriousWakeup(d) \/ Ready(d) \/ ReleaseImage(d)
    <3>1. CASE LoopEnds(d)
      BY <3>1 DEF LoopEnds
    <3>2. CASE SpuriousWakeup(d)
      BY <3>2 DEF SpuriousWakeup
    <3>3. CASE Ready(d)
      BY <3>3 DEF Ready, PermitNotified
    <3>4. CASE ReleaseImage(d)
      BY <3>4 DEF ReleaseImage, PoolNotified
    <3> QED
      BY <2>8, <3>1, <3>2, <3>3, <3>4
  <2>9. CASE Finish(d)
    BY <2>9 DEF Finish
  <2>10. CASE WorkerTakesCamera(d)
    BY <2>10 DEF WorkerTakesCamera
  <2>11. CASE WorkerStopsCamera(d)
    BY <2>11 DEF WorkerStopsCamera
  <2>12. CASE WorkerLocksResource(d)
    BY <2>12 DEF WorkerLocksResource
  <2>13. CASE WorkerStopsDma(d)
    BY <2>13 DEF WorkerStopsDma
  <2>14. CASE FreeMemory(d)
    BY <2>14 DEF FreeMemory
  <2>15. CASE Leave(d)
    BY <2>15 DEF Leave
  <2>16. CASE CheckStarting(d)
    BY <2>16 DEF CheckStarting
  <2>17. CASE WorkerClearsRunning(d)
    BY <2>17 DEF WorkerClearsRunning
  <2>18. CASE WorkerNotifiesOff(d)
    BY <2>18 DEF WorkerNotifiesOff
  <2> QED
    BY <1>6, <2>1, <2>2, <2>3, <2>4, <2>5, <2>6, <2>7, <2>8, <2>9, <2>10, <2>11,
       <2>12, <2>13, <2>14, <2>15, <2>16, <2>17, <2>18 DEF LoopDisturbed,
       WorkerProceeds
<1> QED
  BY <1>1, <1>2, <1>3, <1>4, <1>5, <1>6 DEF Next, Proceed

\* With acquire and release ordered, whoever looks last reports the end of the run.
LEMMA StatusKept ==
  ASSUME TypeOK, LockInv, HolderInv, WorkerInv, CountInv, OnInv, ~StoresMayLag,
         StatusInv, Next
  PROVE  StatusInv'
<1> USE ConstantsAssumption, Counting, FirstIn
    DEF TypeOK, LockInv, HolderInv, WorkerInv, OnInv, StatusInv, LastOut, Watched,
        AllExited, Exited, Holds, HolderAt, OffSteps, StopSteps, StartSteps, Threads,
        WorkerStates, LoopStates, CallStates, Todo, At, Goto, GotoFor, Return, Idle,
        WorkerGoto, locks, run, table, flags, waits, sdk
<1>1. CASE \E t \in Threads : ControllerCalls(t)
  BY <1>1 DEF ControllerCalls, Begin
<1>2. CASE \E t \in Threads : Enter(t)
  BY <1>2 DEF Enter, LockLifecycle, LockAndRefuse, ConnectCamera, DisconnectCamera,
     Refused
<1>3. ASSUME NEW t \in Threads, RequestStopChannels(t)
      PROVE  StatusInv'
  <2>1. CASE ClearRunning(t)
    BY <2>1 DEF ClearRunning
  <2>2. CASE FlagStop(t)
    BY <2>2, Notifying DEF Sleeping
  <2>3. CASE StartupBarrier(t)
    BY <2>3 DEF StartupBarrier, AfterStopChannels
  <2>4. CASE TakeCamera(t)
    BY <2>4 DEF TakeCamera
  <2>5. CASE StopChannelsDone(t)
    BY <2>5 DEF StopChannelsDone, AfterStopChannels
  <2>6. CASE StopCamera(t)
    BY <2>6 DEF StopCamera
  <2>7. CASE LockResource(t)
    BY <2>7 DEF LockResource
  <2>8. CASE StopDma(t)
    BY <2>8 DEF StopDma
  <2> QED
    BY <1>3, <2>1, <2>2, <2>3, <2>4, <2>5, <2>6, <2>7, <2>8 DEF RequestStopChannels
<1>4. CASE \E t \in Threads : JoinStoppedChannels(t) \/ ReleaseHandles(t) \/ AdoptBoard(t)
  BY <1>4 DEF JoinStoppedChannels, JoinOne, JoinRefused, Joined, ReleaseHandles,
     AdoptBoard
<1>5. ASSUME NEW t \in Threads, Grab(t)
      PROVE  StatusInv'
  <2>1. CASE Prepare(t)
    BY <2>1 DEF Prepare
  <2>2. CASE NoDmaChannels(t)
    BY <2>2 DEF NoDmaChannels
  <2>3. CASE Reset(t)
    BY <2>3 DEF Reset
  <2>4. CASE Announce(t)
    BY <2>4 DEF Announce
  <2>5. CASE StartChannel(t)
    BY <2>5 DEF StartChannel
  <2>6. CASE StartChannelFails(t)
    BY <2>6 DEF StartChannelFails
  <2>7. CASE Started(t)
    BY <2>7 DEF Started
  <2>8. CASE CheckActive(t)
    BY <2>8 DEF CheckActive
  <2>9. CASE LaggingLoad(t)
    BY <2>9 DEF LaggingLoad
  <2>10. CASE LaggingStore(t)
    BY <2>10 DEF LaggingStore
  <2>11. CASE GrabEmpty(t)
    BY <2>11 DEF GrabEmpty
  <2>12. CASE GrabNotifyOff(t)
    BY <2>12 DEF GrabNotifyOff
  <2> QED
    BY <1>5, <2>1, <2>2, <2>3, <2>4, <2>5, <2>6, <2>7, <2>8, <2>9, <2>10, <2>11, <2>12
       DEF Grab
<1>6. ASSUME NEW d \in Dmas, LoopDisturbed(d) \/ WorkerProceeds(d)
      PROVE  StatusInv'
  <2>1. CASE CallbackCalls(d)
    BY <2>1 DEF CallbackCalls, Begin
  <2>2. CASE Acquire(d)
    BY <2>2 DEF Acquire
  <2>3. CASE FlagAcquired(d)
    BY <2>3 DEF FlagAcquired
  <2>4. CASE CameraStartup(d)
    BY <2>4 DEF CameraStartup
  <2>5. CASE CameraBody(d)
    BY <2>5 DEF CameraBody
  <2>6. CASE FlagCamera(d)
    BY <2>6 DEF FlagCamera
  <2>7. CASE Loop(d)
    BY <2>7 DEF Loop, EvaluatePermit, FallAsleep, AwaitFrame, AcquireLease,
       CallbacksReturn
  <2>8. CASE LoopEnds(d) \/ SpuriousWakeup(d) \/ Ready(d) \/ ReleaseImage(d)
    BY <2>8 DEF LoopEnds, SpuriousWakeup, Ready, ReleaseImage, PermitNotified,
       PoolNotified
  <2>9. CASE Finish(d)
    BY <2>9 DEF Finish
  <2>10. CASE WorkerTakesCamera(d)
    BY <2>10 DEF WorkerTakesCamera
  <2>11. CASE WorkerStopsCamera(d)
    BY <2>11 DEF WorkerStopsCamera
  <2>12. CASE WorkerLocksResource(d)
    BY <2>12 DEF WorkerLocksResource
  <2>13. CASE WorkerStopsDma(d)
    BY <2>13 DEF WorkerStopsDma
  <2>14. CASE FreeMemory(d)
    BY <2>14 DEF FreeMemory
  <2>15. CASE Leave(d)
    BY <2>15 DEF Leave
  <2>16. CASE CheckStarting(d)
    BY <2>16 DEF CheckStarting
  <2>17. CASE WorkerClearsRunning(d)
    BY <2>17 DEF WorkerClearsRunning
  <2>18. CASE WorkerNotifiesOff(d)
    BY <2>18 DEF WorkerNotifiesOff
  <2> QED
    BY <1>6, <2>1, <2>2, <2>3, <2>4, <2>5, <2>6, <2>7, <2>8, <2>9, <2>10, <2>11,
       <2>12, <2>13, <2>14, <2>15, <2>16, <2>17, <2>18 DEF LoopDisturbed,
       WorkerProceeds
<1> QED
  BY <1>1, <1>2, <1>3, <1>4, <1>5, <1>6 DEF Next, Proceed

-----------------------------------------------------------------------------
(* The invariant                                                           *)

\* Before the first operation nothing is held, started or reported.
LEMMA Initially ==
  ASSUME Init
  PROVE  IInv
<1> USE ConstantsAssumption DEF Init
<1>1. Counted = {}
  BY DEF Counted, WithMemory
<1>2. CountInv
  BY <1>1, FS_EmptySet DEF CountInv
<1>3. Cardinality(Dmas) \in Nat
  BY FS_CardinalityType
<1>4. TypeOK
  <2>1. Flags /\ Sets
    BY DEF Flags, Sets
  <2>2. Places
    BY DEF Places, Threads, WorkerStates, LoopStates, CallStates, Idle
  <2> QED
    BY <1>3, <2>1, <2>2 DEF TypeOK, Flags, Sets, Places
<1>5. /\ LockInv /\ HolderInv /\ WorkerInv /\ SdkInv /\ StopInv /\ OnInv /\ StatusInv /\ DeniedInv
  BY DEF LockInv, HolderInv, WorkerInv, SdkInv, StopInv, OnInv, StatusInv, DeniedInv,
     HolderAt, Holds, Threads, Idle, WithMemory, LastOut
<1> QED
  BY <1>2, <1>4, <1>5 DEF IInv

\* Every step keeps the invariant.
LEMMA Inductive ==
  ASSUME IInv, [Next]_vars
  PROVE  IInv'
<1>1. CASE Next
  <2> USE <1>1 DEF IInv
  <2>1. CountInv' /\ active' \in 0 .. Cardinality(Dmas)
    BY CountKept
  <2>2. Flags' /\ Sets' /\ Places'
    <3>1. Flags
      BY DEF Flags, TypeOK
    <3> QED
      BY <3>1, FlagsKept, SetsKept, PlacesKept
  <2>3. TypeOK'
    BY <2>1, <2>2, Zenon DEF TypeOK, Flags, Sets, Places
  <2>4. LockInv' /\ HolderInv' /\ WorkerInv' /\ SdkInv' /\ StopInv' /\ OnInv' /\ DeniedInv'
    BY <2>3, LockKept, HolderKept, WorkerKept, SdkKept, StopKept, OnKept, DeniedKept
  <2>5. (~StoresMayLag => StatusInv)'
    BY StatusKept
  <2> QED
    BY <2>1, <2>3, <2>4, <2>5
<1>2. CASE UNCHANGED vars
  <2> USE <1>2 DEF IInv, vars, locks, run, table, flags, waits, sdk
  <2>1. TypeOK' /\ LockInv' /\ HolderInv' /\ WorkerInv'
    BY DEF TypeOK, LockInv, HolderInv, WorkerInv, HolderAt, Holds, Todo
  <2>2. SdkInv' /\ StopInv' /\ CountInv' /\ OnInv' /\ DeniedInv'
    BY DEF SdkInv, StopInv, CountInv, OnInv, DeniedInv, SomeEnded, Ended, Counted,
       LastOut, Stopping, HolderAt, Holds, Todo
  <2>3. (~StoresMayLag => StatusInv)'
    BY DEF StatusInv, LastOut, Watched, HolderAt, Holds
  <2> QED
    BY <2>1, <2>2, <2>3
<1> QED
  BY <1>1, <1>2

\* Every state a behaviour reaches satisfies the invariant.
LEMMA Always == Spec => []IInv
BY Initially, Inductive, PTL DEF Spec

-----------------------------------------------------------------------------
(* What the lifecycle promises                                             *)

\* Locks, flags, the channel table, the workers and the operations stay within
\* their types, and the active count within the number of channels.
THEOREM TypeCorrect == Spec => []TypeOK
<1>1. IInv => TypeOK
  BY DEF IInv
<1> QED
  BY <1>1, Always, PTL

\* Whoever joins joins every worker but itself, and gives up when it is one: so no
\* worker outlives the handle, and a cleared channel table leaves nothing behind.
THEOREM NothingIsLeftBehind == Spec => []NothingLeftBehind
<1>1. ASSUME IInv
      PROVE  NothingLeftBehind
  <2> USE <1>1 DEF IInv
  <2>1. ~opened => AllExited
    BY DEF WorkerInv, AllExited, Exited
  <2>2. ASSUME channels = {}
        PROVE  AllExited /\ memory = {} /\ dmaOn = {} /\ camOn = {}
    <3>1. AllExited
      BY <2>2 DEF TypeOK, WorkerInv, AllExited, Exited
    <3>2. memory = {} /\ dmaOn = {} /\ cameraStarted = {}
      BY <3>1 DEF TypeOK, SdkInv, AllExited, Exited, WithMemory, LoopStates
    <3>3. \A d \in Dmas : ~Stopping(d, "stopCamera")
      BY <2>2 DEF HolderInv, Stopping, HolderAt, StopSteps, ChannelSteps
    <3>4. camOn = {}
      BY <3>1, <3>2, <3>3 DEF TypeOK, SdkInv, AllExited, Exited, LoopStates
    <3> QED
      BY <3>1, <3>2, <3>4
  <2> QED
    BY <2>1, <2>2 DEF NothingLeftBehind
<1> QED
  BY <1>1, Always, PTL

\* While a transfer runs its channel's memory is allocated: whoever takes the
\* acquisition flag stops the transfer before it lets go of resourceMutex.
THEOREM NoTransfersToFreedMemory == Spec => []NoTransferToFreedMemory
<1>1. IInv => NoTransferToFreedMemory
  BY DEF IInv, TypeOK, SdkInv, NoTransferToFreedMemory, WithMemory
<1> QED
  BY <1>1, Always, PTL

\* Lagging stores included: while acquisition runs, _isRunning is clear only if another
\* channel of the run has ended, and if it is set the callbacks were last told so.
THEOREM RunsAreDeniedOnlyAfterAnEnd == Spec => []DeniedOnlyAfterAnEnd
<1>1. ASSUME IInv, lifecycle = NoThread, AcquisitionRuns
      PROVE  IF isRunning THEN status ELSE \E d \in channels : Ended(d)
  <2>1. \A ls : ~HolderAt(ls)
    BY <1>1, ConstantsAssumption DEF HolderAt, Holds, Threads
  <2>2. ~(channels \subseteq stopRequested)
    BY <1>1 DEF AcquisitionRuns, IInv, TypeOK, WorkerInv, LoopStates
  <2> QED
    BY <1>1, <2>1, <2>2 DEF IInv, OnInv, DeniedInv, SomeEnded
<1>2. IInv => DeniedOnlyAfterAnEnd
  BY <1>1 DEF DeniedOnlyAfterAnEnd
<1> QED
  BY <1>2, Always, PTL

\* Where the stores of _startingChannels do not lag behind the loads of _activeChannels,
\* the last of grab and the workers to look ends the run and says so.
THEOREM EndsAreTold ==
  ASSUME ~StoresMayLag
  PROVE  Spec => []QuietMeansOff
<1>1. ASSUME IInv
      PROVE  QuietMeansOff
  <2> USE <1>1 DEF IInv
  <2>1. TypeOK /\ CountInv /\ OnInv /\ StatusInv
    BY ~StoresMayLag
  <2>2. ASSUME lifecycle = NoThread
        PROVE  \A ls : ~HolderAt(ls)
    BY <2>2, ConstantsAssumption DEF HolderAt, Holds, Threads
  <2> QED
    BY <2>1, <2>2, Counting DEF QuietMeansOff, StatusInv, Watched, LastOut, AllExited,
       Exited
<1> QED
  BY <1>1, Always, PTL

\* Both halves of StatusFollowsRuns, where stores do not lag.
THEOREM StatusIsTrue ==
  ASSUME ~StoresMayLag
  PROVE  Spec => []StatusFollowsRuns
<1>1. QuietMeansOff /\ DeniedOnlyAfterAnEnd => StatusFollowsRuns
  BY DEF StatusFollowsRuns
<1> QED
  BY <1>1, ~StoresMayLag, EndsAreTold, RunsAreDeniedOnlyAfterAnEnd, PTL

\* Only a thread that has set the stop flags and still waits at the startup barrier
\* can see a camera of a flagged channel start.
THEOREM NoCameraStartsAfterStop == Spec => NoCameraStartAfterStop
<1>1. ASSUME IInv, [Next]_vars
      PROVE  [ (camOn' \ camOn) \cap stopRequested # {}
                 => \E t \in Threads : At(t, "barrier") ]_vars
  <2>1. ASSUME NEW d \in stopRequested, CameraBody(d)
        PROVE  \E t \in Threads : At(t, "barrier")
    BY <1>1, <2>1 DEF IInv, StopInv, CameraBody, HolderAt, Holds, At
  <2>2. ASSUME Next, \A d \in Dmas : ~CameraBody(d)
        PROVE  camOn' \subseteq camOn
    <3> USE DEF locks, run, table, flags, waits, sdk
    <3>1. CASE \E t \in Threads : ControllerCalls(t) \/ Enter(t) \/ Proceed(t)
      BY <3>1 DEF ControllerCalls, Begin, Enter, LockLifecycle, LockAndRefuse,
         ConnectCamera, DisconnectCamera, Proceed, RequestStopChannels, ClearRunning,
         FlagStop, StartupBarrier, TakeCamera, StopChannelsDone, StopCamera,
         LockResource, StopDma, JoinStoppedChannels, JoinOne, JoinRefused, Joined,
         ReleaseHandles, AdoptBoard, Grab, Prepare, NoDmaChannels, Reset, Announce,
         StartChannel, StartChannelFails, Started, CheckActive, LaggingLoad,
         LaggingStore, GrabEmpty, GrabNotifyOff
    <3>2. CASE \E d \in Dmas : LoopDisturbed(d) \/ WorkerProceeds(d)
      BY <2>2, <3>2 DEF LoopDisturbed, CallbackCalls, Begin, LoopEnds, SpuriousWakeup,
         Ready, ReleaseImage, WorkerProceeds, Acquire, FlagAcquired, CameraStartup,
         FlagCamera, Loop, EvaluatePermit, FallAsleep, AwaitFrame, AcquireLease,
         CallbacksReturn, Finish, WorkerTakesCamera, WorkerStopsCamera,
         WorkerLocksResource, WorkerStopsDma, FreeMemory, Leave, CheckStarting,
         WorkerClearsRunning, WorkerNotifiesOff
    <3> QED
      BY <2>2, <3>1, <3>2 DEF Next
  <2>3. \A d \in Dmas : CameraBody(d) => camOn' \subseteq camOn \cup {d}
    BY DEF CameraBody
  <2> QED
    BY <1>1, <2>1, <2>2, <2>3 DEF vars, sdk
<1> QED
  BY <1>1, Always, PTL DEF Spec, NoCameraStartAfterStop

=============================================================================
