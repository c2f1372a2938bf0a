---------------------------- MODULE FrameDelivery ----------------------------
(***************************************************************************)
(* One run of one DMA channel, from the transfers of the board to the grab *)
(* callback: the worker loop of startChannel, its permit and its condition *)
(* variable, OwnedBufferPool, ready(), and the stop that ends the worker.  *)
(*                                                                         *)
(* The board (external) transfers frame n into buffer n modulo             *)
(* BufferCount without ever waiting (ACQ_STANDARD), so the transfer of     *)
(* frame n + BufferCount overwrites frame n.  Frames are numbered from 1;  *)
(* MaxFrames bounds them, far below FRAMEINDEX_MAX, whose wrap-around a    *)
(* 64-bit frame index never reaches.                                       *)
(*                                                                         *)
(* The stop of ChannelLifecycle appears as RequestStop and StopAcquire;    *)
(* the camera and the threads are there, not here.                         *)
(***************************************************************************)
EXTENDS Integers

CONSTANTS
  BufferCount,      \* _dmaBufferCount: DMA buffers, and leases of the pool
  MaxFrames,        \* bound on the transfers of the run
  Frames,           \* the argument of grab: 0 is unlimited
  Payloads,         \* what the SDK may report of a frame
  StatusMayFail,    \* Fg_getStatusEx may return an error
  ReadyInCallback,  \* the callback calls ready() before it returns
  StrayReady        \* ready() may be called without a frame to accept

PayloadKinds == {"valid", "nullPointer", "badLength", "narrow"}

ASSUME FrameConstants ==
  /\ BufferCount \in Nat /\ BufferCount >= 2      \* setDMABufferCount
  /\ MaxFrames \in Nat /\ Frames \in Nat
  /\ Payloads \subseteq PayloadKinds
  /\ StatusMayFail \in BOOLEAN /\ ReadyInCallback \in BOOLEAN
  /\ StrayReady \in BOOLEAN

VARIABLES
  started,        \* transfers the board has begun
  completed,      \* transfers it has finished: NUMBER_OF_GRABBED_IMAGES
  acquiring,      \* the DMA has not been stopped
  pc,             \* where the worker is
  lastPicture,    \* the frame the worker last received
  copyTorn,       \* the copy it holds contains data of a later transfer
  permits,        \* DmaChannel::permits
  stopRequested,  \* DmaChannel::stopRequested
  available,      \* free buffers of the pool
  retained,       \* leases callbacks keep after they returned
  owed,           \* frames delivered and not yet answered by ready()
  shown,          \* the frame last passed to the callbacks, 0 before any
  shownTorn,      \* whether its copy was torn
  delivered, skipped, overwritten, rejected    \* the channel's statistics

board   == <<started, completed, acquiring>>
copy    == <<lastPicture, copyTorn>>
pool    == <<available, retained>>
sink    == <<owed, shown, shownTorn>>
counts  == <<delivered, skipped, overwritten, rejected>>
vars    == <<board, pc, copy, permits, stopRequested, pool, sink, counts>>

WorkerStates ==
  {"check",      \* the loop condition
   "permit",     \* evaluating the predicate of permitCondition
   "blocking",   \* found it false; not yet waiting, and permitMutex held
   "asleep",     \* waiting on permitCondition
   "recheck",    \* the test of stopRequested after the wait
   "take",       \* permits.fetch_sub
   "wait",       \* in Fg_getLastPicNumberBlockingEx
   "inspect",    \* has a frame number; reads pointer and transfer length
   "readySelf",  \* abandons the frame and calls ready() itself
   "lease",      \* in OwnedBufferPool::acquire
   "copy",       \* in memcpy, lease held
   "status",     \* copied; reads NUMBER_OF_GRABBED_IMAGES
   "drop",       \* the copy may be torn: ready() and release the lease
   "deliver",    \* about to call the callbacks
   "count",      \* the callbacks have returned or are about to
   "done"}       \* left the loop for finishChannel

\* The worker holds a lease of the pool.
LeaseHeld == pc \in {"copy", "status", "drop", "deliver", "count"}

TypeOK ==
  /\ started \in Nat /\ completed \in Nat /\ acquiring \in BOOLEAN
  /\ pc \in WorkerStates
  /\ lastPicture \in Nat /\ copyTorn \in BOOLEAN
  /\ permits \in Nat /\ stopRequested \in BOOLEAN
  /\ available \in Nat /\ retained \in Nat
  /\ owed \in Nat /\ shown \in Nat /\ shownTorn \in BOOLEAN
  /\ delivered \in Nat /\ skipped \in Nat
  /\ overwritten \in Nat /\ rejected \in Nat

\* startChannel registers the channel with one permit and a full pool.
Init ==
  /\ started = 0 /\ completed = 0 /\ acquiring = TRUE
  /\ pc = "check" /\ lastPicture = 0 /\ copyTorn = FALSE
  /\ permits = 1 /\ stopRequested = FALSE
  /\ available = BufferCount /\ retained = 0
  /\ owed = 0 /\ shown = 0 /\ shownTorn = FALSE
  /\ delivered = 0 /\ skipped = 0 /\ overwritten = 0 /\ rejected = 0

-----------------------------------------------------------------------------
(* The board                                                               *)

StartTransfer ==
  /\ acquiring /\ started = completed /\ started < MaxFrames
  /\ started' = started + 1
  /\ UNCHANGED <<completed, acquiring, pc, copy, permits, stopRequested, pool, sink, counts>>

CompleteTransfer ==
  /\ acquiring /\ completed < started
  /\ completed' = completed + 1
  /\ UNCHANGED <<started, acquiring, pc, copy, permits, stopRequested, pool, sink, counts>>

\* The buffer of a frame is being, or has been, reused by a later transfer.
Reused(picture) == started >= picture + BufferCount

-----------------------------------------------------------------------------
(* The worker: waiting for the permit                                      *)

CheckLoop ==
  /\ pc = "check"
  /\ pc' = IF stopRequested THEN "done" ELSE "permit"
  /\ UNCHANGED <<board, copy, permits, stopRequested, pool, sink, counts>>

\* Mutant: the worker goes on without looking at the permits.
EvaluatePermit_Unchecked ==
  /\ pc = "permit"
  /\ pc' = "recheck"
  /\ UNCHANGED <<board, copy, permits, stopRequested, pool, sink, counts>>

EvaluatePermit ==
  /\ pc = "permit"
  /\ pc' = IF stopRequested \/ permits > 0 THEN "recheck" ELSE "blocking"
  /\ UNCHANGED <<board, copy, permits, stopRequested, pool, sink, counts>>

\* Neither ready() nor the stop takes permitMutex, so either may come between
\* the predicate and this step, and its notification then finds nobody.
FallAsleep ==
  /\ pc = "blocking"
  /\ pc' = "asleep"
  /\ UNCHANGED <<board, copy, permits, stopRequested, pool, sink, counts>>

SpuriousWakeup ==
  /\ pc = "asleep"
  /\ pc' = "permit"
  /\ UNCHANGED <<board, copy, permits, stopRequested, pool, sink, counts>>

Recheck ==
  /\ pc = "recheck"
  /\ pc' = IF stopRequested THEN "done" ELSE "take"
  /\ UNCHANGED <<board, copy, permits, stopRequested, pool, sink, counts>>

TakePermit ==
  /\ pc = "take"
  /\ permits' = permits - 1
  /\ pc' = "wait"
  /\ UNCHANGED <<board, copy, stopRequested, pool, sink, counts>>

-----------------------------------------------------------------------------
(* The worker: one frame                                                   *)

\* Mutant: the wait is for lastPicture rather than the picture after it.
GetLastPicture_SameFrame ==
  /\ pc = "wait" /\ completed > 0
  /\ skipped' = skipped + (completed - lastPicture)
  /\ lastPicture' = completed
  /\ pc' = "inspect"
  /\ UNCHANGED <<board, copyTorn, permits, stopRequested, pool, sink,
                 delivered, overwritten, rejected>>

\* Mutant: the frame received is itself counted as skipped.
GetLastPicture_OffByOne ==
  /\ pc = "wait" /\ completed > lastPicture
  /\ skipped' = skipped + (completed - lastPicture)
  /\ lastPicture' = completed
  /\ pc' = "inspect"
  /\ UNCHANGED <<board, copyTorn, permits, stopRequested, pool, sink,
                 delivered, overwritten, rejected>>

\* The wait returns the newest frame; the ones in between are skipped.
GetLastPicture ==
  /\ pc = "wait" /\ completed > lastPicture
  /\ skipped' = skipped + (completed - (lastPicture + 1))
  /\ lastPicture' = completed
  /\ pc' = "inspect"
  /\ UNCHANGED <<board, copyTorn, permits, stopRequested, pool, sink,
                 delivered, overwritten, rejected>>

\* Mutant: a timeout loses the permit.
WaitTimesOut_LosesPermit ==
  /\ pc = "wait" /\ completed = lastPicture
  /\ pc' = "check"
  /\ UNCHANGED <<board, copy, permits, stopRequested, pool, sink, counts>>

WaitTimesOut ==
  /\ pc = "wait" /\ completed = lastPicture
  /\ permits' = permits + 1
  /\ pc' = "check"
  /\ UNCHANGED <<board, copy, stopRequested, pool, sink, counts>>

\* FG_TRANSFER_NOT_ACTIVE and other errors end the worker.
WaitFails ==
  /\ pc = "wait"
  /\ pc' = "done"
  /\ UNCHANGED <<board, copy, permits, stopRequested, pool, sink, counts>>

\* A null image pointer, an invalid transfer length, or a row narrower than
\* one pixel: the frame is abandoned, and only the first two are counted.
Inspect ==
  /\ pc = "inspect"
  /\ \E payload \in Payloads :
       /\ pc' = IF payload = "valid" THEN "lease" ELSE "readySelf"
       /\ rejected' = IF payload \in {"nullPointer", "badLength"}
                        THEN rejected + 1 ELSE rejected
  /\ UNCHANGED <<board, copy, permits, stopRequested, pool, sink,
                 delivered, skipped, overwritten>>

ReadySelf ==
  /\ pc = "readySelf"
  /\ permits' = 1
  /\ pc' = "check"
  /\ UNCHANGED <<board, copy, stopRequested, pool, sink, counts>>

\* OwnedBufferPool::acquire.  Its condition variable is used under its mutex,
\* so no wake-up is lost and waiting is waiting for the predicate.
AcquireLease ==
  /\ pc = "lease" /\ ~stopRequested /\ available > 0
  /\ available' = available - 1
  /\ pc' = "copy"
  /\ UNCHANGED <<board, copy, permits, stopRequested, retained, sink, counts>>

\* Mutant: the pool's wait does not include the stop in its predicate.
AcquireStopped_Ignored ==
  /\ pc = "lease" /\ stopRequested /\ available > 0
  /\ pc' = "done"
  /\ UNCHANGED <<board, copy, permits, stopRequested, pool, sink, counts>>

AcquireStopped ==
  /\ pc = "lease" /\ stopRequested
  /\ pc' = "done"
  /\ UNCHANGED <<board, copy, permits, stopRequested, pool, sink, counts>>

\* memcpy ends: the copy is torn if a transfer reached its buffer meanwhile.
Copy ==
  /\ pc = "copy"
  /\ copyTorn' = Reused(lastPicture)
  /\ pc' = "status"
  /\ UNCHANGED <<board, lastPicture, permits, stopRequested, pool, sink, counts>>

\* Mutant: the next transfer into the buffer is thought to start a frame later.
MayBeOverwritten_OffByOne(grabbed) ==
  grabbed > 0 /\ grabbed - lastPicture >= BufferCount

MayBeOverwritten(grabbed) ==
  grabbed > 0 /\ grabbed - lastPicture >= BufferCount - 1

CheckOverwritten ==
  /\ pc = "status"
  /\ \E grabbed \in {completed} \cup (IF StatusMayFail THEN {-1} ELSE {}) :
       IF MayBeOverwritten(grabbed)
         THEN pc' = "drop" /\ overwritten' = overwritten + 1
         ELSE pc' = "deliver" /\ UNCHANGED overwritten
  /\ UNCHANGED <<board, copy, permits, stopRequested, pool, sink,
                 delivered, skipped, rejected>>

\* Mutant: a dropped copy keeps its buffer.
DropCopy_Leaks ==
  /\ pc = "drop"
  /\ permits' = 1
  /\ pc' = "check"
  /\ UNCHANGED <<board, copy, stopRequested, pool, sink, counts>>

DropCopy ==
  /\ pc = "drop"
  /\ permits' = 1
  /\ available' = available + 1
  /\ pc' = "check"
  /\ UNCHANGED <<board, copy, stopRequested, retained, sink, counts>>

\* The callbacks get the image, and from now on may call ready().
Deliver ==
  /\ pc = "deliver"
  /\ shown' = lastPicture /\ shownTorn' = copyTorn
  /\ owed' = owed + 1
  /\ pc' = "count"
  /\ UNCHANGED <<board, copy, permits, stopRequested, pool, counts>>

\* The callbacks return, having kept a copy of the image or not; the worker's
\* own reference to the buffer ends with the iteration.
Count ==
  /\ pc = "count"
  /\ ReadyInCallback => owed = 0
  /\ delivered' = delivered + 1
  /\ \/ retained' = retained + 1 /\ UNCHANGED available
     \/ available' = available + 1 /\ UNCHANGED retained
  /\ pc' = IF Frames # 0 /\ delivered' >= Frames THEN "done" ELSE "check"
  /\ UNCHANGED <<board, copy, permits, stopRequested, sink, skipped, overwritten, rejected>>

-----------------------------------------------------------------------------
(* The consumer, and the stop                                              *)

Notified == IF pc = "asleep" THEN pc' = "permit" ELSE UNCHANGED pc

\* ready(): permits.exchange(1), and a notification only if it was 0.
GivePermit ==
  /\ permits' = 1
  /\ IF permits = 0 THEN Notified ELSE UNCHANGED pc

Ready ==
  /\ owed > 0
  /\ owed' = owed - 1
  /\ GivePermit
  /\ UNCHANGED <<board, copy, stopRequested, pool, shown, shownTorn, counts>>

ReadyUnasked ==
  /\ StrayReady
  /\ GivePermit
  /\ UNCHANGED <<board, copy, stopRequested, pool, sink, counts>>

\* The last owner of an image releases its buffer to the pool.
ReleaseImage ==
  /\ retained > 0
  /\ retained' = retained - 1 /\ available' = available + 1
  /\ UNCHANGED <<board, pc, copy, permits, stopRequested, sink, counts>>

\* requestStopChannels under _stateMutex: flag, notify, stop the pool.
RequestStop ==
  /\ ~stopRequested
  /\ stopRequested' = TRUE
  /\ Notified
  /\ UNCHANGED <<board, copy, permits, pool, sink, counts>>

\* ... and then Fg_stopAcquireEx, by the stopping thread or the worker.
StopAcquire ==
  /\ stopRequested \/ pc = "done"
  /\ acquiring
  /\ acquiring' = FALSE
  /\ UNCHANGED <<started, completed, pc, copy, permits, stopRequested, pool, sink, counts>>

-----------------------------------------------------------------------------
Board == StartTransfer \/ CompleteTransfer

\* The worker's steps in which it neither sleeps nor waits for a frame.
WorkerRuns ==
  \/ CheckLoop \/ EvaluatePermit \/ FallAsleep \/ Recheck \/ TakePermit
  \/ GetLastPicture \/ WaitTimesOut
  \/ Inspect \/ ReadySelf \/ AcquireLease \/ AcquireStopped \/ Copy
  \/ CheckOverwritten \/ DropCopy \/ Deliver \/ Count

Consumer == Ready \/ ReadyUnasked \/ ReleaseImage

Next ==
  \/ Board \/ WorkerRuns \/ SpuriousWakeup \/ WaitFails
  \/ Consumer \/ RequestStop \/ StopAcquire

Spec == Init /\ [][Next]_vars

\* The worker thread runs, and a consumer accepts what it was given.  No frame
\* has to come, no wakeup is spurious by obligation, and no stop is called by
\* obligation.
FairSpec == Spec /\ WF_vars(WorkerRuns) /\ WF_vars(Ready)

-----------------------------------------------------------------------------
(* What the delivery promises.                                             *)

\* A copy that contains data of a later transfer is not passed to the
\* callbacks (README: such a copy is dropped and counted as overwritten).
NoTornFrame == ~shownTorn

\* Every buffer of the pool is free, with the worker, or kept by a callback.
PoolConserved ==
  available + retained + (IF LeaseHeld THEN 1 ELSE 0) = BufferCount

\* The worker is between taking the permit and giving it up.
PermitTaken ==
  pc \in {"wait", "inspect", "readySelf", "lease", "copy", "status", "drop", "deliver"}

\* While every ready() answers one delivered frame there is one permit: to be
\* taken, taken, or owed by the consumer; it is lost only with the worker.
OnePermit ==
  ~StrayReady => IF pc = "done" THEN permits + owed <= 1
                 ELSE permits + owed + (IF PermitTaken THEN 1 ELSE 0) = 1

\* Whatever calls ready(), a timed-out wait adds to at most one permit.
PermitsBounded == permits <= 2 /\ (PermitTaken => permits <= 1)

\* Every frame up to the last the worker received is counted once; at most
\* the one in hand, or abandoned to a stop, is missing.
Accounted == delivered + skipped + overwritten + rejected
FramesAccounted == lastPicture - Accounted \in {0, 1}

\* A worker told to stop leaves its loop
\* (startChannel: "The short wait timeout keeps stop responsive").
StopResponsive == stopRequested ~> pc = "done"

\* The callbacks see an ordered stream with one frame outstanding at a time.
Stream == INSTANCE FrameStream
            WITH newest <- completed, owed <- owed > 0
StreamSpecification == Stream!StreamSpec
=============================================================================
