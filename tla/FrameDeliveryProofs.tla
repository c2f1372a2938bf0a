------------------------- MODULE FrameDeliveryProofs -------------------------
(***************************************************************************)
(* Proofs about FrameDelivery for every number of buffers, every bound on  *)
(* the frames, and every choice of the other constants.                    *)
(***************************************************************************)
EXTENDS FrameDelivery, TLAPS

-----------------------------------------------------------------------------
(* The inductive invariant                                                 *)

\* The board is at most one transfer ahead of the completed frames, the worker
\* is never ahead of the board, nor the callbacks of the worker.
BoardInv ==
  /\ completed <= started /\ started <= completed + 1
  /\ shown <= lastPicture /\ lastPicture <= completed

\* A frame in hand is newer than the one last shown.  A torn copy cannot pass
\* the test of CheckOverwritten: the transfer that tore it could start only
\* after lastPicture + BufferCount - 1 frames were complete.
FrameInHand == pc \in {"inspect", "lease", "copy", "status", "deliver"}

CopyInv ==
  /\ FrameInHand => shown < lastPicture
  /\ pc = "status" /\ copyTorn => completed - lastPicture >= BufferCount - 1
  /\ ~StatusMayFail /\ pc = "deliver" => ~copyTorn
  /\ ~StatusMayFail => ~shownTorn

\* The worker takes a permit only where there is one.
PermitInv ==
  /\ pc = "recheck" => stopRequested \/ permits > 0
  /\ pc = "take" => permits > 0
  /\ PermitsBounded
  /\ OnePermit

\* The frame in hand is the one not yet counted.
GapInv ==
  "narrow" \notin Payloads =>
    CASE FrameInHand \/ pc = "count" -> lastPicture - Accounted = 1
      [] pc = "done" -> FramesAccounted
      [] OTHER -> lastPicture - Accounted = 0

IInv == TypeOK /\ BoardInv /\ CopyInv /\ PermitInv /\ PoolConserved /\ GapInv

-----------------------------------------------------------------------------
LEMMA InitEstablishes == Init => IInv
<1> SUFFICES ASSUME Init PROVE IInv
  OBVIOUS
<1> USE FrameConstants DEF Init
<1>1. TypeOK
  BY DEF TypeOK, WorkerStates
<1>2. BoardInv
  BY DEF BoardInv
<1>3. CopyInv
  BY DEF CopyInv, FrameInHand
<1>4. PermitInv
  BY DEF PermitInv, PermitsBounded, OnePermit, PermitTaken
<1>5. PoolConserved
  BY DEF PoolConserved, LeaseHeld
<1>6. GapInv
  BY DEF GapInv, FrameInHand, Accounted
<1> QED
  BY <1>1, <1>2, <1>3, <1>4, <1>5, <1>6 DEF IInv

LEMMA StepPreserves == IInv /\ [Next]_vars => IInv'
<1> SUFFICES ASSUME IInv, [Next]_vars PROVE IInv'
  OBVIOUS
<1> USE FrameConstants DEF IInv, TypeOK, BoardInv, CopyInv, PermitInv, GapInv, PoolConserved,
      OnePermit, PermitsBounded, FrameInHand, PermitTaken, LeaseHeld, Accounted,
      FramesAccounted, WorkerStates,
      board, copy, pool, sink, counts
<1>1. CASE StartTransfer
  BY <1>1 DEF StartTransfer
<1>2. CASE CompleteTransfer
  BY <1>2 DEF CompleteTransfer
<1>3. CASE CheckLoop
  BY <1>3 DEF CheckLoop
<1>4. CASE EvaluatePermit
  BY <1>4 DEF EvaluatePermit
<1>5. CASE FallAsleep
  BY <1>5 DEF FallAsleep
<1>6. CASE Recheck
  BY <1>6 DEF Recheck
<1>7. CASE TakePermit
  BY <1>7 DEF TakePermit
<1>8. CASE GetLastPicture
  BY <1>8 DEF GetLastPicture
<1>9. CASE WaitTimesOut
  BY <1>9 DEF WaitTimesOut
<1>10. CASE Inspect
  BY <1>10 DEF Inspect, PayloadKinds
<1>11. CASE ReadySelf
  BY <1>11 DEF ReadySelf
<1>12. CASE AcquireLease
  BY <1>12 DEF AcquireLease
<1>13. CASE AcquireStopped
  BY <1>13 DEF AcquireStopped
<1>14. CASE Copy
  \* The comparison stored in copyTorn is set apart from the arithmetic.
  <2>1. copyTorn' \in BOOLEAN /\ (copyTorn' => Reused(lastPicture))
    <3>1. copyTorn' = Reused(lastPicture)
      BY <1>14, Zenon DEF Copy
    <3>2. Reused(lastPicture) \in BOOLEAN
      BY DEF Reused
    <3> QED
      BY <3>1, <3>2, Zenon
  <2>2. copyTorn' => completed - lastPicture >= BufferCount - 1
    BY <2>1 DEF Reused
  <2>3. /\ pc = "copy" /\ pc' = "status"
        /\ UNCHANGED <<board, lastPicture, permits, stopRequested, pool, sink, counts>>
    BY <1>14 DEF Copy
  <2> QED
    BY <2>1, <2>2, <2>3
<1>15. CASE CheckOverwritten
  BY <1>15 DEF CheckOverwritten, MayBeOverwritten
<1>16. CASE DropCopy
  BY <1>16 DEF DropCopy
<1>17. CASE Deliver
  BY <1>17 DEF Deliver
<1>18. CASE Count
  BY <1>18 DEF Count
<1>19. CASE SpuriousWakeup
  BY <1>19 DEF SpuriousWakeup
<1>20. CASE WaitFails
  BY <1>20 DEF WaitFails
<1>21. CASE Ready
  BY <1>21 DEF Ready, GivePermit, Notified
<1>22. CASE ReadyUnasked
  BY <1>22 DEF ReadyUnasked, GivePermit, Notified
<1>23. CASE ReleaseImage
  BY <1>23 DEF ReleaseImage
<1>24. CASE RequestStop
  BY <1>24 DEF RequestStop, Notified
<1>25. CASE StopAcquire
  BY <1>25 DEF StopAcquire
<1>26. CASE UNCHANGED vars
  BY <1>26 DEF vars
<1> QED
  BY <1>1, <1>2, <1>3, <1>4, <1>5, <1>6, <1>7, <1>8, <1>9, <1>10, <1>11, <1>12, <1>13, <1>14, <1>15, <1>16, <1>17, <1>18, <1>19, <1>20, <1>21, <1>22, <1>23, <1>24, <1>25, <1>26 DEF Next, Board, WorkerRuns, Consumer

\* IInv holds in every reachable state.
THEOREM Invariance == Spec => []IInv
  BY InitEstablishes, StepPreserves, PTL DEF Spec

-----------------------------------------------------------------------------
(* What follows from the invariant                                         *)

\* The state components keep their types in every reachable state.
THEOREM TypeCorrect == Spec => []TypeOK
<1>1. IInv => TypeOK
  BY DEF IInv
<1> QED
  BY <1>1, Invariance, PTL

\* As long as the status query of the SDK succeeds, no callback is given a copy
\* that a later transfer wrote into while the worker was copying.
THEOREM UntornFrames == ASSUME ~StatusMayFail PROVE Spec => []NoTornFrame
<1>1. IInv => NoTornFrame
  BY DEF IInv, CopyInv, NoTornFrame
<1> QED
  BY <1>1, Invariance, PTL

\* No buffer of the pool is lost or handed out twice.
THEOREM PoolIsConserved == Spec => []PoolConserved
<1>1. IInv => PoolConserved
  BY DEF IInv
<1> QED
  BY <1>1, Invariance, PTL

\* If every ready() answers one delivered frame, exactly one permit exists while
\* the worker lives, so at most one frame is outstanding.
THEOREM BackpressureHolds == Spec => []OnePermit
<1>1. IInv => OnePermit
  BY DEF IInv, PermitInv
<1> QED
  BY <1>1, Invariance, PTL

\* However often ready() is called, there are never more than two permits.
THEOREM PermitsStayBounded == Spec => []PermitsBounded
<1>1. IInv => PermitsBounded
  BY DEF IInv, PermitInv
<1> QED
  BY <1>1, Invariance, PTL

\* If no row is narrower than a pixel, the statistics account for every frame
\* the worker received but the one it has in hand.
THEOREM StatisticsAccount ==
  ASSUME "narrow" \notin Payloads PROVE Spec => []FramesAccounted
<1>1. IInv => FramesAccounted
  <2> SUFFICES ASSUME IInv PROVE FramesAccounted
    OBVIOUS
  <2>1. CASE FrameInHand \/ pc = "count"
    BY <2>1 DEF IInv, GapInv, FramesAccounted
  <2>2. CASE ~(FrameInHand \/ pc = "count") /\ pc = "done"
    BY <2>2 DEF IInv, GapInv
  <2>3. CASE ~(FrameInHand \/ pc = "count") /\ pc # "done"
    BY <2>3 DEF IInv, GapInv, FramesAccounted
  <2> QED
    BY <2>1, <2>2, <2>3
<1> QED
  BY <1>1, Invariance, PTL

-----------------------------------------------------------------------------
(* FrameDelivery implements FrameStream                                    *)

LEMMA StreamStep ==
  ASSUME ~StrayReady, IInv, [Next]_vars
  PROVE  [Stream!StreamNext]_Stream!streamVars
<1> USE DEF Stream!streamVars, Stream!StreamNext, board, copy, pool, sink, counts
<1>1. CASE CompleteTransfer
  BY <1>1 DEF CompleteTransfer, Stream!Arrive
<1>2. CASE Deliver
  <2>1. owed = 0
    BY <1>2 DEF Deliver, IInv, TypeOK, PermitInv, OnePermit, PermitTaken
  <2>2. shown' \in shown + 1 .. completed
    BY <1>2 DEF Deliver, IInv, TypeOK, BoardInv, CopyInv, FrameInHand
  <2> QED
    BY <1>2, <2>1, <2>2 DEF Deliver, Stream!Show
<1>3. CASE Ready
  <2>1. owed = 1
    BY <1>3 DEF Ready, IInv, TypeOK, PermitInv, OnePermit, PermitTaken
  <2> QED
    BY <1>3, <2>1 DEF Ready, Stream!Accept
<1>4. CASE UNCHANGED vars
  BY <1>4 DEF vars
<1>5. CASE /\ Next \/ UNCHANGED vars
           /\ ~CompleteTransfer /\ ~Deliver /\ ~Ready
  BY <1>5 DEF vars, Next, Board, WorkerRuns, Consumer, StartTransfer, CheckLoop,
     EvaluatePermit, FallAsleep, Recheck, TakePermit, GetLastPicture, WaitTimesOut,
     Inspect, ReadySelf, AcquireLease, AcquireStopped, Copy, CheckOverwritten,
     DropCopy, Count, SpuriousWakeup, WaitFails, ReadyUnasked, ReleaseImage,
     RequestStop, StopAcquire
<1> QED
  BY <1>1, <1>2, <1>3, <1>4, <1>5

\* While every ready() answers one delivered frame, the callbacks see the
\* ordered stream of FrameStream, one frame outstanding at a time.
THEOREM ImplementsStream == ASSUME ~StrayReady PROVE Spec => StreamSpecification
<1>1. Init => Stream!StreamInit
  BY DEF Init, Stream!StreamInit
<1>2. IInv /\ [Next]_vars => [Stream!StreamNext]_Stream!streamVars
  BY StreamStep
<1> QED
  BY <1>1, <1>2, Invariance, PTL DEF Spec, StreamSpecification, Stream!StreamSpec

=============================================================================
