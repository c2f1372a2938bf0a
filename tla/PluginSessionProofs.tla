------------------------ MODULE PluginSessionProofs ------------------------
(***************************************************************************)
(* Proofs about PluginSession for any number of other systems in the       *)
(* process and any number of requests.                                     *)
(***************************************************************************)
EXTENDS PluginSession, FiniteSetTheorems, TLAPS

-----------------------------------------------------------------------------
(* The inductive invariant                                                 *)

\* Where the GUI thread is before it has shut the widget down, and after the
\* controller has joined the DMA worker.
Events    == {"idle", "joinToGrab", "joinToStop"}
Before    == Events \cup {"deregisterTitle", "requestStop"}
AfterJoin == {"closeStream", "drain", "freeController", "closeBoard", "releaseBoard",
              "freeSystem"}

\* The count is that of the systems initialized, of which the session's is one.
CountInv ==
  /\ references = Cardinality(initialized)
  /\ libraries <=> references > 0
  /\ Own \in initialized <=> "session" \in alive

\* A destructor's step tells which objects it has left, and what is destroyed.
AliveInv ==
  /\ "framegrabber" \in alive <=> "session" \in alive /\ gui # "freeSystem"
  /\ "controller" \in alive
       <=> "session" \in alive /\ gui \notin {"closeBoard", "releaseBoard", "freeSystem"}
  /\ gui \in Events => closing = "none"
  /\ gui \in {"joinToGrab", "joinToStop", "deregisterTitle"} \cup Shutdown \cup Destroy
       => "session" \in alive
  /\ gui \in {"deregisterTitle"} \cup Destroy => closing = "session"
  /\ gui = "freeWidget" => closing = "widget"
  /\ gui \in Shutdown \cup {"freeWidget"} => "widget" \in alive
  /\ gui \in Shutdown => closing # "none"
  /\ "widget" \in alive /\ ~shuttingDown => "session" \in alive /\ gui \in Before
  /\ "widget" \in alive /\ shuttingDown /\ gui \in Before => "session" \notin alive

\* Each thread has ended by the time the GUI thread goes past its wait for it.
WaitInv ==
  /\ at["work"] # "idle" => "controller" \in alive /\ gui \notin Destroy \ {"waitWork"}
  /\ at["operation"] \notin {"idle", "finished"}
       => /\ {"session", "widget"} \subseteq alive
          /\ gui \in Before \cup {"waitOperation"}
  /\ parameter = "writing"
       => /\ {"session", "widget"} \subseteq alive
          /\ gui \in Before \cup {"waitOperation", "waitParameters"}
  /\ dma # "none" => "framegrabber" \in alive /\ gui \notin AfterJoin
  /\ opened => "framegrabber" \in alive

\* Callbacks are copied and called only at the steps that wait for them.
CallInv ==
  /\ \A t \in Workers : Silent(t) \/ at[t] \in {"loading", "telling", "announcing"}
  /\ Silent("dma") \/ dma = "ending"

\* TypeOK in two parts: the flags, and the rest but for the libraries.
Flags ==
  /\ titleActive \in BOOLEAN /\ shuttingDown \in BOOLEAN /\ accepting \in BOOLEAN
  /\ busy \in BOOLEAN /\ opened \in BOOLEAN /\ running \in BOOLEAN

Shapes ==
  /\ gui \in Steps
  /\ closing \in {"none", "widget", "session"}
  /\ alive \subseteq Objects
  /\ registered \subseteq Observers
  /\ accepted \in 0..MaxRequests /\ delivered \in 0..MaxRequests
  /\ lifecycle \in Workers \cup {"free", "gui"}
  /\ dma \in {"none", "loop", "frame", "ending", "exited"}
  /\ at \in [Workers -> {"idle", "begin", "joining", "loading", "telling", "waiting",
                         "stopping", "ended", "announcing", "deliver", "finished"}]
  /\ kind \in [Workers -> Kinds]
  /\ calls \in [Threads -> SUBSET Observers]
  /\ body \in [Threads -> {"none", "controller", "session", "publish", "host",
                           "widget", "post"}]
  /\ parameter \in {"idle", "writing", "late"}

IInv == TypeOK /\ CountInv /\ AliveInv /\ WaitInv /\ CallInv /\ CompletedBeforeGone

-----------------------------------------------------------------------------
(* The libraries and their count                                           *)

\* Systems are finitely many, so taking one in or out changes the count by one.
LEMMA SystemsCounted ==
  ASSUME IInv
  PROVE  /\ IsFiniteSet(initialized) /\ references \in Nat
         /\ initialized # {} => references > 0
         /\ \A s : Cardinality(initialized \cup {s})
                   = IF s \in initialized THEN references ELSE references + 1
         /\ \A s : Cardinality(initialized \ {s})
                   = IF s \in initialized THEN references - 1 ELSE references
<1>1. IsFiniteSet({Own} \cup Others)
  BY SystemsAssumption, FS_Singleton, FS_Union
<1>2. IsFiniteSet(initialized)
  BY <1>1, FS_Subset DEF IInv, TypeOK
<1>3. references \in Nat /\ (references = 0 <=> initialized = {})
  BY <1>2, FS_CardinalityType, FS_EmptySet DEF IInv, CountInv
<1> QED
  BY <1>2, <1>3, FS_AddElement, FS_RemoveElement DEF IInv, CountInv

\* acquireLibraries and releaseLibraries keep the count and the libraries together.
LEMMA AcquireCounts ==
  ASSUME IInv, NEW s \in {Own} \cup Others, s \notin initialized, NEW succeeds \in BOOLEAN,
         AcquireLibraries(s, succeeds)
  PROVE  /\ references' = Cardinality(initialized') /\ (libraries' <=> references' > 0)
         /\ initialized' \subseteq {Own} \cup Others /\ libraries' \in BOOLEAN
BY SystemsCounted DEF AcquireLibraries, IInv, CountInv, TypeOK

LEMMA ReleaseCounts ==
  ASSUME IInv, NEW s \in initialized, ReleaseLibraries(s)
  PROVE  /\ references' = Cardinality(initialized') /\ (libraries' <=> references' > 0)
         /\ initialized' \subseteq {Own} \cup Others /\ libraries' \in BOOLEAN
<1>1. references \in Nat /\ Cardinality(initialized \ {s}) = references - 1
  BY SystemsCounted
<1>2. libraries' \in BOOLEAN /\ (libraries' <=> references > 1)
  <2>1. CASE references = 1
    <3>1. libraries' = FALSE
      BY <2>1 DEF ReleaseLibraries
    <3>2. ~(references > 1)
      BY <2>1
    <3> QED
      BY <3>1, <3>2, Zenon
  <2>2. CASE references # 1
    <3>1. libraries' = libraries
      BY <2>2 DEF ReleaseLibraries
    <3>2. libraries \in BOOLEAN /\ (libraries <=> references > 0)
      BY DEF IInv, TypeOK, CountInv
    <3> QED
      BY <1>1, <2>2, <3>1, <3>2
  <2> QED
    BY <2>1, <2>2
<1>3. initialized' = initialized \ {s} /\ references' = references - 1
  BY DEF ReleaseLibraries
<1>4. references' > 0 <=> references > 1
  BY <1>1, <1>3
<1> QED
  BY <1>1, <1>2, <1>3, <1>4 DEF IInv, TypeOK

\* The count never exceeds the number of systems.
LEMMA CountBounded ==
  ASSUME initialized' \subseteq {Own} \cup Others, references' = Cardinality(initialized')
  PROVE  references' \in 0..Cardinality(Others) + 1
<1>1. IsFiniteSet({Own} \cup Others) /\ Cardinality({Own} \cup Others) = Cardinality(Others) + 1
  <2>1. {Own} \cup Others = Others \cup {Own}
    OBVIOUS
  <2> QED
    BY <2>1, SystemsAssumption, FS_AddElement
<1>2. Cardinality(initialized') <= Cardinality({Own} \cup Others) /\ IsFiniteSet(initialized')
  BY <1>1, FS_Subset
<1> QED
  BY <1>1, <1>2, SystemsAssumption, FS_CardinalityType

LEMMA CountKept ==
  ASSUME IInv, [Next]_vars
  PROVE  /\ CountInv'
         /\ initialized' \subseteq {Own} \cup Others /\ libraries' \in BOOLEAN
         /\ references' \in 0..Cardinality(Others) + 1
<1>1. CASE OtherSystem
  BY <1>1, AcquireCounts, ReleaseCounts, CountBounded, SystemsAssumption
     DEF OtherSystem, AcquireLibraries, ReleaseLibraries, IInv, CountInv, objects
<1>2. CASE CreateSession
  <2>1. Own \notin initialized
    BY <1>2 DEF CreateSession, IInv, CountInv
  <2> QED
    BY <1>2, <2>1, AcquireCounts, CountBounded DEF CreateSession, AcquireLibraries, CountInv
<1>3. CASE FreeSystem
  <2>1. Own \in initialized
    BY <1>3 DEF FreeSystem, IInv, CountInv, AliveInv, Destroy
  <2> QED
    BY <1>3, <2>1, ReleaseCounts, CountBounded DEF FreeSystem, ReleaseLibraries, CountInv
<1>4. CASE UNCHANGED library /\ ("session" \in alive)' = ("session" \in alive)
  BY <1>4 DEF library, IInv, CountInv, TypeOK
<1>5. CASE Use \/ Teardown
  <2>1. CASE CreateDockWidgets
    BY <1>4, <2>1 DEF CreateDockWidgets, objects, library
  <2>2. CASE StartControlOperation
    BY <1>4, <2>2 DEF StartControlOperation, Begin, Go, objects, library
  <2>3. CASE HandleFinished
    BY <1>4, <2>3 DEF HandleFinished, Rest, Go, objects, library
  <2>4. CASE RunAsyncWrite
    BY <1>4, <2>4 DEF RunAsyncWrite, objects, library
  <2>5. CASE AdmitControl
    BY <1>4, <2>5 DEF AdmitControl, Begin, Go, objects, library
  <2>6. CASE StartLive
    BY <1>4, <2>6 DEF StartLive, objects, library
  <2>7. CASE LiveStarted
    BY <1>4, <2>7 DEF LiveStarted, Stopped, objects, library
  <2>8. CASE StopLive
    BY <1>4, <2>8 DEF StopLive, StopAndLock, objects, library
  <2>9. CASE LiveStopped
    BY <1>4, <2>9 DEF LiveStopped, Join, Stopped, objects, library
  <2>26. CASE RequestLiveStop
    BY <1>4, <2>26 DEF RequestLiveStop, objects, library
  <2>10. CASE DropWidget
    BY <1>4, <2>10 DEF DropWidget, objects, library
  <2>11. CASE DestroySession
    BY <1>4, <2>11 DEF DestroySession, objects, library
  <2>12. CASE DeregisterTitle
    BY <1>4, <2>12 DEF DeregisterTitle, objects, library
  <2>13. CASE RequestStop
    BY <1>4, <2>13 DEF RequestStop, objects, library
  <2>14. CASE WaitOperation
    BY <1>4, <2>14 DEF WaitOperation, Rest, Go, objects, library
  <2>15. CASE WaitParameters
    BY <1>4, <2>15 DEF WaitParameters, objects, library
  <2>16. CASE DeregisterWidget
    BY <1>4, <2>16 DEF DeregisterWidget, objects, library
  <2>17. CASE FreeWidget
    BY <1>4, <2>17 DEF FreeWidget, objects, library
  <2>18. CASE WaitWork
    BY <1>4, <2>18 DEF WaitWork, objects, library
  <2>19. CASE StopController
    BY <1>4, <2>19 DEF StopController, StopAndLock, objects, library
  <2>20. CASE JoinController
    BY <1>4, <2>20 DEF JoinController, Join, Stopped, objects, library
  <2>21. CASE CloseStream
    BY <1>4, <2>21 DEF CloseStream, objects, library
  <2>22. CASE Drain
    BY <1>4, <2>22 DEF Drain, objects, library
  <2>23. CASE FreeController
    BY <1>4, <2>23 DEF FreeController, objects, library
  <2>24. CASE CloseBoard
    BY <1>4, <2>24 DEF CloseBoard, StopAndLock, objects, library
  <2>25. CASE ReleaseBoard
    BY <1>4, <2>25 DEF ReleaseBoard, Stopped, objects, library
  <2> QED
    BY <1>2, <1>3, <1>5, <2>1, <2>2, <2>3, <2>4, <2>5, <2>6, <2>7, <2>8, <2>9,
       <2>10, <2>11, <2>12, <2>13, <2>14, <2>15, <2>16, <2>17, <2>18, <2>19, <2>20,
       <2>21, <2>22, <2>23, <2>24, <2>25, <2>26 DEF Use, Teardown
<1>6. CASE \/ \E t \in Workers : WorkerStep(t)
           \/ Deliver
           \/ \E t \in Threads : CallNext(t) \/ InCallback(t)
           \/ DmaStep \/ WriteReturns \/ UNCHANGED vars
  BY <1>4, <1>6 DEF WorkerStep, Deliver, CallNext, InCallback, DmaStep, WriteReturns, vars,
     objects, library
<1> QED
  BY <1>1, <1>5, <1>6 DEF Next

-----------------------------------------------------------------------------
(* The steps of each thread                                                *)

\* What the other threads do without the libraries.
Kept == /\ Shapes' /\ AliveInv' /\ WaitInv' /\ CallInv' /\ CompletedBeforeGone'

\* Every assignment to a flag is a Boolean.
LEMMA FlagsKept ==
  ASSUME Flags, Next PROVE Flags'
<1>1. CASE Use
  BY <1>1
     DEF Flags, Use, CreateSession, AcquireLibraries, CreateDockWidgets,
        StartControlOperation, Begin, Go, HandleFinished, Rest, RunAsyncWrite,
        AdmitControl, StartLive, LiveStarted, Stopped, StopLive, StopAndLock,
        LiveStopped, Join, RequestLiveStop, DropWidget, DestroySession, objects, requests, board,
        threads, library
<1>2. CASE Teardown
  BY <1>2
     DEF Flags, Teardown, DeregisterTitle, RequestStop, WaitOperation, Rest, Go,
        WaitParameters, DeregisterWidget, FreeWidget, WaitWork, StopController,
        StopAndLock, JoinController, Join, Stopped, CloseStream, Drain,
        FreeController, CloseBoard, ReleaseBoard, FreeSystem, ReleaseLibraries,
        objects, requests, board, threads, library
<1>3. CASE \E t \in Workers : WorkerStep(t)
  BY <1>3
     DEF Flags, WorkerStep, PerformOther, LoadRefused, LockAndStop, GrabSkipped,
        JoinedToLoad, AppletLoaded, JoinedToClose, JoinedToGrab, Told, SingleDone,
        SingleTimesOut, SingleStopped, EndControl, ControlEnded, objects, requests, board, threads,
        library
<1>4. CASE \/ Deliver \/ DmaStep \/ WriteReturns \/ OtherSystem
           \/ \E t \in Threads : CallNext(t) \/ InCallback(t)
  BY <1>4
     DEF Flags, Deliver, CallNext, InCallback, DmaStep, WriteReturns, OtherSystem,
        TakeFrame, FrameReturned, LoopEnds, DmaExits, objects, requests, board,
        threads, library
<1> QED
  BY <1>1, <1>2, <1>3, <1>4 DEF Next

\* The GUI thread between two events.
LEMMA UseKept ==
  ASSUME IInv, Use,
         initialized' \subseteq {Own} \cup Others, references' \in 0..Cardinality(Others) + 1
  PROVE  Kept
<1> USE MaxRequestsAssumption
    DEF IInv, TypeOK, AliveInv, WaitInv, CallInv, CompletedBeforeGone, Silent,
        Objects, Observers, Workers, Threads, Kinds, Shutdown, Destroy, Steps, Events,
        Before, AfterJoin, objects, requests, board, threads, library, surface,
        Shapes, Kept
<1>1. CASE CreateSession
  BY <1>1 DEF CreateSession, AcquireLibraries
<1>2. CASE CreateDockWidgets
  BY <1>2 DEF CreateDockWidgets
<1>3. CASE StartControlOperation
  BY <1>3 DEF StartControlOperation, Begin, Go
<1>4. CASE HandleFinished
  BY <1>4 DEF HandleFinished, Rest, Go
<1>5. CASE RunAsyncWrite
  BY <1>5 DEF RunAsyncWrite
<1>6. CASE AdmitControl
  BY <1>6 DEF AdmitControl, Begin, Go
<1>7. CASE StartLive
  BY <1>7 DEF StartLive
<1>8. CASE LiveStarted
  BY <1>8 DEF LiveStarted, Stopped
<1>9. CASE StopLive
  BY <1>9 DEF StopLive, StopAndLock
<1>10. CASE LiveStopped
  BY <1>10 DEF LiveStopped, Join, Stopped
<1>11. CASE RequestLiveStop
  BY <1>11 DEF RequestLiveStop
<1>12. CASE DropWidget
  BY <1>12 DEF DropWidget
<1>13. CASE DestroySession
  BY <1>13 DEF DestroySession
<1> QED
  BY <1>1, <1>2, <1>3, <1>4, <1>5, <1>6, <1>7, <1>8, <1>9, <1>10, <1>11, <1>12, <1>13
     DEF Use

\* The GUI thread in a destructor.
LEMMA TeardownKept ==
  ASSUME IInv, Teardown,
         initialized' \subseteq {Own} \cup Others, references' \in 0..Cardinality(Others) + 1
  PROVE  Kept
<1> USE MaxRequestsAssumption
    DEF IInv, TypeOK, AliveInv, WaitInv, CallInv, CompletedBeforeGone, Silent,
        Objects, Observers, Workers, Threads, Kinds, Shutdown, Destroy, Steps, Events,
        Before, AfterJoin, objects, requests, board, threads, library, surface,
        Shapes, Kept
<1>1. CASE DeregisterTitle
  BY <1>1 DEF DeregisterTitle
<1>2. CASE RequestStop
  BY <1>2 DEF RequestStop
<1>3. CASE WaitOperation
  BY <1>3 DEF WaitOperation, Rest, Go
<1>4. CASE WaitParameters
  BY <1>4 DEF WaitParameters
<1>5. CASE DeregisterWidget
  BY <1>5 DEF DeregisterWidget
<1>6. CASE FreeWidget
  BY <1>6 DEF FreeWidget
<1>7. CASE WaitWork
  BY <1>7 DEF WaitWork
<1>8. CASE StopController
  BY <1>8 DEF StopController, StopAndLock
<1>9. CASE JoinController
  BY <1>9 DEF JoinController, Join, Stopped
<1>10. CASE CloseStream
  BY <1>10 DEF CloseStream
<1>11. CASE Drain
  BY <1>11 DEF Drain
<1>12. CASE FreeController
  BY <1>12 DEF FreeController
<1>13. CASE CloseBoard
  BY <1>13 DEF CloseBoard, StopAndLock
<1>14. CASE ReleaseBoard
  BY <1>14 DEF ReleaseBoard, Stopped
<1>15. CASE FreeSystem
  BY <1>15 DEF FreeSystem, ReleaseLibraries
<1> QED
  BY <1>1, <1>2, <1>3, <1>4, <1>5, <1>6, <1>7, <1>8, <1>9, <1>10, <1>11, <1>12, <1>13,
     <1>14, <1>15 DEF Teardown

\* The operation thread and the controller's work.
LEMMA WorkerKept ==
  ASSUME IInv, NEW t \in Workers, WorkerStep(t),
         initialized' \subseteq {Own} \cup Others, references' \in 0..Cardinality(Others) + 1
  PROVE  Kept
<1> USE MaxRequestsAssumption
    DEF IInv, TypeOK, AliveInv, WaitInv, CallInv, CompletedBeforeGone, Silent,
        Objects, Observers, Workers, Threads, Kinds, Shutdown, Destroy, Steps, Events,
        Before, AfterJoin, objects, requests, board, threads, library, surface,
        Shapes, Kept, WorkerStep, Go, Notify, Notified, Stopped
<1>1. CASE PerformOther(t)
  BY <1>1 DEF PerformOther
<1>2. CASE LoadRefused(t)
  BY <1>2 DEF LoadRefused
<1>3. CASE LockAndStop(t)
  BY <1>3 DEF LockAndStop
<1>4. CASE GrabSkipped(t)
  BY <1>4 DEF GrabSkipped
<1>5. CASE JoinedToLoad(t)
  BY <1>5 DEF JoinedToLoad
<1>6. CASE JoinedToClose(t)
  BY <1>6 DEF JoinedToClose
<1>7. CASE JoinedToGrab(t)
  BY <1>7 DEF JoinedToGrab
<1>8. CASE Told(t)
  BY <1>8 DEF Told
<1>9. CASE SingleDone(t)
  BY <1>9 DEF SingleDone
<1>10. CASE SingleTimesOut(t)
  BY <1>10 DEF SingleTimesOut
<1>11. CASE SingleStopped(t)
  BY <1>11 DEF SingleStopped
<1>12. CASE EndControl(t)
  BY <1>12 DEF EndControl
<1>13. CASE ControlEnded(t)
  BY <1>13 DEF ControlEnded
<1>14. CASE AppletLoaded(t)
  BY <1>14 DEF AppletLoaded
<1> QED
  BY <1>1, <1>2, <1>3, <1>4, <1>5, <1>6, <1>7, <1>8, <1>9, <1>10, <1>11, <1>12, <1>13,
     <1>14 DEF WorkerStep

\* A thread in the callbacks it copied.
LEMMA CallbackKept ==
  ASSUME IInv, NEW t \in Threads, CallNext(t) \/ InCallback(t),
         initialized' \subseteq {Own} \cup Others, references' \in 0..Cardinality(Others) + 1
  PROVE  Kept
<1> USE MaxRequestsAssumption
    DEF IInv, TypeOK, AliveInv, WaitInv, CallInv, CompletedBeforeGone, Silent,
        Objects, Observers, Workers, Threads, Kinds, Shutdown, Destroy, Steps, Events,
        Before, AfterJoin, objects, requests, board, threads, library, surface,
        Shapes, Kept, CallNext, InCallback, Enter
<1>1. CASE CallNext(t)
  BY <1>1 DEF CallNext
<1>2. CASE ControllerReturns(t) /\ InCallback(t)
  BY <1>2 DEF ControllerReturns
<1>3. CASE ReadConnectedName(t) /\ InCallback(t)
  BY <1>3 DEF ReadConnectedName
<1>4. CASE Publish(t) /\ InCallback(t)
  BY <1>4 DEF Publish
<1>5. CASE HostReturns(t) /\ InCallback(t)
  BY <1>5 DEF HostReturns
<1>6. CASE TestGuard(t) /\ InCallback(t)
  BY <1>6 DEF TestGuard
<1>7. CASE Post(t) /\ InCallback(t)
  BY <1>7 DEF Post
<1> QED
  BY <1>1, <1>2, <1>3, <1>4, <1>5, <1>6, <1>7 DEF InCallback

\* The DMA worker, a completion, a parameter thread, other systems.
LEMMA RestKept ==
  ASSUME IInv, Deliver \/ DmaStep \/ WriteReturns \/ OtherSystem \/ UNCHANGED vars,
         initialized' \subseteq {Own} \cup Others, references' \in 0..Cardinality(Others) + 1
  PROVE  Kept
<1> USE MaxRequestsAssumption
    DEF IInv, TypeOK, AliveInv, WaitInv, CallInv, CompletedBeforeGone, Silent,
        Objects, Observers, Workers, Threads, Kinds, Shutdown, Destroy, Steps, Events,
        Before, AfterJoin, objects, requests, board, threads, library, surface,
        Shapes, Kept, DmaStep, Rest, Go, Notify, Notified, vars
<1>1. CASE TakeFrame /\ DmaStep
  BY <1>1 DEF TakeFrame
<1>2. CASE FrameReturned /\ DmaStep
  BY <1>2 DEF FrameReturned
<1>3. CASE LoopEnds /\ DmaStep
  BY <1>3 DEF LoopEnds
<1>4. CASE DmaExits /\ DmaStep
  BY <1>4 DEF DmaExits
<1>5. CASE Deliver
  BY <1>5 DEF Deliver
<1>6. CASE WriteReturns
  BY <1>6 DEF WriteReturns
<1>7. CASE OtherSystem
  BY <1>7 DEF OtherSystem
<1>8. CASE UNCHANGED vars
  BY <1>8
<1> QED
  BY <1>1, <1>2, <1>3, <1>4, <1>5, <1>6, <1>7, <1>8 DEF DmaStep

-----------------------------------------------------------------------------
(* The theorems                                                            *)

LEMMA InitHolds == Init => IInv
<1>1. Cardinality(Others) \in Nat
  BY SystemsAssumption, FS_CardinalityType
<1>2. Cardinality({}) = 0
  BY FS_EmptySet
<1> SUFFICES ASSUME Init PROVE IInv
  OBVIOUS
<1> USE MaxRequestsAssumption
    DEF Init, Objects, Observers, Workers, Threads, Kinds, Shutdown, Destroy, Steps, Events,
        Before, AfterJoin
<1>3. Flags /\ libraries \in BOOLEAN
  BY DEF Flags
<1>4. Shapes
  BY DEF Shapes
<1>5. references \in 0..Cardinality(Others) + 1 /\ initialized \subseteq {Own} \cup Others
  BY <1>1
<1>6. TypeOK
  BY <1>3, <1>4, <1>5 DEF TypeOK, Flags, Shapes
<1>7. CountInv
  BY <1>2 DEF CountInv
<1>8. AliveInv /\ WaitInv /\ CallInv /\ CompletedBeforeGone
  BY DEF AliveInv, WaitInv, CallInv, CompletedBeforeGone, Silent
<1> QED
  BY <1>6, <1>7, <1>8 DEF IInv

LEMMA StepPreserves == IInv /\ [Next]_vars => IInv'
<1> SUFFICES ASSUME IInv, [Next]_vars PROVE IInv'
  OBVIOUS
<1>1. /\ CountInv'
      /\ initialized' \subseteq {Own} \cup Others /\ libraries' \in BOOLEAN
      /\ references' \in 0..Cardinality(Others) + 1
  BY CountKept
<1>2. Flags'
  <2>1. Flags
    BY DEF IInv, TypeOK, Flags
  <2>2. UNCHANGED vars => Flags'
    BY <2>1 DEF Flags, vars, objects, requests, board
  <2> QED
    BY <2>1, <2>2, FlagsKept
<1>3. Kept
  BY <1>1, UseKept, TeardownKept, WorkerKept, CallbackKept, RestKept DEF Next
<1> QED
  BY <1>1, <1>2, <1>3 DEF IInv, TypeOK, Kept, Flags, Shapes

\* The inductive invariant holds in every reachable state.
THEOREM Inductive == Spec => []IInv
BY InitHolds, StepPreserves, PTL DEF Spec

\* The state of a session keeps its types.
THEOREM TypeCorrect == Spec => []TypeOK
<1>1. IInv => TypeOK
  BY DEF IInv
<1> QED
  BY <1>1, Inductive, PTL

\* In whichever order the host destroys the widget and the session, no thread is in a
\* step that uses the Framegrabber, the controller or the session after its destruction,
\* and no operation or earlier parameter write one that uses the widget: each destructor
\* waits for the threads that use what it destroys, and callbacks run on those threads.
\* Nothing is said of the widget in its own status callback and in a later write.
THEOREM OutlivedByWhatItServes == Spec => []SessionOutlivesItsUsers
<1>1. IInv => SessionOutlivesItsUsers
  <2> SUFFICES ASSUME IInv PROVE SessionOutlivesItsUsers
    OBVIOUS
  <2> USE DEF IInv, TypeOK, AliveInv, WaitInv, CallInv, Silent, Workers, Threads, Shutdown,
              Destroy, Events, Before, AfterJoin
  <2>1. ASSUME NEW t \in Threads
        PROVE  WorkUses(t) \cup (CallbackUses(t) \ {"widget"}) \subseteq alive
    <3>1. CASE t = "operation"
      BY <3>1 DEF WorkUses, CallbackUses
    <3>2. CASE t = "work"
      BY <3>2 DEF WorkUses, CallbackUses
    <3>3. CASE t = "dma"
      BY <3>3 DEF WorkUses, CallbackUses
    <3> QED
      BY <3>1, <3>2, <3>3
  <2>2. parameter = "writing" => WriteUses \subseteq alive
    BY DEF WriteUses
  <2> QED
    BY <2>1, <2>2 DEF SessionOutlivesItsUsers
<1> QED
  BY <1>1, Inductive, PTL

\* While a board is open or a worker transfers the libraries are initialized, for
\* any number of other systems that come, go or fail to initialize.
THEOREM LibrariesOutliveBoards == Spec => []LibrariesHeld
<1>1. IInv => LibrariesHeld
  <2> SUFFICES ASSUME IInv PROVE LibrariesHeld
    OBVIOUS
  <2>1. opened \/ dma # "none" => initialized # {}
    BY DEF IInv, WaitInv, AliveInv, CountInv
  <2> QED
    BY <2>1, SystemsCounted DEF LibrariesHeld, IInv, CountInv
<1> QED
  BY <1>1, Inductive, PTL

\* Every request accepted is completed exactly once, before the controller is gone.
THEOREM CompletionsPrecedeDestruction == Spec => []CompletedBeforeGone
<1>1. IInv => CompletedBeforeGone
  BY DEF IInv
<1> QED
  BY <1>1, Inductive, PTL
=============================================================================
