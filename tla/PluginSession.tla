--------------------------- MODULE PluginSession ---------------------------
(***************************************************************************)
(* One session of the Playground plugin, from its creation to the return   *)
(* of its destructor: the GUI thread that creates and destroys the         *)
(* session and its widget, the threads that the Framegrabber, the widget   *)
(* and the source controller have running when it does, the callbacks they *)
(* copied before, and the reference count of the SDK libraries that all    *)
(* FramegrabberSystem instances of the process share.                      *)
(*                                                                         *)
(* What ChannelLifecycle and AppletLifecycle take apart under              *)
(* _lifecycleMutex is one step here.  A status notified on the GUI thread  *)
(* is part of the GUI's step.                                              *)
(***************************************************************************)
EXTENDS Integers, FiniteSets

CONSTANTS
  Own,          \* the session's FramegrabberSystem
  Others,       \* other ones of the process: discoveries and other sessions
  MaxRequests   \* requests the controller accepts in one session (bound)

ASSUME SystemsAssumption == IsFiniteSet(Others) /\ Own \notin Others
ASSUME MaxRequestsAssumption == MaxRequests \in Nat

VARIABLES
  gui,          \* step of the GUI thread
  closing,      \* what it destroys: "none", "widget" or "session"
  alive,        \* objects whose destructor has not returned
  registered,   \* owners of the entries of _statusCallbacks
  titleActive,  \* FramegrabberPluginTitleState::_active
  shuttingDown, \* QFramegrabberWidget::_shuttingDown
  accepting,    \* the frame stream's callback gate is open
  busy,         \* Framegrabber::_controlBusy
  accepted,     \* requests accepted on the worker (history)
  delivered,    \* completions called (history)
  lifecycle,    \* owner of _lifecycleMutex, "free" if none
  opened,       \* _handle is set
  running,      \* _isRunning
  dma,          \* the DMA worker
  at,           \* steps of the widget's operation thread and of _work
  kind,         \* what each of the two does, "other" if it does nothing
  calls,        \* status callbacks a thread copied and has yet to call
  body,         \* the callback a thread is in
  parameter,    \* the widget's parameter thread
  initialized,  \* systems whose _initialized is set
  references,   \* libraryReferences()
  libraries     \* the SDK libraries are initialized

objects  == <<alive, registered, titleActive, shuttingDown, accepting>>
requests == <<busy, accepted, delivered>>
board    == <<lifecycle, opened, running, dma>>
threads  == <<at, kind, calls, body>>
library  == <<initialized, references, libraries>>
surface  == <<gui, closing>>
vars == <<surface, objects, requests, board, threads, parameter, library>>

Objects   == {"framegrabber", "controller", "session", "widget"}
Observers == {"controller", "session", "widget"}
Workers   == {"operation", "work"}       \* _operationThread and _work
Threads   == Workers \cup {"dma"}
Kinds     == {"load", "close", "single", "other"}
Shutdown  == {"requestStop", "waitOperation", "waitParameters", "deregisterWidget"}
Destroy   == {"waitWork", "stopController", "joinController", "closeStream",
              "drain", "freeController", "closeBoard", "releaseBoard", "freeSystem"}
Steps     == {"idle", "joinToGrab", "joinToStop", "deregisterTitle", "freeWidget"}
               \cup Shutdown \cup Destroy

TypeOK ==
  /\ gui \in Steps
  /\ closing \in {"none", "widget", "session"}
  /\ alive \subseteq Objects
  /\ registered \subseteq Observers
  /\ titleActive \in BOOLEAN /\ shuttingDown \in BOOLEAN /\ accepting \in BOOLEAN
  /\ busy \in BOOLEAN /\ opened \in BOOLEAN /\ running \in BOOLEAN /\ libraries \in BOOLEAN
  /\ accepted \in 0..MaxRequests /\ delivered \in 0..MaxRequests
  /\ lifecycle \in Workers \cup {"free", "gui"}
  /\ dma \in {"none", "loop", "frame", "ending", "exited"}
  /\ at \in [Workers -> {"idle", "begin", "joining", "loading", "telling", "waiting",
                         "stopping", "ended", "announcing", "deliver", "finished"}]
  /\ kind \in [Workers -> Kinds]
  /\ calls \in [Threads -> SUBSET Observers]
  /\ body \in [Threads -> {"none", "controller", "session", "publish", "host",
                           "widget", "post"}]
  /\ parameter \in {"idle", "writing", "late"}
  /\ initialized \subseteq {Own} \cup Others
  /\ references \in 0..Cardinality(Others) + 1

Init ==
  /\ gui = "idle" /\ closing = "none"
  /\ alive = {} /\ registered = {}
  /\ titleActive = FALSE /\ shuttingDown = FALSE /\ accepting = FALSE
  /\ busy = FALSE /\ accepted = 0 /\ delivered = 0
  /\ lifecycle = "free" /\ opened = FALSE /\ running = FALSE /\ dma = "none"
  /\ at = [t \in Workers |-> "idle"] /\ kind = [t \in Workers |-> "other"]
  /\ calls = [t \in Threads |-> {}] /\ body = [t \in Threads |-> "none"]
  /\ parameter = "idle"
  /\ initialized = {} /\ references = 0 /\ libraries = FALSE

-----------------------------------------------------------------------------
\* The SDK libraries, each operation under libraryMutex().

\* Mutant: a failed initialization is counted.
AcquireLibraries_CountsFailure(system, succeeds) ==
  /\ references > 0 => succeeds
  /\ initialized' = IF succeeds THEN initialized \cup {system} ELSE initialized
  /\ references' = references + 1
  /\ libraries' = (libraries \/ succeeds)

\* Only the first reference initializes them, and only that can fail.
AcquireLibraries(system, succeeds) ==
  /\ references > 0 => succeeds
  /\ initialized' = IF succeeds THEN initialized \cup {system} ELSE initialized
  /\ references' = IF succeeds THEN references + 1 ELSE references
  /\ libraries' = (libraries \/ succeeds)

\* Mutant: any system's end frees the libraries.
ReleaseLibraries_AtAnyCount(system) ==
  /\ initialized' = initialized \ {system}
  /\ references' = references - 1
  /\ libraries' = FALSE

ReleaseLibraries(system) ==
  /\ initialized' = initialized \ {system}
  /\ references' = references - 1
  /\ libraries' = IF references = 1 THEN FALSE ELSE libraries

\* A discovery, or the system of another session, comes and goes at any time.
OtherSystem ==
  /\ \E s \in Others :
       \/ s \notin initialized /\ \E succeeds \in BOOLEAN : AcquireLibraries(s, succeeds)
       \/ s \in initialized /\ ReleaseLibraries(s)
  /\ UNCHANGED <<surface, objects, requests, board, threads, parameter>>

-----------------------------------------------------------------------------
\* What a status makes the registered callbacks do: those that only test it
\* and return are left out.
Notified(status) ==
  registered \cap (CASE status = "connected" -> Observers
                     [] status = "grabbing"  -> {"controller", "widget"}
                     [] OTHER                -> {"widget"})

\* notifyStatus copies the registry under its mutex and calls the copies after.
Notify(t, status) == calls' = [calls EXCEPT ![t] = Notified(status)]

Silent(t) == calls[t] = {} /\ body[t] = "none"

Enter(t, step) == body' = [body EXCEPT ![t] = step]

CallNext(t) ==
  /\ body[t] = "none"
  /\ \E c \in calls[t] :
       /\ calls' = [calls EXCEPT ![t] = @ \ {c}]
       /\ Enter(t, c)
  /\ UNCHANGED <<surface, objects, requests, board, at, kind, parameter, library>>

ControllerReturns(t) ==
  body[t] = "controller" /\ Enter(t, "none")

\* readConnectedName asks the Framegrabber under the title's mutex, if active.
ReadConnectedName(t) ==
  /\ body[t] = "session"
  /\ Enter(t, IF titleActive THEN "publish" ELSE "none")

\* publish copies the host's callback under the mutex, if still active.
Publish(t) ==
  /\ body[t] = "publish"
  /\ Enter(t, IF titleActive THEN "host" ELSE "none")

HostReturns(t) ==
  body[t] = "host" /\ Enter(t, "none")

\* The widget's callback tests its QPointer, then posts to the widget.
TestGuard(t) ==
  /\ body[t] = "widget"
  /\ Enter(t, IF "widget" \in alive THEN "post" ELSE "none")

Post(t) ==
  body[t] = "post" /\ Enter(t, "none")

InCallback(t) ==
  /\ \/ ControllerReturns(t) \/ ReadConnectedName(t) \/ Publish(t)
     \/ HostReturns(t) \/ TestGuard(t) \/ Post(t)
  /\ UNCHANGED <<surface, objects, requests, board, at, kind, calls, parameter, library>>

-----------------------------------------------------------------------------
\* The two workers: the widget's operation thread and the controller's _work.

Go(t, step) == at' = [at EXCEPT ![t] = step]

Begin(t, k) == Go(t, "begin") /\ kind' = [kind EXCEPT ![t] = k]

Rest(t) == Go(t, "idle") /\ kind' = [kind EXCEPT ![t] = "other"]

Stopped == dma \in {"none", "exited"}

\* An operation without effect on what is modelled: parameters, cameras, files.
PerformOther(t) ==
  /\ at[t] = "begin" /\ kind[t] = "other"
  /\ Go(t, "ended")
  /\ UNCHANGED <<board, calls, busy>>

\* loadApplet refuses an unknown applet or board, and while an acquisition is on.
LoadRefused(t) ==
  /\ at[t] = "begin" /\ kind[t] = "load" /\ lifecycle = "free"
  /\ Go(t, "ended")
  /\ UNCHANGED <<board, calls, busy>>

\* Load, close and grab stop and join what is left of an earlier run, under the
\* lock.  A grab that finds a run on does nothing.
LockAndStop(t) ==
  /\ at[t] = "begin" /\ kind[t] \in {"load", "close", "single"}
  /\ lifecycle = "free"
  /\ kind[t] # "close" => ~running
  /\ lifecycle' = t /\ running' = FALSE
  /\ Go(t, "joining")
  /\ UNCHANGED <<opened, dma, calls, busy>>

GrabSkipped(t) ==
  /\ at[t] = "begin" /\ kind[t] = "single" /\ running
  /\ Go(t, "waiting")
  /\ UNCHANGED <<board, calls, busy>>

\* The applet that was open is released, and that is told ...
JoinedToLoad(t) ==
  /\ at[t] = "joining" /\ kind[t] = "load" /\ Stopped
  /\ dma' = "none" /\ opened' = FALSE
  /\ calls' = [calls EXCEPT ![t] = IF opened THEN Notified("released") ELSE {}]
  /\ Go(t, "loading")
  /\ UNCHANGED <<lifecycle, running, busy>>

\* ... before the new applet, or the old one again, or none is opened.
AppletLoaded(t) ==
  /\ at[t] = "loading" /\ Silent(t)
  /\ opened' \in BOOLEAN
  /\ calls' = [calls EXCEPT ![t] = IF opened' THEN Notified("connected") ELSE {}]
  /\ Go(t, "telling")
  /\ UNCHANGED <<lifecycle, running, dma, busy>>

JoinedToClose(t) ==
  /\ at[t] = "joining" /\ kind[t] = "close" /\ Stopped
  /\ dma' = "none"
  /\ opened' = FALSE
  /\ calls' = [calls EXCEPT ![t] = IF opened THEN Notified("released") ELSE {}]
  /\ Go(t, "telling")
  /\ UNCHANGED <<lifecycle, running, busy>>

JoinedToGrab(t) ==
  /\ at[t] = "joining" /\ kind[t] = "single" /\ Stopped
  /\ dma' = IF opened THEN "loop" ELSE "none"
  /\ running' = opened
  /\ calls' = [calls EXCEPT ![t] = IF opened THEN Notified("grabbing") ELSE {}]
  /\ Go(t, "telling")
  /\ UNCHANGED <<lifecycle, opened, busy>>

\* The lock is released when every callback has returned.
Told(t) ==
  /\ at[t] = "telling" /\ Silent(t)
  /\ lifecycle' = "free"
  /\ Go(t, IF kind[t] = "single" THEN "waiting" ELSE "ended")
  /\ UNCHANGED <<opened, running, dma, calls, busy>>

SingleDone(t) ==
  /\ at[t] = "waiting" /\ ~running
  /\ Go(t, "ended")
  /\ UNCHANGED <<board, calls, busy>>

\* After kSingleAcquisitionTimeout.
SingleTimesOut(t) ==
  /\ at[t] = "waiting" /\ running /\ lifecycle = "free"
  /\ lifecycle' = t /\ running' = FALSE
  /\ Go(t, "stopping")
  /\ UNCHANGED <<opened, dma, calls, busy>>

SingleStopped(t) ==
  /\ at[t] = "stopping" /\ Stopped
  /\ dma' = "none" /\ lifecycle' = "free"
  /\ Go(t, "ended")
  /\ UNCHANGED <<opened, running, calls, busy>>

EndControl(t) ==
  /\ at[t] = "ended"
  /\ busy' = FALSE
  /\ Notify(t, "control")
  /\ Go(t, "announcing")
  /\ UNCHANGED board

\* Mutant: a path that returns without a completion.
ControlEnded_Undelivered(t) ==
  /\ at[t] = "announcing" /\ Silent(t)
  /\ \E next \in IF t = "work" THEN {"deliver", "idle"} ELSE {"finished"} : Go(t, next)
  /\ UNCHANGED <<board, calls, busy>>

\* The widget's thread ends here; the controller's has a completion to call.
ControlEnded(t) ==
  /\ at[t] = "announcing" /\ Silent(t)
  /\ Go(t, IF t = "work" THEN "deliver" ELSE "finished")
  /\ UNCHANGED <<board, calls, busy>>

WorkerStep(t) ==
  /\ \/ PerformOther(t) \/ LoadRefused(t) \/ LockAndStop(t) \/ GrabSkipped(t)
     \/ JoinedToLoad(t) \/ AppletLoaded(t) \/ JoinedToClose(t) \/ JoinedToGrab(t) \/ Told(t)
     \/ SingleDone(t) \/ SingleTimesOut(t) \/ SingleStopped(t)
     \/ EndControl(t) \/ ControlEnded(t)
  /\ UNCHANGED <<surface, objects, accepted, delivered, kind, body, parameter, library>>

\* The result is copied from the Framegrabber, and the controller's completion called.
Deliver ==
  /\ at["work"] = "deliver"
  /\ delivered' = delivered + 1
  /\ Rest("work")
  /\ UNCHANGED <<surface, objects, busy, accepted, board, calls, body, parameter, library>>

-----------------------------------------------------------------------------
\* The DMA worker.  Without a lease of the stream's gate, nobody answers ready().
TakeFrame ==
  /\ dma = "loop" /\ running /\ accepting
  /\ dma' = "frame"
  /\ UNCHANGED <<running, calls>>

FrameReturned ==
  /\ dma = "frame"
  /\ dma' = "loop"
  /\ UNCHANGED <<running, calls>>

\* The loop ends when it is told to, after its last frame, or on an error.
LoopEnds ==
  /\ dma = "loop"
  /\ dma' = "ending" /\ running' = FALSE
  /\ Notify("dma", "grabbing")

DmaExits ==
  /\ dma = "ending" /\ Silent("dma")
  /\ dma' = "exited"
  /\ UNCHANGED <<running, calls>>

DmaStep ==
  /\ TakeFrame \/ FrameReturned \/ LoopEnds \/ DmaExits
  /\ UNCHANGED <<surface, objects, requests, lifecycle, opened, at, kind, body, parameter,
                 library>>

\* A parameter thread returns; its finished() finds nothing to do once shut down.
WriteReturns ==
  /\ parameter # "idle"
  /\ parameter' = "idle"
  /\ UNCHANGED <<surface, objects, requests, board, threads, library>>

-----------------------------------------------------------------------------
\* The GUI thread, between two events.

CreateSession ==
  /\ gui = "idle" /\ alive = {}
  /\ \E succeeds \in BOOLEAN :
       /\ AcquireLibraries(Own, succeeds)
       /\ alive' = IF succeeds THEN {"framegrabber", "controller", "session"} ELSE {}
       /\ registered' = IF succeeds THEN {"controller", "session"} ELSE {}
       /\ titleActive' = succeeds /\ accepting' = succeeds
  /\ accepted' = 0 /\ delivered' = 0
  /\ UNCHANGED <<surface, shuttingDown, busy, board, threads, parameter>>

CreateDockWidgets ==
  /\ gui = "idle" /\ "session" \in alive /\ "widget" \notin alive
  /\ alive' = alive \cup {"widget"}
  /\ registered' = registered \cup {"widget"}
  /\ shuttingDown' = FALSE
  /\ UNCHANGED <<surface, titleActive, accepting, requests, board, threads, parameter,
                 library>>

StartControlOperation ==
  /\ gui = "idle" /\ "widget" \in alive /\ ~shuttingDown
  /\ at["operation"] = "idle" /\ ~busy
  /\ busy' = TRUE
  /\ \E k \in Kinds \ {"single"} : Begin("operation", k)
  /\ UNCHANGED <<surface, objects, accepted, delivered, board, calls, body, parameter,
                 library>>

\* QThread::finished of the operation thread.
HandleFinished ==
  /\ gui = "idle" /\ at["operation"] = "finished"
  /\ Rest("operation")
  /\ UNCHANGED <<surface, objects, requests, board, calls, body, parameter, library>>

\* runAsyncWrite asks neither for the gate nor for _shuttingDown.
RunAsyncWrite ==
  /\ gui = "idle" /\ "widget" \in alive /\ parameter = "idle"
  /\ parameter' = IF shuttingDown THEN "late" ELSE "writing"
  /\ UNCHANGED <<surface, objects, requests, board, threads, library>>

AdmitControl ==
  /\ gui = "idle" /\ "controller" \in alive
  /\ at["work"] = "idle" /\ ~busy /\ accepted < MaxRequests
  /\ \E k \in Kinds :
       /\ k \in {"close", "single"} => opened
       /\ k # "close" => ~running
       /\ Begin("work", k)
  /\ busy' = TRUE /\ accepted' = accepted + 1
  /\ UNCHANGED <<surface, objects, delivered, board, calls, body, parameter, library>>

\* Live on: grab, joining what is left of the run before.
StartLive ==
  /\ gui = "idle" /\ "controller" \in alive
  /\ ~running /\ lifecycle = "free"
  /\ lifecycle' = "gui" /\ gui' = "joinToGrab"
  /\ UNCHANGED <<closing, objects, requests, opened, running, dma, threads, parameter,
                 library>>

LiveStarted ==
  /\ gui = "joinToGrab" /\ Stopped
  /\ dma' = IF opened THEN "loop" ELSE "none"
  /\ running' = opened
  /\ lifecycle' = "free" /\ gui' = "idle"
  /\ UNCHANGED <<closing, objects, requests, opened, threads, parameter, library>>

\* stop(), the destructor's and the close of ~Framegrabber lock, stop and join alike.
StopAndLock(from, to) ==
  /\ gui = from /\ lifecycle = "free"
  /\ lifecycle' = "gui" /\ running' = FALSE /\ gui' = to
  /\ UNCHANGED <<closing, objects, requests, opened, dma, threads, parameter, library>>

Join(from, to) ==
  /\ gui = from /\ Stopped
  /\ dma' = "none" /\ lifecycle' = "free" /\ gui' = to
  /\ UNCHANGED <<closing, objects, requests, opened, running, threads, parameter, library>>

\* Live off of the source stops and joins, Live off of the widget only asks.
StopLive == "controller" \in alive /\ StopAndLock("idle", "joinToStop")

LiveStopped == Join("joinToStop", "idle")

RequestLiveStop ==
  /\ gui = "idle" /\ "widget" \in alive /\ ~shuttingDown /\ lifecycle = "free"
  /\ running' = FALSE
  /\ UNCHANGED <<surface, objects, requests, lifecycle, opened, dma, threads, parameter,
                 library>>

\* The host destroys the widget's dock, before the session or after it.
DropWidget ==
  /\ gui = "idle" /\ "widget" \in alive
  /\ closing' = "widget"
  /\ gui' = IF shuttingDown THEN "freeWidget" ELSE "requestStop"
  /\ UNCHANGED <<objects, requests, board, threads, parameter, library>>

\* The host destroys the session: ~FramegrabberPluginSession.
DestroySession ==
  /\ gui = "idle" /\ "session" \in alive
  /\ closing' = "session" /\ gui' = "deregisterTitle"
  /\ titleActive' = FALSE
  /\ UNCHANGED <<alive, registered, shuttingDown, accepting, requests, board, threads,
                 parameter, library>>

Use ==
  \/ CreateSession \/ CreateDockWidgets \/ StartControlOperation \/ HandleFinished
  \/ RunAsyncWrite \/ AdmitControl \/ StartLive \/ LiveStarted \/ StopLive
  \/ LiveStopped \/ RequestLiveStop \/ DropWidget \/ DestroySession

-----------------------------------------------------------------------------
\* The GUI thread, in a destructor.

DeregisterTitle ==
  /\ gui = "deregisterTitle"
  /\ registered' = registered \ {"session"}
  /\ gui' = IF "widget" \in alive THEN "requestStop" ELSE "waitWork"
  /\ UNCHANGED <<closing, alive, titleActive, shuttingDown, accepting, requests, board,
                 threads, parameter, library>>

\* prepareForShutdown
RequestStop ==
  /\ gui = "requestStop" /\ lifecycle = "free"
  /\ shuttingDown' = TRUE /\ running' = FALSE
  /\ gui' = "waitOperation"
  /\ UNCHANGED <<closing, alive, registered, titleActive, accepting, requests, lifecycle,
                 opened, dma, threads, parameter, library>>

\* Mutant: waits for the finished handler, which the same thread must run.
WaitOperation_Handled ==
  /\ gui = "waitOperation" /\ at["operation"] = "idle"
  /\ gui' = "waitParameters"
  /\ UNCHANGED <<closing, objects, requests, board, threads, parameter, library>>

WaitOperation ==
  /\ gui = "waitOperation" /\ at["operation"] \in {"idle", "finished"}
  /\ Rest("operation")
  /\ gui' = "waitParameters"
  /\ UNCHANGED <<closing, objects, requests, board, calls, body, parameter, library>>

WaitParameters ==
  /\ gui = "waitParameters" /\ parameter = "idle"
  /\ gui' = "deregisterWidget"
  /\ UNCHANGED <<closing, objects, requests, board, threads, parameter, library>>

DeregisterWidget ==
  /\ gui = "deregisterWidget"
  /\ registered' = registered \ {"widget"}
  /\ gui' = IF closing = "widget" THEN "freeWidget" ELSE "waitWork"
  /\ UNCHANGED <<closing, alive, titleActive, shuttingDown, accepting, requests, board,
                 threads, parameter, library>>

FreeWidget ==
  /\ gui = "freeWidget"
  /\ alive' = alive \ {"widget"}
  /\ gui' = "idle" /\ closing' = "none"
  /\ UNCHANGED <<registered, titleActive, shuttingDown, accepting, requests, board,
                 threads, parameter, library>>

\* Mutant: the controller does not wait for its worker.
WaitWork_Skipped ==
  /\ gui = "waitWork"
  /\ gui' = "stopController"
  /\ UNCHANGED <<closing, objects, requests, board, threads, parameter, library>>

\* ~FramegrabberSourceController
WaitWork ==
  /\ gui = "waitWork" /\ at["work"] = "idle"
  /\ gui' = "stopController"
  /\ UNCHANGED <<closing, objects, requests, board, threads, parameter, library>>

StopController == StopAndLock("stopController", "joinController")

JoinController == Join("joinController", "closeStream")

CloseStream ==
  /\ gui = "closeStream"
  /\ accepting' = FALSE /\ gui' = "drain"
  /\ UNCHANGED <<closing, alive, registered, titleActive, shuttingDown, requests, board,
                 threads, parameter, library>>

Drain ==
  /\ gui = "drain" /\ dma # "frame"
  /\ registered' = registered \ {"controller"}
  /\ gui' = "freeController"
  /\ UNCHANGED <<closing, alive, titleActive, shuttingDown, accepting, requests, board,
                 threads, parameter, library>>

FreeController ==
  /\ gui = "freeController"
  /\ alive' = alive \ {"controller"}
  /\ gui' = "closeBoard"
  /\ UNCHANGED <<closing, registered, titleActive, shuttingDown, accepting, requests,
                 board, threads, parameter, library>>

\* removeFramegrabber: ~Framegrabber closes, and clears what is still registered.
CloseBoard == StopAndLock("closeBoard", "releaseBoard")

ReleaseBoard ==
  /\ gui = "releaseBoard" /\ Stopped
  /\ dma' = "none" /\ opened' = FALSE /\ lifecycle' = "free"
  /\ registered' = {}
  /\ alive' = alive \ {"framegrabber"}
  /\ gui' = "freeSystem"
  /\ UNCHANGED <<closing, titleActive, shuttingDown, accepting, requests, running,
                 threads, parameter, library>>

\* ~FramegrabberSystem, the last member of the session to go.
FreeSystem ==
  /\ gui = "freeSystem"
  /\ ReleaseLibraries(Own)
  /\ alive' = alive \ {"session"}
  /\ gui' = "idle" /\ closing' = "none"
  /\ UNCHANGED <<registered, titleActive, shuttingDown, accepting, requests, board,
                 threads, parameter>>

Teardown ==
  \/ DeregisterTitle \/ RequestStop \/ WaitOperation \/ WaitParameters
  \/ DeregisterWidget \/ FreeWidget \/ WaitWork \/ StopController \/ JoinController
  \/ CloseStream \/ Drain \/ FreeController \/ CloseBoard \/ ReleaseBoard \/ FreeSystem

-----------------------------------------------------------------------------
Next ==
  \/ Use \/ Teardown
  \/ \E t \in Workers : WorkerStep(t)
  \/ Deliver
  \/ \E t \in Threads : CallNext(t) \/ InCallback(t)
  \/ DmaStep \/ WriteReturns \/ OtherSystem

Spec == Init /\ [][Next]_vars

\* Threads are scheduled, callbacks and SDK calls return, a frame's consumer does,
\* and Single keeps its time-out.  No run has to end of its own accord, and the
\* host has to do nothing.
Fairness ==
  /\ WF_vars(Teardown) /\ WF_vars(LiveStarted) /\ WF_vars(LiveStopped)
  /\ \A t \in Workers : WF_vars(WorkerStep(t))
  /\ WF_vars(Deliver)
  /\ \A t \in Threads : WF_vars(CallNext(t) \/ InCallback(t))
  /\ WF_vars(~running /\ DmaStep) /\ WF_vars(FrameReturned /\ DmaStep)
  /\ WF_vars(WriteReturns)

FairSpec == Spec /\ Fairness

-----------------------------------------------------------------------------
\* The objects a thread relies on for what it was started for ...
WorkUses(t) ==
  IF t \in Workers
    THEN IF at[t] \in {"idle", "finished"} THEN {}
         ELSE {"framegrabber"} \cup (IF t = "operation" THEN {"widget"} ELSE {"controller"})
    ELSE IF dma \in {"none", "exited"} THEN {}
         ELSE {"framegrabber"} \cup (IF dma = "frame" THEN {"controller"} ELSE {})

\* ... and in the status callback it is in: the title asks the Framegrabber under its
\* mutex, and the widget's callback posts to the widget.
CallbackUses(t) ==
  CASE body[t] = "controller" -> {"controller"}
    [] body[t] = "session"    -> IF titleActive THEN {"framegrabber"} ELSE {}
    [] body[t] = "host"       -> {"session"}
    [] body[t] = "post"       -> {"widget"}
    [] OTHER                  -> {}

\* The widget forgets the Framegrabber when it is shut down: a late write asks only it.
WriteUses ==
  CASE parameter = "writing" -> {"framegrabber", "widget"}
    [] parameter = "late"    -> {"widget"}
    [] OTHER                 -> {}

\* Whatever the order in which operations, tool calls, runs and the callbacks they
\* copied are under way when the host destroys the widget or the session: no thread is
\* in a step that uses the Framegrabber, the controller or the session after its
\* destruction - no operation, no work, no run with its frames, no status callback -
\* and the widget outlives its operation and the parameter writes begun before it was
\* shut down (FramegrabberPlugin.cpp:127, FramegrabberSourceController.cpp:183,
\* QFramegrabberWidget.cpp:238).  It does not say so of the widget under its status
\* callback and under a later write: see WidgetOutlivesItsUsers.
SessionOutlivesItsUsers ==
  /\ \A t \in Threads : WorkUses(t) \cup (CallbackUses(t) \ {"widget"}) \subseteq alive
  /\ parameter = "writing" => WriteUses \subseteq alive

\* "Board handles must be released before this system drops its library
\* reference" (FramegrabberSystem.cpp:394): while a board is open or a worker
\* transfers, the libraries are initialized, whichever other systems come, go or
\* fail to initialize; the count is that of the systems that were initialized.
LibrariesHeld ==
  /\ (opened \/ dma # "none") => libraries
  /\ references = Cardinality(initialized)
  /\ libraries <=> references > 0

\* "completions run on the worker, exactly once, before destruction completes"
\* (FramegrabberSourceController.h:29): no completion is called twice, and none
\* is owed when the worker is free or the controller is gone.
CompletedBeforeGone ==
  /\ accepted = delivered + (IF at["work"] = "idle" THEN 0 ELSE 1)
  /\ "controller" \notin alive => accepted = delivered

\* A session that is being destroyed is gone in the end, whatever was running:
\* none of the destructors' waits is for something that waits for it.
DestructionEnds == closing = "session" ~> closing = "none"

\* Not stated by a run, and not true: a status callback that found the widget's guard
\* set may post when the widget is gone (QFramegrabberWidget.cpp:473), and a write begun
\* after prepareForShutdown is waited for by nobody (QFramegrabberWidget.h:200).
WidgetOutlivesItsUsers ==
  (\A t \in Threads : CallbackUses(t) \subseteq alive) /\ WriteUses \subseteq alive
=============================================================================
