----------------------------- MODULE ControlGate -----------------------------
(***************************************************************************)
(* The control gate of a Framegrabber and the two surfaces that take it:   *)
(* the Qt widget, whose operations run on a thread of their own            *)
(* (startControlOperation), and the source controller, whose operations    *)
(* are admitted on the GUI thread and run on one worker (admitControl).    *)
(* Both are asked on the GUI thread, which runs one handler at a time; the *)
(* gate's notifications reach the widget through the GUI's event queue.    *)
(*                                                                         *)
(* What an operation does to the device is cut down to what the gate is    *)
(* about: which connection is open (0 is none), and whether a run is on    *)
(* and who started it; ChannelLifecycle and AppletLifecycle have the rest. *)
(* A connection is numbered by connectionGeneration().                     *)
(***************************************************************************)
EXTENDS Integers, Sequences

CONSTANTS
  MaxRequests     \* bound on the operations the surfaces begin

ASSUME RequestBound == MaxRequests \in Nat

ControllerOps == {"load", "disconnect", "save", "single"}
WidgetOps == {"load", "close", "save"}

VARIABLES
  busy,            \* _controlBusy
  connection,      \* the open connection's generation, 0 when released
  generation,      \* _connectionGeneration
  acquiring,       \* "off", or who started the run: "live" or "single"
  gui,             \* the step of admitControl the GUI thread is in, or "idle"
  request,         \* the request being admitted or carried out
  work,            \* where the controller's worker is
  widgetWork,      \* where the widget's operation thread is
  widgetOp,        \* its operation
  operationThread, \* _operationThread of the widget is set
  external,        \* _externalControl of the widget
  events,          \* queued GUI events of the widget
  requests         \* how many operations have begun

device   == <<connection, generation, acquiring>>
admitted == <<gui, request>>
widget   == <<widgetWork, widgetOp, operationThread, external>>
vars     == <<busy, device, admitted, work, widget, events, requests>>

NoRequest == [op |-> "none", connectionId |-> 0]

TypeOK ==
  /\ busy \in BOOLEAN
  /\ generation \in Nat /\ connection \in {0, generation}
  /\ acquiring \in {"off", "live", "single"} /\ (acquiring # "off" => connection # 0)
  /\ gui \in {"idle", "connection", "grabbing", "begin", "announce", "widgetAnnounce"}
  /\ request \in [op : ControllerOps \cup {"none"}, connectionId : Nat]
  /\ work \in {"idle", "run", "waitSingle", "timedOut", "end", "announce", "deliver"}
  /\ widgetWork \in {"idle", "run", "end", "announce", "finish"}
  /\ widgetOp \in WidgetOps \cup {"none"}
  /\ operationThread \in BOOLEAN /\ external \in BOOLEAN
  /\ events \in Seq({"on", "off", "finished"})
  /\ requests \in 0 .. MaxRequests

Init ==
  /\ busy = FALSE
  /\ connection = 0 /\ generation = 0 /\ acquiring = "off"
  /\ gui = "idle" /\ request = NoRequest /\ work = "idle"
  /\ widgetWork = "idle" /\ widgetOp = "none"
  /\ operationThread = FALSE /\ external = FALSE
  /\ events = <<>> /\ requests = 0

-----------------------------------------------------------------------------
(* The device operations: each is one critical section of _lifecycleMutex. *)

\* Mutant: a load does not look at _isRunning and leaves the run as it is.
Load_WhileGrabbing ==
  /\ \/ generation' = generation + 1 /\ connection' = generation'
     \/ connection' = 0 /\ UNCHANGED generation
  /\ UNCHANGED acquiring

\* loadApplet, loadAppletConfiguration: refused while a run is on; otherwise a
\* new connection, which is also what restoring the old applet makes, or none.
Load ==
  \/ acquiring # "off" /\ UNCHANGED device
  \/ /\ acquiring = "off"
     /\ \/ generation' = generation + 1 /\ connection' = generation'
        \/ connection' = 0 /\ UNCHANGED generation
     /\ UNCHANGED acquiring

\* close() stops the run, too.
Close ==
  /\ connection' = 0 /\ acquiring' = "off"
  /\ UNCHANGED generation

\* grab(): nothing while a run is on or nothing is open.
Grab(by) ==
  /\ acquiring' = IF acquiring = "off" /\ connection # 0 THEN by ELSE acquiring
  /\ UNCHANGED <<connection, generation>>

Stop == acquiring' = "off" /\ UNCHANGED <<connection, generation>>

-----------------------------------------------------------------------------
(* admitControl, on the GUI thread.  A refusal ends the handler.           *)

Refuse == gui' = "idle" /\ request' = NoRequest

\* Mutant: admission does not look at the gate before it looks at the device.
Admit_Unchecked ==
  /\ gui = "idle" /\ requests < MaxRequests
  /\ work = "idle"
  /\ \E op \in ControllerOps, id \in 0 .. generation :
       request' = [op |-> op, connectionId |-> id]
  /\ gui' = "connection"
  /\ requests' = requests + 1
  /\ UNCHANGED <<busy, device, work, widget, events>>

\* The client names the connection it last saw.
Admit ==
  /\ gui = "idle" /\ requests < MaxRequests
  /\ work = "idle" /\ ~busy
  /\ \E op \in ControllerOps, id \in 0 .. generation :
       request' = [op |-> op, connectionId |-> id]
  /\ gui' = "connection"
  /\ requests' = requests + 1
  /\ UNCHANGED <<busy, device, work, widget, events>>

\* A load replaces the open connection only if it names it; the others need one.
ConnectionAgrees(r) ==
  IF connection = 0 THEN r.op = "load" ELSE r.connectionId = connection

CheckConnection ==
  /\ gui = "connection"
  /\ IF ConnectionAgrees(request) THEN gui' = "grabbing" /\ UNCHANGED request
                                  ELSE Refuse
  /\ UNCHANGED <<busy, device, work, widget, events, requests>>

CheckGrabbing ==
  /\ gui = "grabbing"
  /\ IF acquiring = "off" \/ request.op = "disconnect"
       THEN gui' = "begin" /\ UNCHANGED request
       ELSE Refuse
  /\ UNCHANGED <<busy, device, work, widget, events, requests>>

\* tryBeginControl: the flag, and then the notification.
AdmitBegins ==
  /\ gui = "begin"
  /\ IF busy THEN Refuse /\ UNCHANGED busy
             ELSE busy' = TRUE /\ gui' = "announce" /\ UNCHANGED request
  /\ UNCHANGED <<device, work, widget, events, requests>>

AdmitAnnounces ==
  /\ gui = "announce"
  /\ events' = Append(events, "on")
  /\ gui' = "idle" /\ work' = "run"
  /\ UNCHANGED <<busy, device, request, widget, requests>>

-----------------------------------------------------------------------------
(* The controller's worker                                                 *)

WorkerActs ==
  /\ work = "run" /\ request.op # "single"
  /\ CASE request.op = "load" -> Load
       [] request.op = "disconnect" -> Close
       [] request.op = "save" -> UNCHANGED device
  /\ work' = "end"
  /\ UNCHANGED <<busy, admitted, widget, events, requests>>

\* Mutant: the gate is given up while Single waits for its frame.
SingleGrabs_GateReleased ==
  /\ work = "run" /\ request.op = "single"
  /\ Grab("single")
  /\ busy' = FALSE
  /\ work' = "waitSingle"
  /\ UNCHANGED <<admitted, widget, events, requests>>

SingleGrabs ==
  /\ work = "run" /\ request.op = "single"
  /\ Grab("single")
  /\ work' = "waitSingle"
  /\ UNCHANGED <<busy, admitted, widget, events, requests>>

SingleDone ==
  /\ work = "waitSingle" /\ acquiring = "off"
  /\ work' = "end"
  /\ UNCHANGED <<busy, device, admitted, widget, events, requests>>

\* 30 s have passed and isGrabbing() still says so.
SingleTimesOut ==
  /\ work = "waitSingle" /\ acquiring # "off"
  /\ work' = "timedOut"
  /\ UNCHANGED <<busy, device, admitted, widget, events, requests>>

SingleStops ==
  /\ work = "timedOut"
  /\ Stop
  /\ work' = "end"
  /\ UNCHANGED <<busy, admitted, widget, events, requests>>

\* endControl: the flag, and then the notification.
WorkerEnds ==
  /\ work = "end"
  /\ busy' = FALSE
  /\ work' = IF busy THEN "announce" ELSE "deliver"
  /\ UNCHANGED <<device, admitted, widget, events, requests>>

WorkerAnnounces ==
  /\ work = "announce"
  /\ events' = Append(events, "off")
  /\ work' = "deliver"
  /\ UNCHANGED <<busy, device, admitted, widget, requests>>

WorkerDelivers ==
  /\ work = "deliver"
  /\ work' = "idle" /\ request' = NoRequest
  /\ UNCHANGED <<busy, device, gui, widget, events, requests>>

-----------------------------------------------------------------------------
(* The widget                                                              *)

\* startControlOperation.
WidgetBegins ==
  /\ gui = "idle" /\ requests < MaxRequests
  /\ ~operationThread /\ ~busy
  /\ busy' = TRUE
  /\ \E op \in WidgetOps : widgetOp' = op
  /\ gui' = "widgetAnnounce"
  /\ requests' = requests + 1
  /\ UNCHANGED <<device, request, work, widgetWork, operationThread, external, events>>

WidgetAnnounces ==
  /\ gui = "widgetAnnounce"
  /\ events' = Append(events, "on")
  /\ operationThread' = TRUE /\ widgetWork' = "run"
  /\ gui' = "idle"
  /\ UNCHANGED <<busy, device, request, work, widgetOp, external, requests>>

WidgetActs ==
  /\ widgetWork = "run"
  /\ CASE widgetOp = "load" -> Load
       [] widgetOp = "close" -> Close
       [] widgetOp = "save" -> UNCHANGED device
  /\ widgetWork' = "end"
  /\ UNCHANGED <<busy, admitted, work, widgetOp, operationThread, external, events, requests>>

\* Mutant: the operation thread ends without giving the gate back.
WidgetEnds_GateKept ==
  /\ widgetWork = "end"
  /\ widgetWork' = "finish"
  /\ UNCHANGED <<busy, device, admitted, work, widgetOp, operationThread, external,
                 events, requests>>

WidgetEnds ==
  /\ widgetWork = "end"
  /\ busy' = FALSE
  /\ widgetWork' = IF busy THEN "announce" ELSE "finish"
  /\ UNCHANGED <<device, admitted, work, widgetOp, operationThread, external, events, requests>>

WidgetEndAnnounced ==
  /\ widgetWork = "announce"
  /\ events' = Append(events, "off")
  /\ widgetWork' = "finish"
  /\ UNCHANGED <<busy, device, admitted, work, widgetOp, operationThread, external, requests>>

\* QThread::finished, queued to the GUI thread.
WidgetFinishes ==
  /\ widgetWork = "finish"
  /\ events' = Append(events, "finished")
  /\ widgetWork' = "idle" /\ widgetOp' = "none"
  /\ UNCHANGED <<busy, device, admitted, work, operationThread, external, requests>>

\* A ControlStatus event is ignored while the widget has an operation.
HandleControlStatus ==
  /\ gui = "idle" /\ events # <<>> /\ Head(events) \in {"on", "off"}
  /\ external' = IF operationThread THEN external ELSE Head(events) = "on"
  /\ events' = Tail(events)
  /\ UNCHANGED <<busy, device, admitted, work, widgetWork, widgetOp, operationThread, requests>>

\* Mutant: the end of the operation leaves _externalControl as it was.
HandleFinished_KeepsExternal ==
  /\ gui = "idle" /\ events # <<>> /\ Head(events) = "finished"
  /\ operationThread' = FALSE
  /\ events' = Tail(events)
  /\ UNCHANGED <<busy, device, admitted, work, widgetWork, widgetOp, external, requests>>

HandleFinished ==
  /\ gui = "idle" /\ events # <<>> /\ Head(events) = "finished"
  /\ operationThread' = FALSE /\ external' = FALSE
  /\ events' = Tail(events)
  /\ UNCHANGED <<busy, device, admitted, work, widgetWork, widgetOp, requests>>

-----------------------------------------------------------------------------
(* Live takes no gate: the host's source.start and source.stop, the Live   *)
(* button, and a run that ends of its own accord.                          *)

StartLive ==
  /\ gui = "idle" /\ acquiring = "off" /\ connection # 0
  /\ Grab("live")
  /\ UNCHANGED <<busy, admitted, work, widget, events, requests>>

StopLive ==
  /\ gui = "idle" /\ acquiring # "off"
  /\ Stop
  /\ UNCHANGED <<busy, admitted, work, widget, events, requests>>

RunEnds ==
  /\ acquiring # "off"
  /\ Stop
  /\ UNCHANGED <<busy, admitted, work, widget, events, requests>>

-----------------------------------------------------------------------------
Worker ==
  \/ WorkerActs \/ SingleGrabs \/ SingleDone \/ SingleTimesOut \/ SingleStops
  \/ WorkerEnds \/ WorkerAnnounces \/ WorkerDelivers

WidgetThread == WidgetActs \/ WidgetEnds \/ WidgetEndAnnounced \/ WidgetFinishes

\* The rest of a handler the GUI thread is in, and the events it has queued.
GuiGoesOn ==
  \/ CheckConnection \/ CheckGrabbing \/ AdmitBegins \/ AdmitAnnounces
  \/ WidgetAnnounces
  \/ HandleControlStatus \/ HandleFinished

Next ==
  \/ Admit \/ WidgetBegins \/ GuiGoesOn
  \/ Worker \/ WidgetThread
  \/ StartLive \/ StopLive \/ RunEnds

Spec == Init /\ [][Next]_vars

\* Threads that can run do; the GUI thread handles its events.
FairSpec == Spec /\ WF_vars(Worker) /\ WF_vars(WidgetThread) /\ WF_vars(GuiGoesOn)

-----------------------------------------------------------------------------
(* What the gate promises.                                                 *)

\* An operation has begun and not yet given the gate back.
ControllerHolds == gui = "announce" \/ work \in {"run", "waitSingle", "timedOut", "end"}
WidgetHolds == gui = "widgetAnnounce" \/ widgetWork \in {"run", "end"}

\* At most one surface operates, and the gate is busy exactly then.
GateExclusive ==
  /\ ~(ControllerHolds /\ WidgetHolds)
  /\ busy <=> ControllerHolds \/ WidgetHolds

\* An admitted request is carried out on the connection it named: what
\* admission checked on the GUI thread is still so when the worker acts
\* (README: a stale connectionId is reported as conflict).
ActsOnNamedConnection ==
  work = "run" => \/ connection = request.connectionId /\ connection # 0
                  \/ connection = 0 /\ request.op = "load"

\* Once the gate is free and its notifications are handled, the widget does not
\* believe that another surface holds it: its commands are not left disabled.
WidgetNotLeftDisabled ==
  ~busy /\ events = <<>> /\ work # "announce" /\ widgetWork = "idle"
    => ~external /\ ~operationThread

\* Every operation gives the gate back, Single included, whatever the board does.
GateReleased == busy ~> ~busy

\* README: "Acquisition is never stopped implicitly" by the controller's tools;
\* disconnect is documented to stop it.
NeverStoppedImplicitly ==
  [][ acquiring = "live" /\ acquiring' = "off" /\ work # work'
        => request.op = "disconnect" ]_vars

=============================================================================
