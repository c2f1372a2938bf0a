-------------------------- MODULE ControlGateProofs --------------------------
(***************************************************************************)
(* Proofs about ControlGate for any number of requests and connections.    *)
(***************************************************************************)
EXTENDS ControlGate, TLAPS

-----------------------------------------------------------------------------
(* The inductive invariant                                                 *)

Steps == {"connection", "grabbing", "begin", "announce"}
Operating == {"run", "waitSingle", "timedOut", "end"}

\* While the GUI thread admits, it is in no other handler: the gate it found free
\* stays free until it takes it, and the worker it found idle stays idle.
AdmissionInv ==
  /\ gui \in Steps => work = "idle"
  /\ gui \in Steps \ {"announce"} => ~busy
  /\ gui = "widgetAnnounce" => widgetWork = "idle" /\ ~operationThread

\* A surface that operates knows what it was asked for.
RequestInv ==
  /\ gui \in Steps \/ work \in Operating => request.op # "none"
  /\ gui = "widgetAnnounce" \/ widgetWork = "run" => widgetOp # "none"

\* From the check of the connection to the operation on it, nobody replaces it.
ConnectionInv == gui \in Steps \ {"connection"} \/ work = "run" => ConnectionAgrees(request)

\* The widget's thread lives from its start to the one finished event it queues.
Finished(i) == i \in 1 .. Len(events) /\ events[i] = "finished"

ThreadInv ==
  /\ widgetWork # "idle" => operationThread
  /\ operationThread => widgetWork # "idle" \/ \E i \in 1 .. Len(events) : Finished(i)
  /\ \A i \in 1 .. Len(events) :
       Finished(i) => /\ operationThread /\ widgetWork = "idle"
                      /\ \A j \in 1 .. Len(events) : Finished(j) => i = j

\* Someone will still tell the widget that the gate is free: the controller's worker,
\* or the widget's own thread, whose end clears what the widget believes.
WillTell == work \in Operating \cup {"announce"} \/ widgetWork # "idle"

BeliefInv ==
  /\ events = <<>> /\ external => WillTell
  /\ events # <<>> /\ events[Len(events)] = "on" => WillTell

IInv ==
  /\ TypeOK /\ GateExclusive /\ AdmissionInv /\ RequestInv /\ ConnectionInv
  /\ ThreadInv /\ BeliefInv

-----------------------------------------------------------------------------
(* TypeOK in parts: the flags, the device, the queue and the rest          *)

Flags == busy \in BOOLEAN /\ operationThread \in BOOLEAN /\ external \in BOOLEAN

Device ==
  /\ generation \in Nat /\ connection \in {0, generation}
  /\ acquiring \in {"off", "live", "single"} /\ (acquiring # "off" => connection # 0)

Queue == events \in Seq({"on", "off", "finished"})

Places ==
  /\ gui \in {"idle", "connection", "grabbing", "begin", "announce", "widgetAnnounce"}
  /\ request \in [op : ControllerOps \cup {"none"}, connectionId : Nat]
  /\ work \in {"idle", "run", "waitSingle", "timedOut", "end", "announce", "deliver"}
  /\ widgetWork \in {"idle", "run", "end", "announce", "finish"}
  /\ widgetOp \in WidgetOps \cup {"none"}
  /\ requests \in 0 .. MaxRequests

\* Each device operation is one critical section and leaves the device whole.
LEMMA OperationsKeepDevice ==
  ASSUME Device, NEW by \in {"live", "single"},
         Load \/ Close \/ Grab(by) \/ Stop \/ UNCHANGED device
  PROVE  Device'
<1> USE DEF Device, device
<1>1. CASE Load
  BY <1>1 DEF Load
<1>2. CASE Close \/ Stop \/ Grab(by)
  BY <1>2 DEF Close, Stop, Grab
<1>3. CASE UNCHANGED device
  BY <1>3
<1> QED
  BY <1>1, <1>2, <1>3

\* Only the device operations change the device.
LEMMA DeviceKept ==
  ASSUME TypeOK, RequestInv, Next
  PROVE  Device'
<1>1. Device
  BY DEF TypeOK, Device
<1>2. CASE Admit \/ WidgetBegins \/ GuiGoesOn
  <2>1. UNCHANGED device
    BY <1>2 DEF Admit, WidgetBegins, GuiGoesOn, CheckConnection, CheckGrabbing,
       AdmitBegins, AdmitAnnounces, WidgetAnnounces, HandleControlStatus, HandleFinished
  <2> QED
    BY <1>1, <2>1, OperationsKeepDevice
<1>3. CASE Worker
  <2>1. Load \/ Close \/ Grab("single") \/ Stop \/ UNCHANGED device
    BY <1>3 DEF Worker, WorkerActs, SingleGrabs, SingleDone, SingleTimesOut, SingleStops,
       WorkerEnds, WorkerAnnounces, WorkerDelivers, TypeOK, RequestInv, ControllerOps,
       Operating
  <2> QED
    BY <1>1, <2>1, OperationsKeepDevice
<1>4. CASE WidgetThread
  <2>1. Load \/ Close \/ UNCHANGED device
    BY <1>4 DEF WidgetThread, WidgetActs, WidgetEnds, WidgetEndAnnounced, WidgetFinishes,
       TypeOK, RequestInv, WidgetOps
  <2> QED
    BY <1>1, <2>1, OperationsKeepDevice
<1>5. CASE StartLive \/ StopLive \/ RunEnds
  <2>1. Grab("live") \/ Stop
    BY <1>5 DEF StartLive, StopLive, RunEnds
  <2> QED
    BY <1>1, <2>1, OperationsKeepDevice
<1> QED
  BY <1>2, <1>3, <1>4, <1>5 DEF Next

\* Every assignment to a flag is a Boolean.
LEMMA FlagsKept ==
  ASSUME Flags, Next
  PROVE  Flags'
<1> USE DEF Flags, device, admitted, widget, Refuse
<1>1. CASE Admit \/ WidgetBegins
  BY <1>1 DEF Admit, WidgetBegins
<1>2. CASE GuiGoesOn
  BY <1>2 DEF GuiGoesOn, CheckConnection, CheckGrabbing, AdmitBegins, AdmitAnnounces,
     WidgetAnnounces, HandleControlStatus, HandleFinished
<1>3. CASE Worker
  BY <1>3 DEF Worker, WorkerActs, SingleGrabs, SingleDone, SingleTimesOut, SingleStops,
     WorkerEnds, WorkerAnnounces, WorkerDelivers
<1>4. CASE WidgetThread
  BY <1>4 DEF WidgetThread, WidgetActs, WidgetEnds, WidgetEndAnnounced, WidgetFinishes
<1>5. CASE StartLive \/ StopLive \/ RunEnds
  BY <1>5 DEF StartLive, StopLive, RunEnds
<1> QED
  BY <1>1, <1>2, <1>3, <1>4, <1>5 DEF Next

\* Events are appended at the end and taken from the front.
LEMMA QueueKept ==
  ASSUME TypeOK, Next
  PROVE  Queue'
<1> USE DEF Queue, TypeOK
<1>1. CASE \E e \in {"on", "off", "finished"} : events' = Append(events, e)
  BY <1>1
<1>2. CASE events # <<>> /\ events' = Tail(events)
  BY <1>2
<1>3. CASE UNCHANGED events
  BY <1>3
<1>4. CASE Admit \/ WidgetBegins \/ StartLive \/ StopLive \/ RunEnds
  BY <1>3, <1>4 DEF Admit, WidgetBegins, StartLive, StopLive, RunEnds
<1>5. CASE GuiGoesOn
  BY <1>1, <1>2, <1>3, <1>5
     DEF GuiGoesOn, CheckConnection, CheckGrabbing, AdmitBegins, AdmitAnnounces,
         WidgetAnnounces, HandleControlStatus, HandleFinished
<1>6. CASE Worker \/ WidgetThread
  BY <1>1, <1>3, <1>6
     DEF Worker, WorkerActs, SingleGrabs, SingleDone, SingleTimesOut, SingleStops,
         WorkerEnds, WorkerAnnounces, WorkerDelivers,
         WidgetThread, WidgetActs, WidgetEnds, WidgetEndAnnounced, WidgetFinishes
<1> QED
  BY <1>4, <1>5, <1>6 DEF Next

\* Threads are where their steps put them.
LEMMA PlacesKept ==
  ASSUME TypeOK, Next
  PROVE  Places'
<1> USE RequestBound
    DEF Places, TypeOK, admitted, widget, Refuse, NoRequest,
        ControllerOps, WidgetOps
<1>1. CASE Admit \/ WidgetBegins
  BY <1>1 DEF Admit, WidgetBegins
<1>2. CASE GuiGoesOn
  BY <1>2 DEF GuiGoesOn, CheckConnection, CheckGrabbing, AdmitBegins, AdmitAnnounces,
     WidgetAnnounces, HandleControlStatus, HandleFinished
<1>3. CASE Worker
  <2>1. CASE WorkerActs
    BY <2>1 DEF WorkerActs
  <2>2. CASE SingleGrabs
    BY <2>2 DEF SingleGrabs
  <2>3. CASE SingleDone
    BY <2>3 DEF SingleDone
  <2>4. CASE SingleTimesOut
    BY <2>4 DEF SingleTimesOut
  <2>5. CASE SingleStops
    BY <2>5 DEF SingleStops
  <2>6. CASE WorkerEnds
    BY <2>6 DEF WorkerEnds
  <2>7. CASE WorkerAnnounces
    BY <2>7 DEF WorkerAnnounces
  <2>8. CASE WorkerDelivers
    BY <2>8 DEF WorkerDelivers
  <2> QED
    BY <1>3, <2>1, <2>2, <2>3, <2>4, <2>5, <2>6, <2>7, <2>8 DEF Worker
<1>4. CASE WidgetThread
  <2>1. CASE WidgetActs
    BY <2>1 DEF WidgetActs
  <2>2. CASE WidgetEnds
    BY <2>2 DEF WidgetEnds
  <2>3. CASE WidgetEndAnnounced
    BY <2>3 DEF WidgetEndAnnounced
  <2>4. CASE WidgetFinishes
    BY <2>4 DEF WidgetFinishes
  <2> QED
    BY <1>4, <2>1, <2>2, <2>3, <2>4 DEF WidgetThread
<1>5. CASE StartLive \/ StopLive \/ RunEnds
  BY <1>5 DEF StartLive, StopLive, RunEnds
<1> QED
  BY <1>1, <1>2, <1>3, <1>4, <1>5 DEF Next

-----------------------------------------------------------------------------
(* The gate and what it protects                                           *)

\* Whoever takes the gate finds it free, and only its holder gives it back.
LEMMA GateKept ==
  ASSUME TypeOK, GateExclusive, AdmissionInv, ThreadInv, Next
  PROVE  GateExclusive'
<1> USE DEF TypeOK, GateExclusive, AdmissionInv, ThreadInv, ControllerHolds,
        WidgetHolds, Steps, Operating, Refuse, admitted, widget
<1>1. CASE Admit \/ WidgetBegins
  BY <1>1 DEF Admit, WidgetBegins
<1>2. CASE GuiGoesOn
  BY <1>2 DEF GuiGoesOn, CheckConnection, CheckGrabbing, AdmitBegins, AdmitAnnounces,
     WidgetAnnounces, HandleControlStatus, HandleFinished
<1>3. CASE Worker
  <2>1. CASE WorkerActs
    BY <2>1 DEF WorkerActs
  <2>2. CASE SingleGrabs
    BY <2>2 DEF SingleGrabs
  <2>3. CASE SingleDone
    BY <2>3 DEF SingleDone
  <2>4. CASE SingleTimesOut
    BY <2>4 DEF SingleTimesOut
  <2>5. CASE SingleStops
    BY <2>5 DEF SingleStops
  <2>6. CASE WorkerEnds
    BY <2>6 DEF WorkerEnds
  <2>7. CASE WorkerAnnounces
    BY <2>7 DEF WorkerAnnounces
  <2>8. CASE WorkerDelivers
    BY <2>8 DEF WorkerDelivers
  <2> QED
    BY <1>3, <2>1, <2>2, <2>3, <2>4, <2>5, <2>6, <2>7, <2>8 DEF Worker
<1>4. CASE WidgetThread
  <2>1. CASE WidgetActs
    BY <2>1 DEF WidgetActs
  <2>2. CASE WidgetEnds
    BY <2>2 DEF WidgetEnds
  <2>3. CASE WidgetEndAnnounced
    BY <2>3 DEF WidgetEndAnnounced
  <2>4. CASE WidgetFinishes
    BY <2>4 DEF WidgetFinishes
  <2> QED
    BY <1>4, <2>1, <2>2, <2>3, <2>4 DEF WidgetThread
<1>5. CASE StartLive \/ StopLive \/ RunEnds
  BY <1>5 DEF StartLive, StopLive, RunEnds
<1> QED
  BY <1>1, <1>2, <1>3, <1>4, <1>5 DEF Next

\* While one handler admits, no other handler of the GUI thread runs, and neither the
\* worker nor the widget's thread starts of itself.
LEMMA AdmissionKept ==
  ASSUME TypeOK, GateExclusive, AdmissionInv, ThreadInv, Next
  PROVE  AdmissionInv'
<1> USE DEF TypeOK, GateExclusive, AdmissionInv, ThreadInv, ControllerHolds,
        WidgetHolds, Steps, Operating, Refuse, admitted, widget
<1>1. CASE Admit \/ WidgetBegins
  BY <1>1 DEF Admit, WidgetBegins
<1>2. CASE GuiGoesOn
  BY <1>2 DEF GuiGoesOn, CheckConnection, CheckGrabbing, AdmitBegins, AdmitAnnounces,
     WidgetAnnounces, HandleControlStatus, HandleFinished
<1>3. CASE Worker
  <2>1. CASE WorkerActs
    BY <2>1 DEF WorkerActs
  <2>2. CASE SingleGrabs
    BY <2>2 DEF SingleGrabs
  <2>3. CASE SingleDone
    BY <2>3 DEF SingleDone
  <2>4. CASE SingleTimesOut
    BY <2>4 DEF SingleTimesOut
  <2>5. CASE SingleStops
    BY <2>5 DEF SingleStops
  <2>6. CASE WorkerEnds
    BY <2>6 DEF WorkerEnds
  <2>7. CASE WorkerAnnounces
    BY <2>7 DEF WorkerAnnounces
  <2>8. CASE WorkerDelivers
    BY <2>8 DEF WorkerDelivers
  <2> QED
    BY <1>3, <2>1, <2>2, <2>3, <2>4, <2>5, <2>6, <2>7, <2>8 DEF Worker
<1>4. CASE WidgetThread
  <2>1. CASE WidgetActs
    BY <2>1 DEF WidgetActs
  <2>2. CASE WidgetEnds
    BY <2>2 DEF WidgetEnds
  <2>3. CASE WidgetEndAnnounced
    BY <2>3 DEF WidgetEndAnnounced
  <2>4. CASE WidgetFinishes
    BY <2>4 DEF WidgetFinishes
  <2> QED
    BY <1>4, <2>1, <2>2, <2>3, <2>4 DEF WidgetThread
<1>5. CASE StartLive \/ StopLive \/ RunEnds
  BY <1>5 DEF StartLive, StopLive, RunEnds
<1> QED
  BY <1>1, <1>2, <1>3, <1>4, <1>5 DEF Next

\* A request is kept until it is answered, the widget's operation until its thread ends.
LEMMA RequestKept ==
  ASSUME TypeOK, AdmissionInv, RequestInv, ThreadInv, Next
  PROVE  RequestInv'
<1> USE DEF TypeOK, AdmissionInv, RequestInv, ThreadInv, NoRequest, ControllerOps,
        WidgetOps, ControllerHolds, WidgetHolds, Steps, Operating, Refuse, admitted,
        widget
<1>1. CASE Admit \/ WidgetBegins
  BY <1>1 DEF Admit, WidgetBegins
<1>2. CASE GuiGoesOn
  BY <1>2 DEF GuiGoesOn, CheckConnection, CheckGrabbing, AdmitBegins, AdmitAnnounces,
     WidgetAnnounces, HandleControlStatus, HandleFinished
<1>3. CASE Worker
  <2>1. CASE WorkerActs
    BY <2>1 DEF WorkerActs
  <2>2. CASE SingleGrabs
    BY <2>2 DEF SingleGrabs
  <2>3. CASE SingleDone
    BY <2>3 DEF SingleDone
  <2>4. CASE SingleTimesOut
    BY <2>4 DEF SingleTimesOut
  <2>5. CASE SingleStops
    BY <2>5 DEF SingleStops
  <2>6. CASE WorkerEnds
    BY <2>6 DEF WorkerEnds
  <2>7. CASE WorkerAnnounces
    BY <2>7 DEF WorkerAnnounces
  <2>8. CASE WorkerDelivers
    BY <2>8 DEF WorkerDelivers
  <2> QED
    BY <1>3, <2>1, <2>2, <2>3, <2>4, <2>5, <2>6, <2>7, <2>8 DEF Worker
<1>4. CASE WidgetThread
  <2>1. CASE WidgetActs
    BY <2>1 DEF WidgetActs
  <2>2. CASE WidgetEnds
    BY <2>2 DEF WidgetEnds
  <2>3. CASE WidgetEndAnnounced
    BY <2>3 DEF WidgetEndAnnounced
  <2>4. CASE WidgetFinishes
    BY <2>4 DEF WidgetFinishes
  <2> QED
    BY <1>4, <2>1, <2>2, <2>3, <2>4 DEF WidgetThread
<1>5. CASE StartLive \/ StopLive \/ RunEnds
  BY <1>5 DEF StartLive, StopLive, RunEnds
<1> QED
  BY <1>1, <1>2, <1>3, <1>4, <1>5 DEF Next

\* The holder of the gate is the only one that replaces the connection.
LEMMA ConnectionKept ==
  ASSUME TypeOK, GateExclusive, AdmissionInv, ConnectionInv, Next
  PROVE  ConnectionInv'
<1> USE DEF TypeOK, GateExclusive, AdmissionInv, ConnectionInv, ConnectionAgrees,
        ControllerHolds, WidgetHolds, Steps, Operating, Refuse, admitted, widget,
        device, Load, Close, Grab, Stop
<1>1. CASE Admit \/ WidgetBegins
  BY <1>1 DEF Admit, WidgetBegins
<1>2. CASE GuiGoesOn
  BY <1>2 DEF GuiGoesOn, CheckConnection, CheckGrabbing, AdmitBegins, AdmitAnnounces,
     WidgetAnnounces, HandleControlStatus, HandleFinished
<1>3. CASE Worker
  <2>1. CASE WorkerActs
    BY <2>1 DEF WorkerActs
  <2>2. CASE SingleGrabs
    BY <2>2 DEF SingleGrabs
  <2>3. CASE SingleDone
    BY <2>3 DEF SingleDone
  <2>4. CASE SingleTimesOut
    BY <2>4 DEF SingleTimesOut
  <2>5. CASE SingleStops
    BY <2>5 DEF SingleStops
  <2>6. CASE WorkerEnds
    BY <2>6 DEF WorkerEnds
  <2>7. CASE WorkerAnnounces
    BY <2>7 DEF WorkerAnnounces
  <2>8. CASE WorkerDelivers
    BY <2>8 DEF WorkerDelivers
  <2> QED
    BY <1>3, <2>1, <2>2, <2>3, <2>4, <2>5, <2>6, <2>7, <2>8 DEF Worker
<1>4. CASE WidgetThread
  <2>1. CASE WidgetActs
    BY <2>1 DEF WidgetActs
  <2>2. CASE WidgetEnds
    BY <2>2 DEF WidgetEnds
  <2>3. CASE WidgetEndAnnounced
    BY <2>3 DEF WidgetEndAnnounced
  <2>4. CASE WidgetFinishes
    BY <2>4 DEF WidgetFinishes
  <2> QED
    BY <1>4, <2>1, <2>2, <2>3, <2>4 DEF WidgetThread
<1>5. CASE StartLive \/ StopLive \/ RunEnds
  BY <1>5 DEF StartLive, StopLive, RunEnds
<1> QED
  BY <1>1, <1>2, <1>3, <1>4, <1>5 DEF Next

\* The widget's thread queues one finished event, its last step; handling it lets the
\* next operation begin.
LEMMA ThreadKept ==
  ASSUME TypeOK, AdmissionInv, ThreadInv, Next
  PROVE  ThreadInv'
<1> USE DEF TypeOK, AdmissionInv, ThreadInv, Finished, ControllerHolds, WidgetHolds,
        Steps, Operating, Refuse, admitted, widget
<1>1. CASE Admit \/ WidgetBegins
  BY <1>1 DEF Admit, WidgetBegins
<1>2. CASE GuiGoesOn
  <2>1. CASE CheckConnection
    BY <2>1 DEF CheckConnection
  <2>2. CASE CheckGrabbing
    BY <2>2 DEF CheckGrabbing
  <2>3. CASE AdmitBegins
    BY <2>3 DEF AdmitBegins
  <2>4. CASE AdmitAnnounces
    BY <2>4 DEF AdmitAnnounces
  <2>5. CASE WidgetAnnounces
    BY <2>5 DEF WidgetAnnounces
  <2>6. CASE HandleControlStatus
    <3>1. /\ Len(events') = Len(events) - 1
          /\ \A i \in 1 .. Len(events') : events'[i] = events[i + 1] /\ i + 1 \in 1 .. Len(events)
          /\ events[1] # "finished" /\ events # <<>>
      BY <2>6 DEF HandleControlStatus
    <3>2. UNCHANGED <<operationThread, widgetWork>> /\ Len(events) \in Nat
      BY <2>6 DEF HandleControlStatus
    <3>3. \A i \in 1 .. Len(events) : Finished(i) => i - 1 \in 1 .. Len(events') /\ Finished(i - 1)'
      BY <3>1, <3>2
    <3> QED
      BY <3>1, <3>2, <3>3
  <2>7. CASE HandleFinished
    BY <2>7 DEF HandleFinished
  <2> QED
    BY <1>2, <2>1, <2>2, <2>3, <2>4, <2>5, <2>6, <2>7 DEF GuiGoesOn
<1>3. CASE Worker
  <2>1. CASE WorkerActs
    BY <2>1 DEF WorkerActs
  <2>2. CASE SingleGrabs
    BY <2>2 DEF SingleGrabs
  <2>3. CASE SingleDone
    BY <2>3 DEF SingleDone
  <2>4. CASE SingleTimesOut
    BY <2>4 DEF SingleTimesOut
  <2>5. CASE SingleStops
    BY <2>5 DEF SingleStops
  <2>6. CASE WorkerEnds
    BY <2>6 DEF WorkerEnds
  <2>7. CASE WorkerAnnounces
    BY <2>7 DEF WorkerAnnounces
  <2>8. CASE WorkerDelivers
    BY <2>8 DEF WorkerDelivers
  <2> QED
    BY <1>3, <2>1, <2>2, <2>3, <2>4, <2>5, <2>6, <2>7, <2>8 DEF Worker
<1>4. CASE WidgetThread
  <2>1. CASE WidgetActs
    BY <2>1 DEF WidgetActs
  <2>2. CASE WidgetEnds
    BY <2>2 DEF WidgetEnds
  <2>3. CASE WidgetEndAnnounced
    BY <2>3 DEF WidgetEndAnnounced
  <2>4. CASE WidgetFinishes
    BY <2>4 DEF WidgetFinishes
  <2> QED
    BY <1>4, <2>1, <2>2, <2>3, <2>4 DEF WidgetThread
<1>5. CASE StartLive \/ StopLive \/ RunEnds
  BY <1>5 DEF StartLive, StopLive, RunEnds
<1> QED
  BY <1>1, <1>2, <1>3, <1>4, <1>5 DEF Next

\* An on event is followed by the off or the finished event of the same operation.
LEMMA BeliefKept ==
  ASSUME TypeOK, GateExclusive, AdmissionInv, ThreadInv, BeliefInv, Next
  PROVE  BeliefInv'
<1> USE DEF TypeOK, GateExclusive, AdmissionInv, ThreadInv, BeliefInv, WillTell,
        Finished, ControllerHolds, WidgetHolds, Steps, Operating, Refuse, admitted,
        widget
<1>1. CASE Admit \/ WidgetBegins
  BY <1>1 DEF Admit, WidgetBegins
<1>2. CASE GuiGoesOn
  <2>1. CASE CheckConnection
    BY <2>1 DEF CheckConnection
  <2>2. CASE CheckGrabbing
    BY <2>2 DEF CheckGrabbing
  <2>3. CASE AdmitBegins
    BY <2>3 DEF AdmitBegins
  <2>4. CASE AdmitAnnounces
    BY <2>4 DEF AdmitAnnounces
  <2>5. CASE WidgetAnnounces
    BY <2>5 DEF WidgetAnnounces
  <2>6. CASE HandleControlStatus
    BY <2>6 DEF HandleControlStatus
  <2>7. CASE HandleFinished
    BY <2>7 DEF HandleFinished
  <2> QED
    BY <1>2, <2>1, <2>2, <2>3, <2>4, <2>5, <2>6, <2>7 DEF GuiGoesOn
<1>3. CASE Worker
  <2>1. CASE WorkerActs
    BY <2>1 DEF WorkerActs
  <2>2. CASE SingleGrabs
    BY <2>2 DEF SingleGrabs
  <2>3. CASE SingleDone
    BY <2>3 DEF SingleDone
  <2>4. CASE SingleTimesOut
    BY <2>4 DEF SingleTimesOut
  <2>5. CASE SingleStops
    BY <2>5 DEF SingleStops
  <2>6. CASE WorkerEnds
    BY <2>6 DEF WorkerEnds
  <2>7. CASE WorkerAnnounces
    BY <2>7 DEF WorkerAnnounces
  <2>8. CASE WorkerDelivers
    BY <2>8 DEF WorkerDelivers
  <2> QED
    BY <1>3, <2>1, <2>2, <2>3, <2>4, <2>5, <2>6, <2>7, <2>8 DEF Worker
<1>4. CASE WidgetThread
  <2>1. CASE WidgetActs
    BY <2>1 DEF WidgetActs
  <2>2. CASE WidgetEnds
    BY <2>2 DEF WidgetEnds
  <2>3. CASE WidgetEndAnnounced
    BY <2>3 DEF WidgetEndAnnounced
  <2>4. CASE WidgetFinishes
    BY <2>4 DEF WidgetFinishes
  <2> QED
    BY <1>4, <2>1, <2>2, <2>3, <2>4 DEF WidgetThread
<1>5. CASE StartLive \/ StopLive \/ RunEnds
  BY <1>5 DEF StartLive, StopLive, RunEnds
<1> QED
  BY <1>1, <1>2, <1>3, <1>4, <1>5 DEF Next

-----------------------------------------------------------------------------
(* The invariant                                                           *)

\* At first the gate is free and nothing is under way.
LEMMA Initially ==
  ASSUME Init
  PROVE  IInv
<1>1. Flags /\ Device
  BY DEF Init, Flags, Device
<1>2. Queue /\ Places
  BY RequestBound DEF Init, Queue, Places, NoRequest
<1>3. TypeOK
  BY <1>1, <1>2, Zenon DEF TypeOK, Flags, Device, Queue, Places
<1>4. GateExclusive /\ AdmissionInv /\ RequestInv /\ ConnectionInv /\ ThreadInv /\ BeliefInv
  BY DEF Init, GateExclusive, ControllerHolds, WidgetHolds, AdmissionInv, RequestInv,
         ConnectionInv, ThreadInv, BeliefInv, Finished, Steps, Operating
<1> QED
  BY <1>3, <1>4 DEF IInv

\* Every step keeps the invariant.
LEMMA Inductive ==
  ASSUME IInv, [Next]_vars
  PROVE  IInv'
<1>1. CASE Next
  <2> USE <1>1 DEF IInv
  <2>1. Flags' /\ Device' /\ Queue' /\ Places'
    <3>1. Flags
      BY DEF Flags, TypeOK
    <3> QED
      BY <3>1, FlagsKept, DeviceKept, QueueKept, PlacesKept
  <2>2. TypeOK'
    BY <2>1, Zenon DEF TypeOK, Flags, Device, Queue, Places
  <2>3. GateExclusive' /\ AdmissionInv' /\ RequestInv' /\ ConnectionInv'
    BY GateKept, AdmissionKept, RequestKept, ConnectionKept
  <2>4. ThreadInv' /\ BeliefInv'
    BY ThreadKept, BeliefKept
  <2> QED
    BY <2>2, <2>3, <2>4
<1>2. CASE UNCHANGED vars
  BY <1>2 DEF vars, device, admitted, widget, IInv, TypeOK, GateExclusive, ControllerHolds,
     WidgetHolds, AdmissionInv, RequestInv, ConnectionInv, ConnectionAgrees, ThreadInv,
     BeliefInv, WillTell, Finished
<1> QED
  BY <1>1, <1>2

\* Every state a behaviour reaches satisfies the invariant.
LEMMA Always == Spec => []IInv
BY Initially, Inductive, PTL DEF Spec

-----------------------------------------------------------------------------
(* What the gate promises                                                  *)

\* The gate, the device, both surfaces and the queue stay within their types; a run
\* is on only while a connection is open.
THEOREM TypeCorrect == Spec => []TypeOK
<1>1. IInv => TypeOK
  BY DEF IInv
<1> QED
  BY <1>1, Always, PTL

\* tryBeginControl and endControl let one surface operate at a time, and the gate is
\* busy exactly while one does.
THEOREM OneSurfaceOperates == Spec => []GateExclusive
<1>1. IInv => GateExclusive
  BY DEF IInv
<1> QED
  BY <1>1, Always, PTL

\* What admitControl checked on the GUI thread before it took the gate still holds
\* when the worker acts: the request meets the connection it named.
THEOREM NamedConnectionMet == Spec => []ActsOnNamedConnection
<1>1. IInv => ActsOnNamedConnection
  BY DEF IInv, ConnectionInv, ConnectionAgrees, ActsOnNamedConnection
<1> QED
  BY <1>1, Always, PTL

\* However notifications and operations of the two surfaces interleave, the widget
\* does not end up believing that the gate is taken.
THEOREM WidgetComesBack == Spec => []WidgetNotLeftDisabled
<1>1. ASSUME IInv, ~busy, events = <<>>, work # "announce", widgetWork = "idle"
      PROVE  ~external /\ ~operationThread
  <2>1. ~WillTell
    BY <1>1 DEF IInv, GateExclusive, ControllerHolds, WillTell, Operating
  <2>2. ~external
    BY <1>1, <2>1 DEF IInv, BeliefInv
  <2>3. ~operationThread
    BY <1>1 DEF IInv, ThreadInv, Finished
  <2> QED
    BY <2>2, <2>3
<1>2. IInv => WidgetNotLeftDisabled
  BY <1>1 DEF WidgetNotLeftDisabled
<1> QED
  BY <1>2, Always, PTL

==============================================================================
