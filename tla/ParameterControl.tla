--------------------------- MODULE ParameterControl ---------------------------
(***************************************************************************)
(* The applet parameters of a Framegrabber as the source controller offers *)
(* them: reading, writing and executing one, and the inventory of all.  A  *)
(* request is admitted on the GUI thread, takes the control gate and is    *)
(* carried out on the controller's worker.  The gate keeps other gated     *)
(* operations out; it does not keep the widget from writing a parameter,   *)
(* nor Live from starting, between any two of the worker's SDK calls.      *)
(*                                                                         *)
(* An observation is cut down to a value and whether it can be written;    *)
(* limits, types and conversions only decide whether a write is refused.   *)
(* The SDK (external) may refuse a call, round a value, and change other   *)
(* parameters with the one that is written.                                *)
(***************************************************************************)
EXTENDS Integers

CONSTANTS
  Params,         \* the applet's parameters
  Commands,       \* those that are commands: they have no value
  Values,         \* the values of the others
  Unread,         \* no value
  MaxLoads,       \* bound on the applets loaded
  MaxRevisions    \* bound on the revisions issued

ASSUME ParameterAssumption ==
  /\ Commands \subseteq Params /\ Params # {} /\ Unread \notin Values
  /\ MaxLoads \in Nat /\ MaxRevisions \in Nat

VARIABLES
  generation,   \* _connectionGeneration
  opened,       \* an applet is loaded
  value,        \* the board's values
  access,       \* the parameters that can be modified during acquisition
  running,      \* _isRunning
  gate,         \* who holds the control gate: "free", "worker" or "other"
  step,         \* where the request is
  request,      \* its arguments
  subject,      \* the parameter being observed
  todo,         \* those the inventory has yet to observe
  seen,         \* the observation being made
  dispatched,   \* a write has been dispatched
  result,       \* the DeviceParameterResult
  obs,          \* _observations, by connection and parameter
  revision,     \* _revision
  wrote,        \* the SDK has accepted the request's write
  touched,      \* the widget has written since the last observation
  client        \* the observation the client remembers

board == <<generation, opened, value, access, running>>
issued == <<obs, revision>>
work == <<request, subject, todo, seen, dispatched, result>>
ghosts == <<wrote, touched>>
vars == <<board, gate, step, work, issued, ghosts, client>>

Connections == 0 .. MaxLoads
Descriptors == [value : Values \cup {Unread}, writable : BOOLEAN]
Blank == [value |-> Unread, writable |-> FALSE]
Observations == [revision : 0 .. MaxRevisions, descriptor : Descriptors]
NotObserved == [revision |-> 0, descriptor |-> Blank]
Pending == [error |-> "none", effect |-> "none", shown |-> NotObserved]

Requests == [op : {"none", "inventory", "read", "write", "execute"}, connection : Connections,
             param : Params, expected : 0 .. MaxRevisions]

AnyParam == CHOOSE p \in Params : TRUE
NoRequest == [op |-> "none", connection |-> 0, param |-> AnyParam, expected |-> 0]

BoardValues == [Params \ Commands -> Values]

TypeOK ==
  /\ generation \in Connections /\ opened \in BOOLEAN /\ running \in BOOLEAN
  /\ value \in BoardValues /\ access \subseteq Params
  /\ gate \in {"free", "worker", "other"}
  /\ step \in {"idle", "begin", "model", "access", "value", "judge", "dispatch", "written",
               "report", "end", "deliver"}
  /\ request \in Requests /\ subject \in Params /\ todo \subseteq Params
  /\ seen \in Descriptors /\ dispatched \in BOOLEAN
  /\ result \in [error : {"none", "refused", "backend"}, effect : {"none", "applied", "unknown"},
                 shown : Observations]
  /\ obs \in [Connections -> [Params -> Observations]] /\ revision \in 0 .. MaxRevisions
  /\ wrote \in BOOLEAN /\ touched \in BOOLEAN
  /\ client \in [connection : Connections, param : Params, shown : Observations]
  /\ gate = "worker" <=> step \notin {"idle", "begin", "deliver"}

Init ==
  /\ generation = 0 /\ opened = FALSE /\ running = FALSE
  /\ value \in BoardValues /\ access \in SUBSET Params
  /\ gate = "free" /\ step = "idle"
  /\ client = [connection |-> 0, param |-> AnyParam, shown |-> NotObserved]
  /\ request = NoRequest /\ subject = AnyParam
  /\ todo = {} /\ seen = Blank /\ dispatched = FALSE /\ result = Pending
  /\ obs = [c \in Connections |-> [p \in Params |-> NotObserved]] /\ revision = 0
  /\ wrote = FALSE /\ touched = FALSE

-----------------------------------------------------------------------------
(* Everybody else.  While a request is being admitted, the GUI thread does *)
(* nothing else: other surfaces go on with what they have begun.           *)

\* appletParameterWritable, of the flags the SDK reports.
Writable(p) == ~running \/ p \in access

GateTaken ==
  /\ gate = "free" /\ step # "begin" /\ gate' = "other"
  /\ UNCHANGED <<board, step, work, issued, ghosts, client>>

GateReturned ==
  /\ gate = "other" /\ gate' = "free"
  /\ UNCHANGED <<board, step, work, issued, ghosts, client>>

\* Another surface loads an applet: its parameters are others, with other values.
AppletLoaded ==
  /\ gate = "other" /\ ~running /\ generation < MaxLoads
  /\ generation' = generation + 1 /\ opened' = TRUE
  /\ value' \in BoardValues /\ access' \in SUBSET Params
  /\ UNCHANGED <<running, gate, step, work, issued, ghosts, client>>

AppletReleased ==
  /\ gate = "other" /\ opened
  /\ opened' = FALSE /\ running' = FALSE
  /\ UNCHANGED <<generation, value, access, gate, step, work, issued, ghosts, client>>

\* Live takes no gate, and neither does the end of a run.
LiveToggled ==
  /\ opened /\ running' = ~running /\ (step = "begin" => running)
  /\ UNCHANGED <<generation, opened, value, access, gate, step, work, issued, ghosts, client>>

\* The widget writes or executes a parameter on a thread of its own, without the
\* gate: the SDK may change others with it.
WidgetWrites ==
  /\ opened
  /\ value' \in BoardValues \ {value} /\ touched' = TRUE
  /\ UNCHANGED <<generation, opened, access, running, gate, step, work, issued, wrote, client>>

-----------------------------------------------------------------------------
(* Admission                                                               *)

\* A request for one parameter names the connection of the client's observation,
\* and may name its revision; the connection is tested before the gate is taken.
RequestParameter(op, p, expected) ==
  /\ step = "idle" /\ revision + 2 <= MaxRevisions
  /\ opened /\ client.connection = generation
  /\ request' = [op |-> op, connection |-> client.connection, param |-> p, expected |-> expected]
  /\ step' = "begin"
  /\ UNCHANGED <<board, gate, subject, todo, seen, dispatched, result, issued, ghosts, client>>

\* The client passes the revision it remembers for that parameter, or none (0).
Revisions(p) == {0} \cup (IF client.param = p THEN {client.shown.revision} ELSE {})

Request ==
  \E p \in Params :
    \/ RequestParameter("read", p, 0)
    \/ \E op \in {"write", "execute"}, expected \in Revisions(p) :
         RequestParameter(op, p, expected)

\* The inventory looks only whether an applet is loaded.
RequestParameters ==
  /\ step = "idle" /\ revision + 2 <= MaxRevisions
  /\ opened
  /\ request' = [NoRequest EXCEPT !.op = "inventory"]
  /\ step' = "begin"
  /\ UNCHANGED <<board, gate, subject, todo, seen, dispatched, result, issued, ghosts, client>>

AdmissionRefused ==
  /\ step = "begin" /\ gate # "free"
  /\ step' = "idle" /\ request' = NoRequest
  /\ UNCHANGED <<board, gate, subject, todo, seen, dispatched, result, issued, ghosts, client>>

AdmitParameter ==
  /\ step = "begin" /\ gate = "free" /\ request.op # "inventory"
  /\ gate' = "worker" /\ step' = "model"
  /\ todo' = {request.param} /\ touched' = FALSE
  /\ UNCHANGED <<board, request, subject, seen, dispatched, result, issued, wrote, client>>

\* It takes the connection once it has the gate, and forgets what was observed on
\* others.
AdmitParameters ==
  /\ step = "begin" /\ gate = "free" /\ request.op = "inventory"
  /\ gate' = "worker" /\ step' = "model"
  /\ todo' = Params /\ touched' = FALSE
  /\ request' = [request EXCEPT !.connection = generation]
  /\ obs' = [c \in Connections |-> IF c = generation THEN obs[c]
                                   ELSE [p \in Params |-> NotObserved]]
  /\ UNCHANGED <<board, subject, seen, dispatched, result, revision, wrote, client>>

-----------------------------------------------------------------------------
(* The worker                                                              *)

Ends(error) == step' = "end" /\ result' = [result EXCEPT !.error = error]

\* The feature model has the parameter; it is empty without an applet, or when it
\* cannot be built, and the inventory then ends with what it has.  Its last test, of
\* the generation, cannot fail while it holds the gate.
GetModel ==
  /\ step = "model"
  /\ \/ /\ opened /\ \E p \in todo : subject' = p
        /\ step' = "access" /\ UNCHANGED result
     \/ UNCHANGED subject /\ Ends(IF request.op = "inventory" THEN "none" ELSE "refused")
  /\ UNCHANGED <<board, gate, request, todo, seen, dispatched, issued, ghosts, client>>

\* It may also be locked, or its flags unreadable: then the feature model's own word
\* counts, but not while acquisition is on.
ObserveAccess ==
  /\ step = "access" /\ step' = "value"
  /\ \E writable \in {Writable(subject), FALSE} :
       seen' = [value |-> Unread, writable |-> writable]
  /\ UNCHANGED <<board, gate, request, subject, todo, dispatched, result, issued, ghosts, client>>

Readings(p) == {Unread} \cup (IF p \in Commands THEN {} ELSE {value[p]})

\* Mutant: whether the parameter can be written is not compared.
SameObservation_IgnoresAccess(previous, descriptor) ==
  previous # NotObserved /\ previous.descriptor.value = descriptor.value

\* Mutant: the value is not compared.
SameObservation_IgnoresValue(previous, descriptor) ==
  previous # NotObserved /\ previous.descriptor.writable = descriptor.writable

SameObservation(previous, descriptor) ==
  previous # NotObserved /\ previous.descriptor = descriptor

\* observeParameter ends: an observation like the last of that key keeps its revision.
\* The first conjunct is the bound; a request for one parameter begins below it and
\* makes two observations at most, so that it does not end there.
Observed(descriptor) ==
  LET previous == obs[request.connection][subject]
      same == SameObservation(previous, descriptor)
      current == [revision |-> IF same THEN previous.revision ELSE revision + 1,
                  descriptor |-> descriptor]
  IN /\ same \/ revision < MaxRevisions
     /\ obs' = [obs EXCEPT ![request.connection][subject] = current]
     /\ revision' = IF same THEN revision ELSE revision + 1
     /\ result' = [result EXCEPT !.shown = current]

ObserveValue ==
  /\ step = "value"
  /\ \E v \in Readings(subject) :
       /\ seen' = [seen EXCEPT !.value = v]
       /\ Observed([seen EXCEPT !.value = v])
  /\ touched' = FALSE /\ todo' = todo \ {subject}
  /\ step' = IF dispatched THEN "end"
             ELSE IF request.op # "inventory" THEN "judge"
             ELSE IF todo' = {} THEN "end" ELSE "model"
  /\ UNCHANGED <<board, gate, request, subject, dispatched, wrote, client>>

JudgeRead ==
  /\ step = "judge" /\ request.op = "read"
  /\ Ends(IF subject \in Commands THEN "refused"
          ELSE IF seen.value = Unread THEN "backend" ELSE "none")
  /\ UNCHANGED <<board, gate, request, subject, todo, seen, dispatched, issued, ghosts, client>>

\* validateDeviceParameterWrite, on the observation just made.
Valid ==
  /\ seen.writable
  /\ request.expected \in {0, result.shown.revision}
  /\ request.op = "execute" <=> subject \in Commands

AcceptWrite ==
  /\ step = "judge" /\ request.op \in {"write", "execute"} /\ Valid
  /\ dispatched' = TRUE /\ step' = "dispatch"
  /\ UNCHANGED <<board, gate, request, subject, todo, seen, result, issued, ghosts, client>>

\* A revision, a limit or a conversion can refuse it.
RefuseWrite ==
  /\ step = "judge" /\ request.op \in {"write", "execute"}
  /\ Ends("refused")
  /\ UNCHANGED <<board, gate, request, subject, todo, seen, dispatched, issued, ghosts, client>>

\* setAppletParameterById: a parameter that by now is not writable is refused, but one
\* whose flags cannot be read is written all the same.
SdkAccepts ==
  /\ step = "dispatch" /\ opened
  /\ value' \in BoardValues /\ wrote' = TRUE
  /\ step' = "written"
  /\ UNCHANGED <<generation, opened, access, running, gate, work, issued, touched, client>>

SdkRejects ==
  /\ step = "dispatch"
  /\ result' = [error |-> "backend", effect |-> "none", shown |-> NotObserved]
  /\ step' = "report"
  /\ UNCHANGED <<board, gate, request, subject, todo, seen, dispatched, issued, ghosts, client>>

Applied ==
  /\ step = "written" /\ step' = "report"
  /\ result' = [result EXCEPT !.effect = "applied", !.shown = NotObserved]
  /\ UNCHANGED <<board, gate, request, subject, todo, seen, dispatched, issued, ghosts, client>>

\* The parameter is observed again; it may have gone from the refreshed model.
Report ==
  /\ step = "report"
  /\ step' \in {"access", "end"}
  /\ UNCHANGED <<board, gate, work, issued, ghosts, client>>

\* Mutant: an exception after the dispatch leaves the effect as it was.
Thrown_AsIfNone == [result EXCEPT !.error = "backend"]

\* A dispatched write of which nothing is known: neither effect nor value.
Thrown ==
  IF dispatched /\ result.effect # "applied"
    THEN [error |-> "backend", effect |-> "unknown", shown |-> NotObserved]
    ELSE [result EXCEPT !.error = "backend"]

Throws ==
  /\ step \in {"model", "access", "value", "judge", "dispatch", "written", "report"}
  /\ result' = IF request.op = "inventory" THEN [Thrown EXCEPT !.shown = NotObserved] ELSE Thrown
  /\ step' = "end"
  /\ UNCHANGED <<board, gate, request, subject, todo, seen, dispatched, issued, ghosts, client>>

\* Mutant: the result is completed without giving the gate back.
EndControl_Kept ==
  /\ step = "end" /\ step' = "deliver"
  /\ UNCHANGED <<board, gate, work, issued, ghosts, client>>

EndControl ==
  /\ step = "end" /\ step' = "deliver" /\ gate' = "free"
  /\ UNCHANGED <<board, work, issued, ghosts, client>>

\* The client remembers what it is told, or what it knew before; what the worker
\* had of the request goes with it.
Complete ==
  /\ step = "deliver" /\ step' = "idle"
  /\ \/ UNCHANGED client
     \/ /\ request.op # "inventory" /\ result.shown # NotObserved
        /\ client' = [connection |-> request.connection, param |-> subject, shown |-> result.shown]
     \/ /\ request.op = "inventory" /\ result.error = "none"
        /\ \E p \in Params \ todo :
             client' = [connection |-> request.connection, param |-> p,
                        shown |-> obs[request.connection][p]]
  /\ request' = NoRequest /\ subject' = AnyParam /\ todo' = {}
  /\ seen' = Blank /\ dispatched' = FALSE /\ result' = Pending
  /\ wrote' = FALSE /\ touched' = FALSE
  /\ UNCHANGED <<board, gate, issued>>

-----------------------------------------------------------------------------
Others ==
  \/ GateTaken \/ GateReturned \/ AppletLoaded \/ AppletReleased \/ LiveToggled \/ WidgetWrites

Worker ==
  \/ GetModel \/ ObserveAccess \/ ObserveValue
  \/ JudgeRead \/ AcceptWrite \/ RefuseWrite \/ SdkAccepts \/ SdkRejects \/ Applied \/ Report
  \/ Throws \/ EndControl \/ Complete

Admission == AdmissionRefused \/ AdmitParameter \/ AdmitParameters

Next == Others \/ Request \/ RequestParameters \/ Admission \/ Worker

Spec == Init /\ [][Next]_vars

-----------------------------------------------------------------------------
(* What the parameter contract promises.                                   *)

\* A revision names one observation: while the client's revision is current it is
\* the revision of that parameter, of that connection, as the client saw it.
RevisionNamesObservation ==
  client.shown.revision # 0 =>
    \A c \in Connections, p \in Params :
      obs[c][p].revision = client.shown.revision
        => c = client.connection /\ p = client.param /\ obs[c][p] = client.shown

\* README: "Each write is revalidated against a fresh observation".  A write that
\* names a revision replaces the value the client saw with it, unless the widget
\* wrote after the fresh observation.
ReplacesWhatWasSeen ==
  [][ step = "dispatch" /\ step' = "written" /\ request.op = "write" /\ request.expected # 0
        /\ ~touched /\ client.shown.descriptor.value # Unread
      => value[subject] = client.shown.descriptor.value ]_vars

\* README: each write reports the actual effect, whatever fails on the way: a write
\* said to be applied was, and one said to have none was not.
EffectIsTrue ==
  step \in {"end", "deliver"} =>
    /\ result.effect = "applied" => wrote
    /\ result.effect = "none" => ~wrote

\* README: each write reports the actual readback: a value in a result is the board's
\* when the worker ends, unless the widget wrote after the last observation.
ReportsActual ==
  step = "end" /\ request.op # "inventory" /\ ~touched
    /\ result.shown.descriptor.value # Unread
      => result.shown.descriptor.value = value[subject]

\* A result tells both truly, its effect and its value.
ResultIsTrue == EffectIsTrue /\ ReportsActual
=============================================================================
