------------------------ MODULE ParameterControlProofs ------------------------
(***************************************************************************)
(* Proofs about ParameterControl for any parameters, values and bounds.    *)
(***************************************************************************)
EXTENDS ParameterControl, TLAPS

-----------------------------------------------------------------------------
(* The inductive invariant                                                 *)

Single == request.op # "inventory"

\* Nothing is left of the last request when the next one begins; the client keeps what
\* it remembers until the request is delivered.
RequestInv ==
  /\ step \in {"idle", "begin"} => /\ result.shown = NotObserved /\ result.effect = "none"
                                   /\ ~dispatched /\ ~wrote
  /\ step # "idle" /\ request.expected # 0 => request.expected = client.shown.revision
  /\ step = "dispatch" => request.expected \in {0, result.shown.revision}

\* A revision is issued once, and an observation that was made has one.
RevisionInv ==
  /\ \A c \in Connections, p \in Params :
       /\ obs[c][p].revision <= revision
       /\ obs[c][p].revision = 0 => obs[c][p] = NotObserved
  /\ \A c, e \in Connections : \A p, q \in Params :
       obs[c][p].revision = obs[e][q].revision /\ obs[c][p].revision # 0 => c = e /\ p = q
  /\ client.shown.revision <= revision

\* What a request for one parameter shows is its last observation; until that is made, and
\* from the write to the observation after it, it shows none.
ShownInv ==
  Single => /\ step \in {"model", "access", "value", "report"} => result.shown = NotObserved
            /\ step # "idle" /\ result.shown # NotObserved
                 => obs[request.connection][subject] = result.shown

\* Unless the widget wrote, the value observed is the board's until the worker writes.
ValueInv ==
  Single /\ step \in {"judge", "dispatch", "end"} /\ ~touched
    /\ result.shown.descriptor.value # Unread
      => subject \notin Commands /\ result.shown.descriptor.value = value[subject]

\* The effect is told from the step that has the SDK's answer on.
EffectInv ==
  /\ dispatched => Single /\ step \notin {"model", "judge"}
  /\ wrote => dispatched
  /\ ~dispatched => result.effect = "none"
  /\ step = "dispatch" => dispatched /\ ~wrote /\ result.effect = "none"
  /\ step = "written" => wrote /\ result.effect = "none"
  /\ result.effect = "applied" => wrote
  /\ result.effect = "none" /\ wrote => step = "written"

IInv ==
  /\ TypeOK /\ RequestInv /\ RevisionInv /\ ShownInv /\ ValueInv /\ EffectInv
  /\ RevisionNamesObservation

-----------------------------------------------------------------------------
(* Types                                                                   *)

BoardOK ==
  /\ generation \in Connections /\ opened \in BOOLEAN /\ running \in BOOLEAN
  /\ value \in BoardValues /\ access \subseteq Params

PlaceOK ==
  /\ gate \in {"free", "worker", "other"}
  /\ step \in {"idle", "begin", "model", "access", "value", "judge", "dispatch", "written",
               "report", "end", "deliver"}
  /\ gate = "worker" <=> step \notin {"idle", "begin", "deliver"}
  /\ todo \subseteq Params
  /\ dispatched \in BOOLEAN /\ wrote \in BOOLEAN /\ touched \in BOOLEAN

RequestOK == request \in Requests /\ subject \in Params

Results == [error : {"none", "refused", "backend"}, effect : {"none", "applied", "unknown"},
            shown : Observations]

ObservedOK ==
  /\ seen \in Descriptors /\ result \in Results
  /\ obs \in [Connections -> [Params -> Observations]] /\ revision \in 0 .. MaxRevisions
  /\ client \in [connection : Connections, param : Params, shown : Observations]

\* The types fall into the board, the place of the request, the request and what has been
\* observed.
LEMMA TypesAre == TypeOK <=> BoardOK /\ PlaceOK /\ RequestOK /\ ObservedOK
BY Zenon DEF TypeOK, BoardOK, PlaceOK, RequestOK, ObservedOK, Results

\* What neither admits a request nor works on it.
OtherSteps == Others \/ Request \/ RequestParameters \/ AdmissionRefused

\* Everybody's effect on the board.
LEMMA BoardKept ==
  ASSUME BoardOK, Next
  PROVE  BoardOK'
<1> USE ParameterAssumption DEF BoardOK, board
<1>1. CASE Others
  <2>1. CASE GateTaken \/ GateReturned \/ AppletReleased
    BY <2>1 DEF GateTaken, GateReturned, AppletReleased
  <2>2. CASE AppletLoaded
    BY <2>2 DEF AppletLoaded, Connections
  <2>3. CASE LiveToggled
    BY <2>3, Zenon DEF LiveToggled
  <2>4. CASE WidgetWrites
    BY <2>4 DEF WidgetWrites
  <2> QED
    BY <1>1, <2>1, <2>2, <2>3, <2>4 DEF Others
<1>2. CASE Request \/ RequestParameters \/ Admission
  BY <1>2 DEF Request, RequestParameter, RequestParameters, Admission, AdmissionRefused,
     AdmitParameter, AdmitParameters
<1>3. CASE Worker
  BY <1>3 DEF Worker, GetModel, ObserveAccess, ObserveValue, JudgeRead, AcceptWrite, RefuseWrite,
     SdkAccepts, SdkRejects, Applied, Report, Throws, EndControl, Complete
<1> QED
  BY <1>1, <1>2, <1>3 DEF Next

\* The gate is the worker's from the admission to endControl.
LEMMA PlaceKept ==
  ASSUME PlaceOK, RequestOK, Next
  PROVE  PlaceOK'
<1> USE DEF PlaceOK, work, ghosts
<1>1. CASE Others
  BY <1>1 DEF Others, GateTaken, GateReturned, AppletLoaded, AppletReleased, LiveToggled,
     WidgetWrites
<1>2. CASE Request \/ RequestParameters \/ Admission
  BY <1>2 DEF Request, RequestParameter, RequestParameters, Admission, AdmissionRefused,
     AdmitParameter, AdmitParameters, RequestOK, Requests
<1>3. CASE Worker
  BY <1>3 DEF Worker, GetModel, ObserveAccess, ObserveValue, JudgeRead, AcceptWrite, RefuseWrite,
     SdkAccepts, SdkRejects, Applied, Report, Throws, EndControl, Complete, Ends
<1> QED
  BY <1>1, <1>2, <1>3 DEF Next

\* A request is for a parameter, by a connection and a revision there have been.
LEMMA RequestKept ==
  ASSUME PlaceOK, RequestOK, ObservedOK, generation \in Connections, Next
  PROVE  RequestOK'
<1> USE ParameterAssumption DEF RequestOK, Requests, work
<1>0. AnyParam \in Params /\ NoRequest \in Requests
  BY DEF AnyParam, NoRequest, Connections
<1>1. CASE Others
  BY <1>1 DEF Others, GateTaken, GateReturned, AppletLoaded, AppletReleased, LiveToggled,
     WidgetWrites
<1>2. CASE Request
  <2>1. PICK op \in {"read", "write", "execute"}, p \in Params :
          \E expected \in Revisions(p) : RequestParameter(op, p, expected)
    BY <1>2 DEF Request, Revisions
  <2>2. PICK expected \in Revisions(p) : RequestParameter(op, p, expected)
    BY <2>1
  <2>3. expected \in 0 .. MaxRevisions
    BY <2>2 DEF Revisions, ObservedOK, Observations
  <2> QED
    BY <2>2, <2>3 DEF RequestParameter, ObservedOK
<1>3. CASE RequestParameters \/ Admission
  BY <1>0, <1>3 DEF RequestParameters, Admission, AdmissionRefused, AdmitParameter,
     AdmitParameters
<1>4. CASE Worker
  BY <1>0, <1>4 DEF Worker, GetModel, ObserveAccess, ObserveValue, JudgeRead, AcceptWrite,
     RefuseWrite, SdkAccepts, SdkRejects, Applied, Report, Throws, EndControl, Complete, PlaceOK
<1> QED
  BY <1>1, <1>2, <1>3, <1>4 DEF Next

\* Blank records are records.
LEMMA BlankObservation ==
  Blank \in Descriptors /\ NotObserved \in Observations /\ Pending \in Results
BY ParameterAssumption DEF Blank, Descriptors, NotObserved, Observations, Pending, Results

\* What ObserveValue records: the last observation of the parameter, or a new one.
LEMMA Observing ==
  ASSUME PlaceOK, RequestOK, ObservedOK, BoardOK, ObserveValue
  PROVE  \E current \in Observations :
           /\ \/ current = obs[request.connection][subject] /\ revision' = revision
              \/ current.revision = revision + 1 /\ revision' = revision + 1
           /\ current.descriptor.value \in Readings(subject)
           /\ obs' = [obs EXCEPT ![request.connection][subject] = current]
           /\ result' = [result EXCEPT !.shown = current]
           /\ seen' \in Descriptors /\ revision' \in 0 .. MaxRevisions
<1> USE ParameterAssumption
<1>1. PICK v \in Readings(subject) : /\ seen' = [seen EXCEPT !.value = v]
                                     /\ Observed([seen EXCEPT !.value = v])
  BY DEF ObserveValue
<1>2. v \in Values \cup {Unread}
  BY DEF Readings, BoardOK, BoardValues, RequestOK
<1>3. seen' \in Descriptors /\ seen'.value = v
  BY <1>1, <1>2 DEF ObservedOK, Descriptors
<1> DEFINE previous == obs[request.connection][subject]
           same == SameObservation(previous, seen')
           current == [revision |-> IF same THEN previous.revision ELSE revision + 1,
                       descriptor |-> seen']
<1>4. /\ same \/ revision < MaxRevisions
      /\ obs' = [obs EXCEPT ![request.connection][subject] = current]
      /\ revision' = IF same THEN revision ELSE revision + 1
      /\ result' = [result EXCEPT !.shown = current]
  BY <1>1 DEF Observed
<1>5. previous \in Observations
  BY DEF RequestOK, Requests, ObservedOK
<1>6. current \in Observations /\ revision' \in 0 .. MaxRevisions
  BY <1>3, <1>4, <1>5 DEF Observations, ObservedOK
<1>7. same => current = previous
  BY <1>5 DEF SameObservation, Observations
<1>8. current.descriptor.value = v
  BY <1>3
<1> QED
  BY <1>3, <1>4, <1>6, <1>7, <1>8

\* Observations and results are of their types, within the bound on revisions.
LEMMA ObservedKept ==
  ASSUME PlaceOK, RequestOK, ObservedOK, BoardOK, Next
  PROVE  ObservedOK'
<1> USE BlankObservation, ParameterAssumption DEF ObservedOK, work, issued
<1>1. CASE OtherSteps
  BY <1>1 DEF OtherSteps, Others, GateTaken, GateReturned, AppletLoaded, AppletReleased,
     LiveToggled, WidgetWrites, Request, RequestParameter, RequestParameters, AdmissionRefused
<1>2. CASE AdmitParameter \/ AdmitParameters
  BY <1>2 DEF AdmitParameter, AdmitParameters
<1>3. CASE ObserveValue
  <2>1. PICK current \in Observations :
          /\ seen' \in Descriptors /\ revision' \in 0 .. MaxRevisions
          /\ obs' = [obs EXCEPT ![request.connection][subject] = current]
          /\ result' = [result EXCEPT !.shown = current]
    BY <1>3, Observing
  <2>2. result' \in Results
    BY <2>1 DEF Results
  <2>3. obs' \in [Connections -> [Params -> Observations]]
    BY <2>1 DEF RequestOK, Requests
  <2> QED
    BY <1>3, <2>1, <2>2, <2>3 DEF ObserveValue
<1>4. CASE ObserveAccess
  <2>1. Writable(subject) \in BOOLEAN
    BY ZenonT(20) DEF Writable, PlaceOK, BoardOK
  <2>2. PICK writable \in BOOLEAN : seen' = [value |-> Unread, writable |-> writable]
    BY <1>4, <2>1 DEF ObserveAccess
  <2>3. seen' \in Descriptors
    BY <2>2 DEF Descriptors
  <2> QED
    BY <1>4, <2>3 DEF ObserveAccess
<1>5. CASE GetModel \/ JudgeRead \/ RefuseWrite
  BY <1>5 DEF GetModel, JudgeRead, RefuseWrite, Ends, Results
<1>6. CASE SdkRejects \/ Applied
  <2>1. CASE SdkRejects
    BY <2>1 DEF SdkRejects, Results
  <2>2. CASE Applied
    BY <2>2 DEF Applied, Results
  <2> QED
    BY <1>6, <2>1, <2>2
<1>7. CASE Throws
  <2>1. Thrown \in Results
    BY DEF Thrown, Results
  <2>2. result' \in Results
    BY <1>7, <2>1 DEF Throws, Results
  <2> QED
    BY <1>7, <2>2 DEF Throws
<1>8. CASE AcceptWrite \/ SdkAccepts \/ Report \/ EndControl
  BY <1>8 DEF AcceptWrite, SdkAccepts, Report, EndControl
<1>9. CASE Complete
  BY <1>9 DEF Complete, Results, RequestOK, Requests
<1> QED
  BY <1>1, <1>2, <1>3, <1>4, <1>5, <1>6, <1>7, <1>8, <1>9 DEF Next, OtherSteps, Worker, Admission

-----------------------------------------------------------------------------
(* The conjuncts of the invariant                                          *)

\* Only an observation, an inventory's admission and a delivery change what revisions there
\* are and which one the client knows.
LEMMA RevisionSteps ==
  ASSUME Next
  PROVE  ObserveValue \/ AdmitParameters \/ Complete \/ UNCHANGED <<obs, revision, client>>
<1> USE DEF issued
<1>1. CASE OtherSteps
  BY <1>1 DEF OtherSteps, Others, GateTaken, GateReturned, AppletLoaded, AppletReleased,
     LiveToggled, WidgetWrites, Request, RequestParameter, RequestParameters, AdmissionRefused
<1>2. CASE AdmitParameter
  BY <1>2 DEF AdmitParameter
<1>3. CASE Worker
  BY <1>3 DEF Worker, GetModel, ObserveAccess, JudgeRead, AcceptWrite, RefuseWrite, SdkAccepts,
     SdkRejects, Applied, Report, Throws, EndControl
<1> QED
  BY <1>1, <1>2, <1>3 DEF Next, OtherSteps, Admission

\* A new observation gets a revision nobody has; one like the last keeps its own.
LEMMA RevisionKept ==
  ASSUME TypeOK, RevisionInv, ShownInv, Next
  PROVE  RevisionInv'
<1> USE DEF RevisionInv
<1>1. CASE ObserveValue
  <2>1. PICK current \in Observations :
          /\ \/ current = obs[request.connection][subject] /\ revision' = revision
             \/ current.revision = revision + 1 /\ revision' = revision + 1
          /\ obs' = [obs EXCEPT ![request.connection][subject] = current]
    BY <1>1, Observing, TypesAre
  <2> QED
    BY <1>1, <2>1 DEF ObserveValue, TypeOK, Requests, Observations
<1>2. CASE AdmitParameters
  BY <1>2 DEF AdmitParameters, NotObserved, TypeOK
<1>3. CASE Complete
  BY <1>3 DEF Complete, issued, ShownInv, TypeOK, Single, Requests, Observations, NotObserved
<1>4. CASE UNCHANGED <<obs, revision, client>>
  BY <1>4
<1> QED
  BY <1>1, <1>2, <1>3, <1>4, RevisionSteps

\* The client's revision stays the name of what the client saw.
LEMMA NamesKept ==
  ASSUME TypeOK, RevisionInv, ShownInv, RequestInv, RevisionNamesObservation, Next
  PROVE  RevisionNamesObservation'
<1> USE DEF RevisionNamesObservation
<1>1. CASE ObserveValue
  <2>1. PICK current \in Observations :
          /\ \/ current = obs[request.connection][subject] /\ revision' = revision
             \/ current.revision = revision + 1 /\ revision' = revision + 1
          /\ obs' = [obs EXCEPT ![request.connection][subject] = current]
    BY <1>1, Observing, TypesAre
  <2> QED
    BY <1>1, <2>1 DEF ObserveValue, TypeOK, Requests, Observations, RevisionInv
<1>2. CASE AdmitParameters
  BY <1>2 DEF AdmitParameters, NotObserved, TypeOK
<1>3. CASE Complete
  BY <1>3 DEF Complete, issued, ShownInv, TypeOK, Single, Requests, Observations, NotObserved,
     RevisionInv
<1>4. CASE UNCHANGED <<obs, revision, client>>
  BY <1>4
<1> QED
  BY <1>1, <1>2, <1>3, <1>4, RevisionSteps

\* Nobody but the worker advances a request, and the client changes on its delivery alone.
LEMMA RequestInvKept ==
  ASSUME TypeOK, RequestInv, EffectInv, Next
  PROVE  RequestInv'
<1> USE DEF RequestInv, work, ghosts, board
<1>1. CASE Others
  BY <1>1 DEF Others, GateTaken, GateReturned, AppletLoaded, AppletReleased, LiveToggled,
     WidgetWrites
<1>2. CASE Request
  BY <1>2 DEF Request, RequestParameter, Revisions
<1>3. CASE RequestParameters \/ Admission
  BY <1>3 DEF RequestParameters, NoRequest, Admission, AdmissionRefused, AdmitParameter,
     AdmitParameters, TypeOK, Requests
<1>4. CASE GetModel \/ ObserveAccess \/ JudgeRead \/ RefuseWrite \/ AcceptWrite
  BY <1>4 DEF GetModel, ObserveAccess, JudgeRead, RefuseWrite, AcceptWrite, Valid, Ends
<1>5. CASE ObserveValue
  BY <1>5 DEF ObserveValue
<1>6. CASE SdkAccepts \/ SdkRejects \/ Applied \/ Report \/ Throws \/ EndControl
  BY <1>6 DEF SdkAccepts, SdkRejects, Applied, Report, Throws, EndControl
<1>7. CASE Complete
  BY <1>7 DEF Complete, NoRequest, Pending
<1> QED
  BY <1>1, <1>2, <1>3, <1>4, <1>5, <1>6, <1>7 DEF Next, Worker

\* A result shows what was just observed; a write takes it out again.
LEMMA ShownKept ==
  ASSUME TypeOK, ShownInv, RequestInv, EffectInv, Next
  PROVE  ShownInv'
<1> USE DEF ShownInv, Single, work, issued
<1>1. CASE Others
  BY <1>1 DEF Others, GateTaken, GateReturned, AppletLoaded, AppletReleased, LiveToggled,
     WidgetWrites
<1>2. CASE Request \/ RequestParameters \/ Admission
  BY <1>2 DEF Request, RequestParameter, RequestParameters, NoRequest, Admission,
     AdmissionRefused, AdmitParameter, AdmitParameters, TypeOK, Requests, RequestInv
<1>3. CASE GetModel \/ ObserveAccess \/ JudgeRead \/ RefuseWrite \/ AcceptWrite
  BY <1>3 DEF GetModel, ObserveAccess, JudgeRead, RefuseWrite, AcceptWrite, Ends, TypeOK
<1>4. CASE ObserveValue
  <2>1. PICK current \in Observations :
          /\ obs' = [obs EXCEPT ![request.connection][subject] = current]
          /\ result' = [result EXCEPT !.shown = current]
    BY <1>4, Observing, TypesAre
  <2> QED
    BY <1>4, <2>1 DEF ObserveValue, TypeOK, Requests
<1>5. CASE SdkAccepts \/ SdkRejects \/ Applied \/ Report \/ EndControl
  <2>1. CASE SdkAccepts
    BY <2>1 DEF SdkAccepts, TypeOK, EffectInv
  <2>2. CASE SdkRejects
    BY <2>2 DEF SdkRejects, TypeOK, EffectInv
  <2>3. CASE Applied
    BY <2>3 DEF Applied, TypeOK, EffectInv
  <2>4. CASE Report \/ EndControl
    BY <2>4 DEF Report, EndControl, TypeOK, EffectInv
  <2> QED
    BY <1>5, <2>1, <2>2, <2>3, <2>4
<1>6. CASE Throws
  <2>1. ASSUME Single PROVE result' = Thrown
    BY <1>6, <2>1 DEF Throws
  <2>2. result.shown = Thrown.shown \/ Thrown.shown = NotObserved
    BY DEF Thrown, TypeOK
  <2> QED
    BY <1>6, <2>1, <2>2 DEF Throws
<1>7. CASE Complete
  BY <1>7 DEF Complete, NoRequest, Pending
<1> QED
  BY <1>1, <1>2, <1>3, <1>4, <1>5, <1>6, <1>7 DEF Next, Worker

\* Each branch after the SDK's answer, exceptions too, tells what the SDK did.
LEMMA EffectKept ==
  ASSUME TypeOK, EffectInv, RequestInv, Next
  PROVE  EffectInv'
<1> USE DEF EffectInv, Single, work, ghosts, board
<1>1. CASE Others
  BY <1>1 DEF Others, GateTaken, GateReturned, AppletLoaded, AppletReleased, LiveToggled,
     WidgetWrites
<1>2. CASE Request \/ RequestParameters \/ Admission
  BY <1>2 DEF Request, RequestParameter, RequestParameters, NoRequest, Admission,
     AdmissionRefused, AdmitParameter, AdmitParameters, TypeOK, Requests, RequestInv
<1>3. CASE GetModel \/ ObserveAccess \/ JudgeRead \/ RefuseWrite \/ AcceptWrite
  BY <1>3 DEF GetModel, ObserveAccess, JudgeRead, RefuseWrite, AcceptWrite, Ends, TypeOK
<1>4. CASE ObserveValue
  <2>1. result'.effect = result.effect
    BY <1>4, Observing, TypesAre DEF TypeOK
  <2> QED
    BY <1>4, <2>1 DEF ObserveValue, TypeOK, Requests
<1>5. CASE SdkAccepts \/ SdkRejects \/ Applied \/ Report \/ EndControl
  <2>1. CASE SdkAccepts
    BY <2>1 DEF SdkAccepts, TypeOK, RequestInv
  <2>2. CASE SdkRejects
    BY <2>2 DEF SdkRejects, TypeOK, RequestInv
  <2>3. CASE Applied
    BY <2>3 DEF Applied, TypeOK, RequestInv
  <2>4. CASE Report \/ EndControl
    BY <2>4 DEF Report, EndControl, TypeOK, RequestInv
  <2> QED
    BY <1>5, <2>1, <2>2, <2>3, <2>4
<1>6. CASE Throws
  <2>1. result'.effect = Thrown.effect
    BY <1>6 DEF Throws, Thrown, TypeOK
  <2>2. Thrown.effect = IF dispatched /\ result.effect # "applied" THEN "unknown"
                        ELSE result.effect
    BY DEF Thrown, TypeOK
  <2> QED
    BY <1>6, <2>1, <2>2 DEF Throws
<1>7. CASE Complete
  BY <1>7 DEF Complete, NoRequest, Pending
<1> QED
  BY <1>1, <1>2, <1>3, <1>4, <1>5, <1>6, <1>7 DEF Next, Worker

\* Until the worker writes only the widget changes the board, and that is marked.
LEMMA ValueKept ==
  ASSUME TypeOK, ValueInv, ShownInv, EffectInv, RequestInv, Next
  PROVE  ValueInv'
<1> USE DEF ValueInv, Single, work, ghosts, board
<1>1. CASE Others
  BY <1>1 DEF Others, GateTaken, GateReturned, AppletLoaded, AppletReleased, LiveToggled,
     WidgetWrites, TypeOK
<1>2. CASE Request \/ RequestParameters \/ Admission
  BY <1>2 DEF Request, RequestParameter, RequestParameters, NoRequest, Admission,
     AdmissionRefused, AdmitParameter, AdmitParameters, TypeOK, Requests, RequestInv
<1>3. CASE GetModel \/ ObserveAccess \/ JudgeRead \/ RefuseWrite \/ AcceptWrite
  BY <1>3 DEF GetModel, ObserveAccess, JudgeRead, RefuseWrite, AcceptWrite, Ends, TypeOK,
     ShownInv, NotObserved, Blank
<1>4. CASE ObserveValue
  <2>1. PICK current \in Observations :
          /\ current.descriptor.value \in Readings(subject)
          /\ result' = [result EXCEPT !.shown = current]
    BY <1>4, Observing, TypesAre
  <2>2. result'.shown = current
    BY <2>1 DEF TypeOK
  <2> QED
    BY <1>4, <2>1, <2>2 DEF ObserveValue, Readings
<1>5. CASE SdkAccepts \/ SdkRejects \/ Applied \/ Report \/ EndControl
  BY <1>5 DEF SdkAccepts, SdkRejects, Applied, Report, EndControl, TypeOK, ShownInv, NotObserved,
     Blank
<1>6. CASE Throws
  <2>1. ASSUME Single PROVE result' = Thrown
    BY <1>6, <2>1 DEF Throws
  <2>2. \/ Thrown.shown = NotObserved
        \/ Thrown.shown = result.shown /\ ~(dispatched /\ result.effect # "applied")
    BY DEF Thrown, TypeOK
  <2>3. NotObserved.descriptor.value = Unread
    BY DEF NotObserved, Blank
  <2>4. step = "written" => dispatched /\ result.effect # "applied"
    BY DEF EffectInv
  <2> QED
    BY <1>6, <2>1, <2>2, <2>3, <2>4 DEF Throws, ShownInv
<1>7. CASE Complete
  BY <1>7 DEF Complete, NoRequest, Pending
<1> QED
  BY <1>1, <1>2, <1>3, <1>4, <1>5, <1>6, <1>7 DEF Next, Worker

-----------------------------------------------------------------------------
(* The invariant                                                           *)

\* The initial states satisfy the invariant.
LEMMA Initially ==
  ASSUME Init
  PROVE  IInv
<1> USE ParameterAssumption
<1>1. BoardOK
  <2>1. generation \in Connections /\ access \subseteq Params
    BY DEF Init, Connections
  <2> QED
    BY <2>1 DEF Init, BoardOK
<1>2. AnyParam \in Params
  BY DEF AnyParam
<1>3. RequestOK
  BY <1>2 DEF Init, RequestOK, NoRequest, Requests, Connections
<1>4. ObservedOK
  BY <1>2, BlankObservation DEF Init, ObservedOK, Connections
<1>5. RequestInv /\ RevisionInv /\ ShownInv
  BY <1>2 DEF Init, RequestInv, RevisionInv, ShownInv, Pending, NoRequest, NotObserved
<1>6. ValueInv /\ EffectInv /\ RevisionNamesObservation
  BY DEF Init, ValueInv, EffectInv, RevisionNamesObservation, Pending, NotObserved
<1>7. PlaceOK
  BY DEF Init, PlaceOK
<1> QED
  BY <1>1, <1>3, <1>4, <1>5, <1>6, <1>7, TypesAre DEF IInv

\* Every step keeps the invariant.
LEMMA Inductive ==
  ASSUME IInv, [Next]_vars
  PROVE  IInv'
<1>1. CASE Next
  <2> USE <1>1 DEF IInv
  <2>1. BoardOK /\ PlaceOK /\ RequestOK /\ ObservedOK
    BY TypesAre
  <2>2. BoardOK' /\ PlaceOK' /\ RequestOK' /\ ObservedOK'
    BY <2>1, BoardKept, PlaceKept, RequestKept, ObservedKept DEF BoardOK
  <2>3. TypeOK'
    BY <2>2, Zenon DEF TypeOK, BoardOK, PlaceOK, RequestOK, ObservedOK, Results
  <2>4. RequestInv' /\ RevisionInv' /\ ShownInv' /\ ValueInv' /\ EffectInv'
    BY RequestInvKept, RevisionKept, ShownKept, ValueKept, EffectKept
  <2>5. RevisionNamesObservation'
    BY NamesKept
  <2> QED
    BY <2>3, <2>4, <2>5
<1>2. CASE UNCHANGED vars
  BY <1>2 DEF vars, board, work, issued, ghosts, IInv, TypeOK, RequestInv, RevisionInv, ShownInv,
     ValueInv, EffectInv, RevisionNamesObservation, Single, Results
<1> QED
  BY <1>1, <1>2

\* Every state a behaviour reaches satisfies the invariant.
LEMMA Always == Spec => []IInv
BY Initially, Inductive, PTL DEF Spec

-----------------------------------------------------------------------------
(* What the parameter contract promises                                    *)

\* Requests, observations, results and revisions stay within their types, and the worker
\* holds the gate from its admission to its endControl.
THEOREM TypeCorrect == Spec => []TypeOK
<1>1. IInv => TypeOK
  BY DEF IInv
<1> QED
  BY <1>1, Always, PTL

\* observeParameter gives an observation that differs a revision of its own: whatever the
\* client remembers, its revision is of no other parameter, connection or descriptor.
THEOREM RevisionsNameObservations == Spec => []RevisionNamesObservation
<1>1. IInv => RevisionNamesObservation
  BY DEF IInv
<1> QED
  BY <1>1, Always, PTL

\* A result tells the effect the write had and the value the board has, whichever step
\* failed or threw.
THEOREM ResultsAreTrue == Spec => []ResultIsTrue
<1>1. ASSUME IInv PROVE EffectIsTrue
  BY <1>1 DEF IInv, EffectInv, EffectIsTrue
<1>2. ASSUME IInv PROVE ReportsActual
  BY <1>2 DEF IInv, ValueInv, Single, ReportsActual
<1>3. IInv => ResultIsTrue
  BY <1>1, <1>2 DEF ResultIsTrue
<1> QED
  BY <1>3, Always, PTL

\* validateDeviceParameterWrite: a write that names the revision its client saw replaces the
\* value it saw, unless the widget writes after the fresh observation.
THEOREM WritesReplaceWhatWasSeen == Spec => ReplacesWhatWasSeen
<1> DEFINE Replaces ==
      step = "dispatch" /\ step' = "written" /\ request.op = "write" /\ request.expected # 0
        /\ ~touched /\ client.shown.descriptor.value # Unread
      => value[subject] = client.shown.descriptor.value
<1>1. ASSUME IInv PROVE Replaces
  <2> SUFFICES ASSUME step = "dispatch", request.op = "write", request.expected # 0,
                      ~touched, client.shown.descriptor.value # Unread
               PROVE  value[subject] = client.shown.descriptor.value
    OBVIOUS
  <2>1. result.shown.revision = client.shown.revision /\ client.shown.revision # 0
    BY <1>1 DEF IInv, RequestInv
  <2>2. result.shown # NotObserved
    BY <2>1 DEF NotObserved
  <2>3. obs[request.connection][subject] = result.shown
    BY <1>1, <2>2 DEF IInv, ShownInv, Single
  <2>4. result.shown = client.shown
    BY <1>1, <2>1, <2>3 DEF IInv, TypeOK, Requests, RevisionNamesObservation
  <2> QED
    BY <1>1, <2>4 DEF IInv, ValueInv, Single
<1>2. IInv => [Replaces]_vars
  BY <1>1
<1> QED
  BY <1>2, Always, PTL DEF ReplacesWhatWasSeen

===============================================================================
