---------------------------- MODULE CameraControl ----------------------------
(***************************************************************************)
(* The CoaXPress cameras of a Framegrabber: discovering them, connecting   *)
(* and disconnecting one, and aligning each camera's Width and Height with *)
(* the applet's FG_WIDTH and FG_HEIGHT (FramegrabberCameraGeometry).       *)
(*                                                                         *)
(* Every operation holds _lifecycleMutex, or is the start of a DMA worker, *)
(* which holds _cameraStartupMutex while acquisition runs, when the others *)
(* are refused: so one is carried out at a time.  Each of its SDK calls is *)
(* a critical section of _stateMutex of its own, and between two of them   *)
(* the GUI writes camera features and applet parameters.                   *)
(*                                                                         *)
(* A camera (external) may refuse a write, round it, or let one axis limit *)
(* the other.  One camera is bound to a DMA at most, and stopping is taken *)
(* as a whole; ChannelLifecycle takes it apart.                            *)
(***************************************************************************)
CONSTANTS
  Dmas,     \* the DMA channels of the applet
  Sizes,    \* the values Width and Height may take
  Unread    \* no value

ASSUME CameraAssumption == Unread \notin Sizes

Axes == {"Width", "Height"}
Pairs == [Axes -> Sizes]
Reads == [Axes -> Sizes \cup {Unread}]

VARIABLES
  board,      \* _cxpBoard is set
  cached,     \* _cxpCameras, by DMA: "absent", "listed" or "connected"
  sdk,        \* what the SDK has of each handle: "gone", "known" or "connected"
  found,      \* the cameras a discovery has found and connected, not yet published
  contract,   \* which of FG_WIDTH and FG_HEIGHT the applet has: "both", "one", "none"
  applet,     \* their values
  camera,     \* the Width and Height of each camera
  running,    \* _isRunning
  streaming,  \* the cameras whose acquisition has started
  lastError,  \* _lastError: "none", or what it tells
  pc,         \* the step the operation is at
  op,         \* the operation
  todo,       \* the cameras it has yet to align
  sync,       \* the alignment being made
  verdict,    \* how the last alignment of a camera ended
  touched,    \* cameras whose geometry, or the applet's, the GUI wrote since then
  returned    \* the operation has returned and nothing was asked since

devices == <<sdk, contract, applet, camera, running, streaming>>
session == <<board, cached, found>>
progress == <<op, todo, sync, verdict, returned>>
vars == <<devices, session, progress, touched, lastError, pc>>

Connected == {d \in Dmas : cached[d] = "connected"}

Blank == [a \in Axes |-> Unread]
NoSync(d) == [dma |-> d, phase |-> "done", axis |-> "Width", verify |-> FALSE,
              target |-> Blank, before |-> Blank, seen |-> Blank]

Failures == {"failed", "restored", "unrestored"}

TypeOK ==
  /\ board \in BOOLEAN /\ running \in BOOLEAN /\ returned \in BOOLEAN
  /\ cached \in [Dmas -> {"absent", "listed", "connected"}]
  /\ found \in [Dmas -> {"absent", "listed", "connected"}]
  /\ sdk \in [Dmas -> {"gone", "known", "connected"}]
  /\ contract \in {"both", "one", "none"}
  /\ applet \in Pairs /\ camera \in [Dmas -> Pairs]
  /\ streaming \subseteq Dmas /\ todo \subseteq Dmas /\ touched \subseteq Dmas
  /\ lastError \in {"none", "refused", "sdk", "geometry"}
  /\ pc \in {"idle", "clear", "scan", "connect", "publish", "sync", "geometry", "stream"}
  /\ op \in {"none", "open", "refresh", "configure", "connect", "start"}
  /\ sync \in [dma : Dmas, axis : Axes, verify : BOOLEAN, target : Reads, before : Reads,
               seen : Reads, phase : {"done", "applet", "before", "write", "readBack",
                                      "rollback", "restored"}]
  /\ sync.phase \in {"before", "write", "readBack"} => sync.target \in Pairs
  /\ sync.phase \in {"write", "readBack", "rollback", "restored"} => sync.before \in Pairs
  /\ verdict \in [Dmas -> {"none", "notApplicable", "applied"} \cup Failures]

Init ==
  /\ board = FALSE /\ running = FALSE /\ returned = FALSE
  /\ cached = [d \in Dmas |-> "absent"] /\ found = [d \in Dmas |-> "absent"]
  /\ sdk = [d \in Dmas |-> "gone"]
  /\ contract = "none" /\ applet \in Pairs /\ camera \in [Dmas -> Pairs]
  /\ streaming = {} /\ todo = {} /\ touched = {}
  /\ lastError = "none" /\ pc = "idle" /\ op = "none"
  /\ sync \in {NoSync(d) : d \in Dmas}
  /\ verdict = [d \in Dmas |-> "none"]

-----------------------------------------------------------------------------
(* How an operation begins and ends.                                       *)

\* verdict starts over: it tells of the alignments of this operation.
Begin(name, step, cameras) ==
  /\ pc = "idle"
  /\ op' = name /\ pc' = step /\ todo' = cameras
  /\ verdict' = [d \in Dmas |-> "none"] /\ returned' = FALSE
  /\ UNCHANGED sync

\* The rest of adoptBoard, once the handle is the session's.
Open ==
  /\ ~board
  /\ board' = TRUE /\ lastError' = "none"
  /\ contract' \in {"both", "one", "none"} /\ applet' \in Pairs
  /\ Begin("open", "scan", {})
  /\ UNCHANGED <<cached, found, sdk, camera, running, streaming, touched>>

\* closeUnlocked: acquisition is stopped before the handles are released.
Close ==
  /\ board /\ pc = "idle"
  /\ board' = FALSE /\ running' = FALSE /\ streaming' = {} /\ returned' = FALSE
  /\ cached' = [d \in Dmas |-> "absent"] /\ sdk' = [d \in Dmas |-> "gone"]
  /\ UNCHANGED <<found, contract, applet, camera, lastError, pc, op, todo, sync, verdict, touched>>

RefreshCameras ==
  /\ board /\ ~running
  /\ Begin("refresh", "clear", {})
  /\ UNCHANGED <<devices, session, lastError, touched>>

\* Fg_loadConfig, by loadAppletConfiguration, which discovers the cameras again,
\* or by loadConfiguration, which does not.
Configure ==
  /\ board /\ ~running
  /\ \/ /\ applet' \in Pairs /\ touched' = Dmas /\ lastError' = "none"
        /\ Begin("configure", "clear", {}) \/ Begin("configure", "sync", Connected)
     \/ /\ pc = "idle" /\ lastError' = "sdk" /\ returned' = FALSE
        /\ UNCHANGED <<applet, touched, pc, op, todo, sync, verdict>>
  /\ UNCHANGED <<sdk, contract, camera, running, streaming, session>>

Grab ==
  /\ board /\ ~running /\ pc = "idle"
  /\ running' = TRUE /\ returned' = FALSE
  /\ UNCHANGED <<sdk, contract, applet, camera, streaming, session, op, todo, sync, verdict,
                 touched, lastError, pc>>

\* It waits for a start that is under way.
Stop ==
  /\ running /\ pc = "idle"
  /\ running' = FALSE /\ streaming' = {} /\ returned' = FALSE
  /\ UNCHANGED <<sdk, contract, applet, camera, session, op, todo, sync, verdict, touched,
                 lastError, pc>>

-----------------------------------------------------------------------------
(* connectCamera and disconnectCamera                                      *)

\* connectCameraUnlocked finds d connected, or connects it.
Connects(d) ==
  /\ cached[d] # "absent"
  /\ cached' = [cached EXCEPT ![d] = "connected"]
  /\ sdk' = [sdk EXCEPT ![d] = "connected"]

ConnectFails(d) == cached[d] # "connected" /\ UNCHANGED <<cached, sdk>>

ConnectCamera(d) ==
  /\ ~running
  /\ \/ Connects(d) /\ lastError' = "none" /\ Begin("connect", "sync", {d})
     \/ /\ ConnectFails(d) /\ pc = "idle" /\ lastError' = "sdk" /\ returned' = FALSE
        /\ UNCHANGED <<pc, op, todo, sync, verdict>>
  /\ UNCHANGED <<board, found, contract, applet, camera, running, streaming, touched>>

DisconnectCamera(d) ==
  /\ ~running /\ pc = "idle" /\ returned' = FALSE
  /\ \/ /\ cached[d] = "connected" /\ lastError' = "none"
        /\ cached' = [cached EXCEPT ![d] = "listed"] /\ sdk' = [sdk EXCEPT ![d] = "known"]
     \/ cached[d] = "connected" /\ lastError' = "sdk" /\ UNCHANGED <<cached, sdk>>
     \/ cached[d] # "connected" /\ lastError' = "none" /\ UNCHANGED <<cached, sdk>>
  /\ UNCHANGED <<board, found, contract, applet, camera, running, streaming, pc, op, todo, sync,
                 verdict, touched>>

\* Either one while acquisition runs: a worker may be in its start meanwhile.
Refuse ==
  /\ running /\ lastError' = "refused"
  /\ UNCHANGED <<devices, session, progress, touched, pc>>

-----------------------------------------------------------------------------
(* refreshCamerasUnlocked                                                  *)

\* A Sgc_disconnectCamera that fails is ignored.
ClearCameras ==
  /\ pc = "clear" /\ pc' = "scan"
  /\ cached' = [d \in Dmas |-> "absent"]
  /\ \E refused \in SUBSET Connected :
       sdk' = [d \in Dmas |-> IF d \in Connected \ refused THEN "known" ELSE sdk[d]]
  /\ UNCHANGED <<board, found, contract, applet, camera, running, streaming, progress, touched,
                 lastError>>

\* A scan restarts the discovery, whose handles are new ones.  When it fails,
\* the list stays empty; a topology mismatch does not keep cameras off it.
ScanPorts ==
  /\ pc = "scan"
  /\ \/ pc' = "sync" /\ UNCHANGED <<found, sdk>>
     \/ \E present \in SUBSET Dmas :
          /\ found' = [d \in Dmas |-> IF d \in present THEN "listed" ELSE "absent"]
          /\ sdk' = [d \in Dmas |-> IF d \in present THEN "known" ELSE "gone"]
          /\ pc' = "connect"
  /\ UNCHANGED <<board, cached, contract, applet, camera, running, streaming, progress, touched,
                 lastError>>

\* Mutant: a camera is published as connected whether it connected or not.
ConnectFound_Unchecked ==
  /\ pc = "connect" /\ pc' = "publish"
  /\ \E refused \in SUBSET {d \in Dmas : found[d] = "listed"} :
       /\ found' = [d \in Dmas |-> IF found[d] = "listed" THEN "connected" ELSE found[d]]
       /\ sdk' = [d \in Dmas |-> IF found[d] = "listed" /\ d \notin refused
                                   THEN "connected" ELSE sdk[d]]
  /\ UNCHANGED <<board, cached, contract, applet, camera, running, streaming, progress, touched,
                 lastError>>

ConnectFound ==
  /\ pc = "connect" /\ pc' = "publish"
  /\ \E refused \in SUBSET {d \in Dmas : found[d] = "listed"} :
       LET connects(d) == found[d] = "listed" /\ d \notin refused IN
       /\ found' = [d \in Dmas |-> IF connects(d) THEN "connected" ELSE found[d]]
       /\ sdk' = [d \in Dmas |-> IF connects(d) THEN "connected" ELSE sdk[d]]
  /\ UNCHANGED <<board, cached, contract, applet, camera, running, streaming, progress, touched,
                 lastError>>

\* The list is replaced, and every camera that connected is to be aligned.
Publish ==
  /\ pc = "publish" /\ pc' = "sync"
  /\ cached' = found /\ found' = [d \in Dmas |-> "absent"]
  /\ todo' = {d \in Dmas : found[d] = "connected"}
  /\ UNCHANGED <<devices, board, op, sync, verdict, returned, touched, lastError>>

-----------------------------------------------------------------------------
(* synchronizeCameraGeometryToApplet: one camera after the other           *)

\* Mutant: "allApplied && synchronizeCameraGeometry(dmaIndex)".
NextCamera_ShortCircuits ==
  /\ pc = "sync"
  /\ \E d \in todo :
       /\ todo' = todo \ {d}
       /\ IF \E other \in Dmas : verdict[other] \in Failures
            THEN UNCHANGED <<sync, touched, pc>>
            ELSE /\ sync' = [NoSync(d) EXCEPT !.phase = "applet"]
                 /\ touched' = touched \ {d} /\ pc' = "geometry"
  /\ UNCHANGED <<devices, session, op, verdict, returned, lastError>>

NextCamera ==
  /\ pc = "sync" /\ pc' = "geometry"
  /\ \E d \in todo :
       /\ todo' = todo \ {d}
       /\ sync' = [NoSync(d) EXCEPT !.phase = "applet"]
       /\ touched' = touched \ {d}
  /\ UNCHANGED <<devices, session, op, verdict, returned, lastError>>

\* Mutant: a worker starts its camera whatever the alignment returned.
AllAligned_Starts ==
  /\ pc = "sync" /\ todo = {}
  /\ pc' = IF op = "start" THEN "stream" ELSE "idle"
  /\ returned' = (pc' = "idle")
  /\ UNCHANGED <<devices, session, op, todo, sync, verdict, touched, lastError>>

AllAligned ==
  /\ pc = "sync" /\ todo = {}
  /\ pc' = IF op = "start" /\ verdict[sync.dma] \notin Failures THEN "stream" ELSE "idle"
  /\ returned' = (pc' = "idle")
  /\ UNCHANGED <<devices, session, op, todo, sync, verdict, touched, lastError>>

-----------------------------------------------------------------------------
(* synchronizeCameraGeometry: read the applet, read the camera, write it,  *)
(* read it back, and roll it back if it is not what was asked for.         *)

D == sync.dma

\* A failure is told by lastError; the others leave it alone.
Conclude(outcome) ==
  /\ verdict' = [verdict EXCEPT ![D] = outcome]
  /\ lastError' = IF outcome \in Failures THEN "geometry" ELSE lastError
  /\ sync' = [NoSync(D) EXCEPT !.before = sync.before]
  /\ pc' = "sync"

Proceeds(next) == sync' = next /\ UNCHANGED <<verdict, lastError, pc>>

AtPhase(phase, step) == [step EXCEPT !.phase = phase, !.axis = "Width", !.verify = FALSE,
                                     !.seen = Blank]

InGeometry ==
  /\ pc = "geometry"
  /\ UNCHANGED <<sdk, contract, applet, running, streaming, session, op, todo, returned>>

\* Mutant: Width is read, and Height is not.
ReadApplet_OneAxis ==
  /\ InGeometry /\ sync.phase = "applet"
  /\ \/ contract = "none" /\ Conclude("notApplicable")
     \/ contract # "none" /\ Conclude("failed")
     \/ /\ contract = "both"
        /\ Proceeds(AtPhase("before", [sync EXCEPT !.target[sync.axis] = applet[sync.axis]]))
  /\ UNCHANGED <<camera, touched>>

\* Also fails when the applet's values are not positive.
ReadApplet ==
  /\ InGeometry /\ sync.phase = "applet"
  /\ \/ contract = "none" /\ Conclude("notApplicable")
     \/ contract # "none" /\ Conclude("failed")
     \/ /\ contract = "both"
        /\ LET read == [sync EXCEPT !.target[sync.axis] = applet[sync.axis]] IN
           Proceeds(IF sync.axis = "Width" THEN [read EXCEPT !.axis = "Height"]
                    ELSE AtPhase("before", read))
  /\ UNCHANGED <<camera, touched>>

\* Mutant: a rollback that was written is taken to have restored the pair.
Compare_TrustsRollback(seen) ==
  CASE sync.phase = "before" ->
         IF seen = sync.target THEN Conclude("applied")
         ELSE Proceeds(AtPhase("write", [sync EXCEPT !.before = seen]))
    [] sync.phase = "readBack" ->
         IF seen = sync.target THEN Conclude("applied") ELSE Proceeds(AtPhase("rollback", sync))
    [] sync.phase = "restored" -> Conclude("restored")

Compare(seen) ==
  CASE sync.phase = "before" ->
         IF seen = sync.target THEN Conclude("applied")
         ELSE Proceeds(AtPhase("write", [sync EXCEPT !.before = seen]))
    [] sync.phase = "readBack" ->
         IF seen = sync.target THEN Conclude("applied") ELSE Proceeds(AtPhase("rollback", sync))
    [] sync.phase = "restored" ->
         Conclude(IF seen = sync.before THEN "restored" ELSE "unrestored")

ReadCamera ==
  /\ InGeometry /\ sync.phase \in {"before", "readBack", "restored"}
  /\ LET seen == [sync.seen EXCEPT ![sync.axis] = camera[D][sync.axis]] IN
     IF sync.axis = "Width" THEN Proceeds([sync EXCEPT !.seen = seen, !.axis = "Height"])
     ELSE Compare(seen)
  /\ UNCHANGED <<camera, touched>>

ReadCameraFails ==
  /\ InGeometry
  /\ \/ sync.phase = "before" /\ Conclude("failed")
     \/ sync.phase = "readBack" /\ Proceeds(AtPhase("rollback", sync))
     \/ sync.phase = "restored" /\ Conclude("unrestored")
  /\ UNCHANGED <<camera, touched>>

\* setCameraFeature writes one axis ...
WriteAxis ==
  /\ InGeometry /\ sync.phase \in {"write", "rollback"} /\ ~sync.verify
  /\ \E pair \in Pairs : camera' = [camera EXCEPT ![D] = pair]
  /\ Proceeds([sync EXCEPT !.verify = TRUE])
  /\ UNCHANGED touched

Wanted == IF sync.phase = "write" THEN sync.target ELSE sync.before

\* ... and reads it back.
VerifyAxis ==
  /\ InGeometry /\ sync.verify /\ camera[D][sync.axis] = Wanted[sync.axis]
  /\ Proceeds(IF sync.axis = "Width" THEN [sync EXCEPT !.axis = "Height", !.verify = FALSE]
              ELSE AtPhase(IF sync.phase = "write" THEN "readBack" ELSE "restored", sync))
  /\ UNCHANGED <<camera, touched>>

\* A write that is refused, or read back as something else, ends the pair.
WriteFails ==
  /\ InGeometry
  /\ \/ sync.phase = "write" /\ Proceeds(AtPhase("rollback", sync))
     \/ sync.phase = "rollback" /\ Conclude("unrestored")
  /\ UNCHANGED <<camera, touched>>

-----------------------------------------------------------------------------
(* startCameraAcquisitionForChannel of a worker                            *)

StartWorker(d) ==
  /\ running /\ board /\ d \notin streaming
  /\ \/ Connects(d) /\ Begin("start", "sync", {d}) /\ UNCHANGED lastError
     \/ /\ ConnectFails(d) /\ pc = "idle" /\ lastError' = "sdk" /\ returned' = FALSE
        /\ UNCHANGED <<pc, op, todo, sync, verdict>>
  /\ UNCHANGED <<board, found, contract, applet, camera, running, streaming, touched>>

StreamCamera ==
  /\ pc = "stream" /\ pc' = "idle" /\ returned' = TRUE
  /\ \/ streaming' = streaming \cup {D} /\ UNCHANGED lastError
     \/ lastError' = "sdk" /\ UNCHANGED streaming
  /\ UNCHANGED <<sdk, contract, applet, camera, running, session, op, todo, sync, verdict, touched>>

-----------------------------------------------------------------------------
(* The GUI                                                                 *)

WriteCameraFeature(d) ==
  /\ cached[d] = "connected"
  /\ \E pair \in Pairs : camera' = [camera EXCEPT ![d] = pair]
  /\ touched' = touched \cup {d}
  /\ UNCHANGED <<sdk, contract, applet, running, streaming, session, progress, lastError, pc>>

WriteAppletGeometry ==
  /\ board /\ contract # "none"
  /\ applet' \in Pairs /\ touched' = Dmas
  /\ UNCHANGED <<sdk, contract, camera, running, streaming, session, progress, lastError, pc>>

-----------------------------------------------------------------------------
Operation ==
  \/ Open \/ Close \/ RefreshCameras \/ Configure \/ Grab \/ Stop
  \/ \E d \in Dmas : ConnectCamera(d) \/ DisconnectCamera(d) \/ StartWorker(d)
  \/ Refuse

Steps ==
  \/ ClearCameras \/ ScanPorts \/ ConnectFound \/ Publish
  \/ NextCamera \/ AllAligned \/ ReadApplet \/ ReadCamera \/ ReadCameraFails
  \/ WriteAxis \/ VerifyAxis \/ WriteFails \/ StreamCamera

Gui == (\E d \in Dmas : WriteCameraFeature(d)) \/ WriteAppletGeometry

Next == Operation \/ Steps \/ Gui

Spec == Init /\ [][Next]_vars

-----------------------------------------------------------------------------
\* The cached cameras are of the discovery the SDK has: no handle of an earlier
\* one, or of a board that was freed, is left for the next call, and a camera said
\* to be connected is.
CachedHandlesValid ==
  \A d \in Dmas : /\ cached[d] # "absent" => sdk[d] # "gone"
                  /\ cached[d] = "connected" => sdk[d] = "connected"

\* "Applied": as long as nobody else writes, a camera that was aligned has the
\* applet's pair, whatever it does with one axis when the other is written.
AppliedIsAligned ==
  \A d \in Dmas : verdict[d] = "applied" /\ d \notin touched => camera[d] = applet

\* README: "the previous pair is restored when the rollback read-back verifies it":
\* when the error says so, the camera has the pair it had before.
RestoredIsTrue ==
  verdict[D] = "restored" /\ D \notin touched => camera[D] = sync.before

\* What a synchronization says of a camera's pair is what the camera has.
VerdictIsTrue == AppliedIsAligned /\ RestoredIsTrue

\* README: "Refresh synchronizes every camera that connected, even when another
\* channel failed."  Any operation that aligns has tried every connected camera when
\* it returns, and lastError tells of a failure.
EveryCameraTried ==
  returned /\ op \in {"open", "refresh", "configure"} =>
    /\ \A d \in Connected : verdict[d] # "none"
    /\ (\E d \in Dmas : verdict[d] \in Failures) => lastError # "none"

\* Framegrabber.cpp: "Synchronize before this DMA starts so a camera that connected
\* late still matches the applet geometry": no camera streams a picture of another
\* size than the applet's, unless it was changed by hand.
StreamsAligned ==
  \A d \in streaming :
    /\ cached[d] = "connected"
    /\ contract # "none" /\ d \notin touched => camera[d] = applet
=============================================================================
