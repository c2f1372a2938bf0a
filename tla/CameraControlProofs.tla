------------------------- MODULE CameraControlProofs -------------------------
(***************************************************************************)
(* Proofs about CameraControl for any set of DMA channels and of sizes.    *)
(***************************************************************************)
EXTENDS CameraControl, TLAPS

-----------------------------------------------------------------------------
(* The inductive invariant                                                 *)

Discovering == {"clear", "scan", "connect", "publish"}
Aligning    == {"sync", "geometry"}

\* While an operation is under way nobody starts or ends a run, and only a worker's
\* start is under way while one is on.
OperationInv ==
  /\ ~board => /\ pc = "idle" /\ ~running
               /\ \A d \in Dmas : cached[d] = "absent"
  /\ pc # "idle" => ~returned /\ (op = "start" <=> running)
  /\ op = "start" => pc \notin Discovering
  /\ pc = "stream" => op = "start"
  /\ streaming # {} => running

\* A discovery forgets the cameras before their handles become invalid.
DiscoveryInv ==
  /\ pc \in Discovering \ {"clear"} => \A d \in Dmas : cached[d] = "absent"
  /\ pc = "connect" => \A d \in Dmas : /\ found[d] # "connected"
                                       /\ found[d] = "listed" => sdk[d] = "known"
  /\ pc = "publish" => \A d \in Dmas : /\ found[d] # "absent" => sdk[d] # "gone"
                                       /\ found[d] = "connected" => sdk[d] = "connected"

\* Every connected camera has been aligned, is being aligned or is still to be.
TodoInv ==
  /\ pc \in Discovering => todo = {} /\ \A d \in Dmas : verdict[d] = "none"
  /\ pc \in Aligning => \A d \in todo : cached[d] = "connected" /\ verdict[d] = "none"
  /\ pc = "geometry" <=> sync.phase # "done"
  /\ pc = "geometry" => D \notin todo /\ cached[D] = "connected" /\ verdict[D] = "none"
  /\ pc \in Aligning /\ op \notin {"connect", "start"} =>
       \A d \in Dmas : cached[d] = "connected" =>
         \/ d \in todo \/ verdict[d] # "none"
         \/ pc = "geometry" /\ d = D

\* The error of an operation is not cleared before the next one.
ErrorInv ==
  returned \/ pc # "idle" => \A d \in Dmas : verdict[d] \in Failures => lastError # "none"

\* Unless somebody else writes, the values read so far are those there are.
SyncInv ==
  /\ sync.verify => sync.phase \in {"write", "rollback"}
  /\ sync.phase = "applet" /\ sync.axis = "Height" => sync.target["Width"] \in Sizes
  /\ D \notin touched =>
       /\ sync.phase = "applet" /\ sync.axis = "Height"
            => sync.target["Width"] = applet["Width"]
       /\ sync.phase \in {"before", "write", "readBack"} => sync.target = applet
       /\ sync.phase \in {"before", "readBack", "restored"} /\ sync.axis = "Height"
            => sync.seen["Width"] = camera[D]["Width"]
  /\ sync.phase \in {"before", "readBack", "restored"} /\ sync.axis = "Height"
       => sync.seen["Width"] \in Sizes

\* A worker streams the camera it has aligned, and it aligns no camera that streams.
StartInv ==
  /\ pc \in Aligning => \A d \in todo : d \notin streaming
  /\ pc = "geometry" => D \notin streaming
  /\ pc = "sync" /\ op = "start" /\ todo = {} => cached[D] = "connected" /\ verdict[D] # "none"
  /\ pc = "stream" => cached[D] = "connected" /\ verdict[D] \in {"applied", "notApplicable"}
  /\ \A d \in Dmas : verdict[d] = "notApplicable" => contract = "none"

IInv ==
  /\ TypeOK /\ OperationInv /\ DiscoveryInv /\ TodoInv /\ ErrorInv /\ SyncInv /\ StartInv
  /\ CachedHandlesValid /\ VerdictIsTrue /\ EveryCameraTried /\ StreamsAligned

-----------------------------------------------------------------------------
(* What a step does to the record of the alignment, field by field         *)

Phases == {"done", "applet", "before", "write", "readBack", "rollback", "restored"}

Syncs == [dma : Dmas, axis : Axes, verify : BOOLEAN, target : Reads, before : Reads,
          seen : Reads, phase : Phases]

\* The record of the alignment becomes this one.
Becomes(phase, axis, verify, target, before, seen) ==
  /\ sync' \in Syncs
  /\ sync'.dma = D /\ sync'.phase = phase /\ sync'.axis = axis /\ sync'.verify = verify
  /\ sync'.target = target /\ sync'.before = before /\ sync'.seen = seen

\* The alignment goes on, at this place.
Moves(phase, axis, verify, target, before, seen) ==
  /\ Becomes(phase, axis, verify, target, before, seen)
  /\ UNCHANGED <<verdict, lastError, pc>>

\* The alignment ends with this outcome.
Ends(outcome) ==
  /\ Becomes("done", "Width", FALSE, Blank, sync.before, Blank)
  /\ verdict' = [verdict EXCEPT ![D] = outcome]
  /\ lastError' = IF outcome \in Failures THEN "geometry" ELSE lastError
  /\ pc' = "sync"

\* It only reads.
Quiet == InGeometry /\ UNCHANGED <<camera, touched>>

\* The applet's value, or the camera's, of the axis being read, put with the other one.
Target == [sync.target EXCEPT ![sync.axis] = applet[sync.axis]]
Seen   == [sync.seen EXCEPT ![sync.axis] = camera[D][sync.axis]]

\* No values are read when a pair starts over.
LEMMA BlankIsUnread == Blank \in Reads
BY DEF Blank, Reads

\* The records that Conclude, AtPhase and the steps along the axes leave behind.
LEMMA Records ==
  ASSUME TypeOK
  PROVE  /\ sync \in Syncs /\ Seen \in Reads
         /\ \A outcome : Conclude(outcome) => Ends(outcome)
         /\ \A p \in Phases : Proceeds(AtPhase(p, sync)) =>
              Moves(p, "Width", FALSE, sync.target, sync.before, Blank)
<1>1. sync \in Syncs
  BY DEF TypeOK, Syncs, Phases
<1>2. Seen \in Reads
  BY <1>1 DEF TypeOK, Syncs, Seen, D, Reads, Pairs
<1>3. ASSUME NEW outcome, Conclude(outcome) PROVE Ends(outcome)
  <2>1. Becomes("done", "Width", FALSE, Blank, sync.before, Blank)
    BY <1>1, <1>3, BlankIsUnread DEF Conclude, Becomes, D, Syncs, NoSync, Axes, Phases
  <2> QED
    BY <1>3, <2>1 DEF Conclude, Ends
<1>4. ASSUME NEW p \in Phases, Proceeds(AtPhase(p, sync))
      PROVE  Moves(p, "Width", FALSE, sync.target, sync.before, Blank)
  BY <1>1, <1>4, BlankIsUnread DEF Proceeds, AtPhase, Becomes, Moves, D, Syncs, Axes, Phases
<1> QED
  BY <1>1, <1>2, <1>3, <1>4

\* ReadApplet: no geometry to align, a failure, or one axis read after the other.
LEMMA ReadAppletCases ==
  ASSUME TypeOK, ReadApplet
  PROVE  /\ Quiet /\ sync.phase = "applet"
         /\ \/ contract = "none" /\ Ends("notApplicable")
            \/ contract # "none" /\ Ends("failed")
            \/ /\ contract = "both" /\ sync.axis = "Width"
               /\ Moves("applet", "Height", sync.verify, Target, sync.before, sync.seen)
            \/ /\ contract = "both" /\ sync.axis = "Height"
               /\ Moves("before", "Width", FALSE, Target, sync.before, Blank)
<1> DEFINE read == [sync EXCEPT !.target[sync.axis] = applet[sync.axis]]
<1>1. sync \in Syncs
  BY Records
<1>2. ASSUME sync.axis = "Width", Proceeds([read EXCEPT !.axis = "Height"]), sync.phase = "applet"
      PROVE  Moves("applet", "Height", sync.verify, Target, sync.before, sync.seen)
  BY <1>1, <1>2 DEF TypeOK, Proceeds, Moves, Becomes, Target, D, Syncs, Axes, Reads, Pairs, Phases
<1>3. ASSUME Proceeds(AtPhase("before", read))
      PROVE  Moves("before", "Width", FALSE, Target, sync.before, Blank)
  BY <1>1, <1>3, BlankIsUnread
     DEF TypeOK, Proceeds, AtPhase, Moves, Becomes, Target, D, Syncs, Axes, Reads, Pairs, Phases
<1>4. sync.axis \in Axes
  BY <1>1 DEF Syncs
<1> HIDE DEF read
<1>5. \/ contract = "none" /\ Conclude("notApplicable")
      \/ contract # "none" /\ Conclude("failed")
      \/ /\ contract = "both"
         /\ Proceeds(IF sync.axis = "Width" THEN [read EXCEPT !.axis = "Height"]
                     ELSE AtPhase("before", read))
  BY DEF ReadApplet, read
<1>6. Quiet /\ sync.phase = "applet"
  BY DEF ReadApplet, Quiet
<1> QED
  BY <1>2, <1>3, <1>4, <1>5, <1>6, Records DEF Axes

\* ReadCamera: Width is kept, and Height completes a pair that is compared.
LEMMA ReadCameraCases ==
  ASSUME TypeOK, ReadCamera
  PROVE  /\ Quiet
         /\ \/ /\ sync.axis = "Width" /\ sync.phase \in {"before", "readBack", "restored"}
               /\ Moves(sync.phase, "Height", sync.verify, sync.target, sync.before, Seen)
            \/ /\ sync.axis = "Height"
               /\ \/ /\ sync.phase \in {"before", "readBack"} /\ Seen = sync.target
                     /\ Ends("applied")
                  \/ /\ sync.phase = "before" /\ Seen # sync.target
                     /\ Moves("write", "Width", FALSE, sync.target, Seen, Blank)
                  \/ /\ sync.phase = "readBack" /\ Seen # sync.target
                     /\ Moves("rollback", "Width", FALSE, sync.target, sync.before, Blank)
                  \/ sync.phase = "restored" /\ Seen = sync.before /\ Ends("restored")
                  \/ sync.phase = "restored" /\ Seen # sync.before /\ Ends("unrestored")
<1>1. /\ Quiet /\ sync.phase \in {"before", "readBack", "restored"}
      /\ IF sync.axis = "Width" THEN Proceeds([sync EXCEPT !.seen = Seen, !.axis = "Height"])
         ELSE Compare(Seen)
  BY DEF ReadCamera, Quiet, Seen
<1>2. sync \in Syncs /\ sync.axis \in Axes /\ Seen \in Reads
  BY Records DEF Syncs
<1>3. CASE sync.axis = "Width"
  <2>1. Moves(sync.phase, "Height", sync.verify, sync.target, sync.before, Seen)
    BY <1>1, <1>2, <1>3 DEF Proceeds, Moves, Becomes, D, Syncs, Axes
  <2> QED
    BY <1>1, <1>3, <2>1
<1>4. CASE sync.axis = "Height"
  <2>1. Compare(Seen)
    BY <1>1, <1>4
  <2>2. ASSUME Proceeds(AtPhase("write", [sync EXCEPT !.before = Seen]))
        PROVE  Moves("write", "Width", FALSE, sync.target, Seen, Blank)
    BY <1>2, <2>2, BlankIsUnread DEF Proceeds, AtPhase, Moves, Becomes, D, Syncs, Axes, Phases
  <2>3. CASE sync.phase = "before"
    BY <1>1, <1>4, <2>1, <2>2, <2>3, Records DEF Compare
  <2>4. CASE sync.phase = "readBack"
    BY <1>1, <1>4, <2>1, <2>4, Records DEF Compare, Phases
  <2>5. CASE sync.phase = "restored"
    BY <1>1, <1>4, <2>1, <2>5, Records DEF Compare
  <2> QED
    BY <1>1, <2>3, <2>4, <2>5
<1> QED
  BY <1>2, <1>3, <1>4 DEF Axes

\* ReadCameraFails and WriteFails: the pair is rolled back, or it ends.
LEMMA FailureCases ==
  ASSUME TypeOK, ReadCameraFails \/ WriteFails
  PROVE  /\ Quiet
         /\ \/ sync.phase = "before" /\ Ends("failed")
            \/ sync.phase \in {"restored", "rollback"} /\ Ends("unrestored")
            \/ /\ sync.phase \in {"readBack", "write"}
               /\ Moves("rollback", "Width", FALSE, sync.target, sync.before, Blank)
<1>1. Quiet
  BY DEF ReadCameraFails, WriteFails, Quiet
<1>2. \/ sync.phase = "before" /\ Conclude("failed")
      \/ sync.phase \in {"restored", "rollback"} /\ Conclude("unrestored")
      \/ sync.phase \in {"readBack", "write"} /\ Proceeds(AtPhase("rollback", sync))
  BY DEF ReadCameraFails, WriteFails
<1> QED
  BY <1>1, <1>2, Records DEF Phases

\* WriteAxis and VerifyAxis: one axis is written and read back, then the other.
LEMMA WriteCases ==
  ASSUME TypeOK
  PROVE  /\ WriteAxis =>
              /\ InGeometry /\ sync.phase \in {"write", "rollback"} /\ ~sync.verify
              /\ \E pair \in Pairs : camera' = [camera EXCEPT ![D] = pair]
              /\ Moves(sync.phase, sync.axis, TRUE, sync.target, sync.before, sync.seen)
              /\ UNCHANGED touched
         /\ VerifyAxis =>
              /\ Quiet /\ sync.verify
              /\ \/ /\ sync.axis = "Width"
                    /\ Moves(sync.phase, "Height", FALSE, sync.target, sync.before, sync.seen)
                 \/ /\ sync.axis = "Height"
                    /\ Moves(IF sync.phase = "write" THEN "readBack" ELSE "restored", "Width",
                             FALSE, sync.target, sync.before, Blank)
<1>1. sync \in Syncs /\ sync.axis \in Axes
  BY Records DEF Syncs
<1>2. ASSUME Proceeds([sync EXCEPT !.verify = TRUE])
      PROVE  Moves(sync.phase, sync.axis, TRUE, sync.target, sync.before, sync.seen)
  BY <1>1, <1>2 DEF Proceeds, Moves, Becomes, D, Syncs
<1>3. ASSUME Proceeds([sync EXCEPT !.axis = "Height", !.verify = FALSE])
      PROVE  Moves(sync.phase, "Height", FALSE, sync.target, sync.before, sync.seen)
  BY <1>1, <1>3 DEF Proceeds, Moves, Becomes, D, Syncs, Axes
<1>4. WriteAxis =>
        /\ InGeometry /\ sync.phase \in {"write", "rollback"} /\ ~sync.verify
        /\ \E pair \in Pairs : camera' = [camera EXCEPT ![D] = pair]
        /\ Moves(sync.phase, sync.axis, TRUE, sync.target, sync.before, sync.seen)
        /\ UNCHANGED touched
  BY <1>2 DEF WriteAxis
<1>5. VerifyAxis =>
        /\ Quiet /\ sync.verify
        /\ \/ /\ sync.axis = "Width"
              /\ Moves(sync.phase, "Height", FALSE, sync.target, sync.before, sync.seen)
           \/ /\ sync.axis = "Height"
              /\ Moves(IF sync.phase = "write" THEN "readBack" ELSE "restored", "Width",
                       FALSE, sync.target, sync.before, Blank)
  <2> SUFFICES ASSUME VerifyAxis
               PROVE  /\ Quiet /\ sync.verify
                      /\ \/ /\ sync.axis = "Width"
                            /\ Moves(sync.phase, "Height", FALSE, sync.target, sync.before,
                                     sync.seen)
                         \/ /\ sync.axis = "Height"
                            /\ Moves(IF sync.phase = "write" THEN "readBack" ELSE "restored",
                                     "Width", FALSE, sync.target, sync.before, Blank)
    OBVIOUS
  <2>1. Quiet /\ sync.verify
    BY DEF VerifyAxis, Quiet
  <2>2. CASE sync.axis = "Width"
    BY <1>3, <2>1, <2>2 DEF VerifyAxis
  <2>3. CASE sync.axis = "Height"
    <3>1. Proceeds(AtPhase(IF sync.phase = "write" THEN "readBack" ELSE "restored", sync))
      BY <2>3 DEF VerifyAxis
    <3>2. CASE sync.phase = "write"
      BY <2>1, <2>3, <3>1, <3>2, Records DEF Phases
    <3>3. CASE sync.phase # "write"
      BY <2>1, <2>3, <3>1, <3>3, Records DEF Phases
    <3> QED
      BY <3>2, <3>3
  <2> QED
    BY <1>1, <2>2, <2>3 DEF Axes
<1> QED
  BY <1>4, <1>5

\* NextCamera begins with the camera's record blank.
LEMMA NextCameraCases ==
  ASSUME TypeOK, NextCamera
  PROVE  /\ UNCHANGED <<devices, session, op, verdict, returned, lastError>>
         /\ pc = "sync" /\ pc' = "geometry"
         /\ sync' \in Syncs /\ sync'.dma \in todo /\ todo' = todo \ {sync'.dma}
         /\ touched' = touched \ {sync'.dma}
         /\ sync'.phase = "applet" /\ sync'.axis = "Width" /\ ~sync'.verify
<1>1. PICK d \in todo : /\ todo' = todo \ {d} /\ touched' = touched \ {d}
                        /\ sync' = [NoSync(d) EXCEPT !.phase = "applet"]
  BY DEF NextCamera
<1>2. d \in Dmas
  BY DEF TypeOK
<1>3. /\ sync' \in Syncs /\ sync'.dma = d
      /\ sync'.phase = "applet" /\ sync'.axis = "Width" /\ ~sync'.verify
  BY <1>1, <1>2, BlankIsUnread DEF NoSync, Syncs, Axes, Phases
<1> QED
  BY <1>1, <1>3 DEF NextCamera

-----------------------------------------------------------------------------
(* What all steps of an alignment have in common                           *)

GeometryStep ==
  ReadApplet \/ ReadCamera \/ ReadCameraFails \/ WriteAxis \/ VerifyAxis \/ WriteFails

\* The alignment goes on ...
Continues == sync'.phase # "done" /\ UNCHANGED <<verdict, lastError, pc>>

\* ... or its outcome is told, for a reason that the values read give.
Justified(outcome) ==
  /\ outcome = "notApplicable" => contract = "none"
  /\ outcome = "applied" => /\ sync.phase \in {"before", "readBack"} /\ sync.axis = "Height"
                            /\ Seen = sync.target
  /\ outcome = "restored" => /\ sync.phase = "restored" /\ sync.axis = "Height"
                             /\ Seen = sync.before

Concludes ==
  \E outcome \in {"notApplicable", "applied"} \cup Failures :
    /\ Justified(outcome)
    /\ sync.phase # "done" /\ sync'.phase = "done" /\ sync'.before = sync.before
    /\ verdict' = [verdict EXCEPT ![sync.dma] = outcome]
    /\ lastError' = IF outcome \in Failures THEN "geometry" ELSE lastError
    /\ pc' = "sync" /\ camera' = camera

\* What the applet and the camera gave: a whole pair once the second axis is read, and the
\* one there is if nobody else writes.
LEMMA PairsRead ==
  ASSUME TypeOK, SyncInv
  PROVE  /\ sync.phase = "applet" /\ sync.axis = "Height" =>
              Target \in Pairs /\ (D \notin touched => Target = applet)
         /\ sync.phase \in {"before", "readBack", "restored"} /\ sync.axis = "Height" =>
              Seen \in Pairs /\ (D \notin touched => Seen = camera[D])
         /\ sync.axis = "Width" => /\ Target \in Reads /\ Target["Width"] = applet["Width"]
                                   /\ Seen["Width"] = camera[D]["Width"]
                                   /\ applet["Width"] \in Sizes /\ camera[D]["Width"] \in Sizes
<1> USE Records DEF Syncs, Axes, Pairs, Reads, D
<1>1. /\ sync.target \in Reads /\ sync.seen \in Reads
      /\ applet \in Pairs /\ camera[D] \in Pairs
  BY DEF TypeOK
<1>2. ASSUME sync.phase = "applet", sync.axis = "Height"
      PROVE  Target \in Pairs /\ (D \notin touched => Target = applet)
  BY <1>1, <1>2 DEF SyncInv, Target
<1>3. ASSUME sync.phase \in {"before", "readBack", "restored"}, sync.axis = "Height"
      PROVE  Seen \in Pairs /\ (D \notin touched => Seen = camera[D])
  BY <1>1, <1>3 DEF SyncInv, Seen
<1>4. ASSUME sync.axis = "Width"
      PROVE  /\ Target \in Reads /\ Target["Width"] = applet["Width"]
             /\ Seen["Width"] = camera[D]["Width"]
             /\ applet["Width"] \in Sizes /\ camera[D]["Width"] \in Sizes
  BY <1>1, <1>4 DEF Target, Seen
<1> QED
  BY <1>2, <1>3, <1>4

\* Every step of an alignment continues or concludes it, and leaves the rest alone: only the
\* camera being aligned is written.
LEMMA GeometrySteps ==
  ASSUME TypeOK, SyncInv, GeometryStep
  PROVE  /\ pc = "geometry" /\ sync'.dma = sync.dma
         /\ UNCHANGED <<sdk, contract, applet, running, streaming, board, cached, found, op, todo,
                        touched, returned>>
         /\ camera' \in [Dmas -> Pairs] /\ \A d \in Dmas : d # sync.dma => camera'[d] = camera[d]
         /\ Continues \/ Concludes
<1> USE DEF Quiet, InGeometry, session
<1>1. ASSUME NEW outcome \in {"notApplicable", "applied"} \cup Failures, Ends(outcome),
             Justified(outcome), sync.phase # "done", camera' = camera
      PROVE  Concludes /\ sync'.dma = sync.dma
  BY <1>1 DEF Ends, Becomes, D, Concludes
<1>2. ASSUME NEW p, NEW axis, NEW verify, NEW target, NEW before, NEW seen,
             Moves(p, axis, verify, target, before, seen), p # "done"
      PROVE  Continues /\ sync'.dma = sync.dma
  BY <1>2 DEF Moves, Becomes, D, Continues
<1>3. ASSUME ReadApplet PROVE Quiet /\ (Continues \/ Concludes) /\ sync'.dma = sync.dma
  BY <1>1, <1>2, <1>3, ReadAppletCases DEF Failures, Justified
<1>4. ASSUME ReadCamera PROVE Quiet /\ (Continues \/ Concludes) /\ sync'.dma = sync.dma
  BY <1>1, <1>2, <1>4, ReadCameraCases DEF Failures, Justified
<1>5. ASSUME ReadCameraFails \/ WriteFails
      PROVE  Quiet /\ (Continues \/ Concludes) /\ sync'.dma = sync.dma
  BY <1>1, <1>2, <1>5, FailureCases DEF Failures, Justified
<1>6. ASSUME VerifyAxis PROVE Quiet /\ (Continues \/ Concludes) /\ sync'.dma = sync.dma
  <2>1. sync.phase # "done"
    BY <1>6 DEF VerifyAxis, SyncInv
  <2> QED
    BY <1>2, <1>6, <2>1, WriteCases
<1>7. ASSUME WriteAxis
      PROVE  /\ InGeometry /\ UNCHANGED touched /\ Continues /\ sync'.dma = sync.dma
             /\ \E pair \in Pairs : camera' = [camera EXCEPT ![D] = pair]
  BY <1>2, <1>7, WriteCases
<1> QED
  BY <1>3, <1>4, <1>5, <1>6, <1>7 DEF GeometryStep, TypeOK, D

-----------------------------------------------------------------------------
(* The conjuncts of the invariant                                          *)

\* The types, in four parts.
Plain ==
  /\ board \in BOOLEAN /\ running \in BOOLEAN /\ returned \in BOOLEAN
  /\ contract \in {"both", "one", "none"}
  /\ lastError \in {"none", "refused", "sdk", "geometry"}
  /\ pc \in {"idle", "clear", "scan", "connect", "publish", "sync", "geometry", "stream"}
  /\ op \in {"none", "open", "refresh", "configure", "connect", "start"}

Sets ==
  /\ applet \in Pairs /\ camera \in [Dmas -> Pairs]
  /\ streaming \subseteq Dmas /\ todo \subseteq Dmas /\ touched \subseteq Dmas

Lists ==
  /\ cached \in [Dmas -> {"absent", "listed", "connected"}]
  /\ found \in [Dmas -> {"absent", "listed", "connected"}]
  /\ sdk \in [Dmas -> {"gone", "known", "connected"}]
  /\ verdict \in [Dmas -> {"none", "notApplicable", "applied"} \cup Failures]

SyncOK ==
  /\ sync \in Syncs
  /\ sync.phase \in {"before", "write", "readBack"} => sync.target \in Pairs
  /\ sync.phase \in {"write", "readBack", "rollback", "restored"} => sync.before \in Pairs

\* Flags and places, sets and pairs, what is known of each camera, the alignment.
LEMMA TypesAre == TypeOK <=> Plain /\ Sets /\ Lists /\ SyncOK
BY Zenon DEF TypeOK, Plain, Sets, Lists, SyncOK, Syncs, Phases

\* Flags and places.
LEMMA PlainKept ==
  ASSUME TypeOK, SyncInv, Plain, Next
  PROVE  Plain'
<1> USE DEF Plain, Begin, devices, session, progress
<1>1. CASE Open \/ Close \/ RefreshCameras \/ Configure \/ Grab \/ Stop \/ Refuse
  BY <1>1 DEF Open, Close, RefreshCameras, Configure, Grab, Stop, Refuse
<1>2. ASSUME NEW d \in Dmas,
             ConnectCamera(d) \/ DisconnectCamera(d) \/ StartWorker(d) \/ WriteCameraFeature(d)
      PROVE  Plain'
  BY <1>2 DEF ConnectCamera, DisconnectCamera, StartWorker, WriteCameraFeature
<1>3. CASE ClearCameras \/ ScanPorts \/ ConnectFound \/ Publish
  BY <1>3 DEF ClearCameras, ScanPorts, ConnectFound, Publish
<1>4. CASE NextCamera
  BY <1>4, NextCameraCases
<1>5. CASE AllAligned \/ StreamCamera \/ WriteAppletGeometry
  BY <1>5 DEF AllAligned, StreamCamera, WriteAppletGeometry
<1>6. CASE GeometryStep
  BY <1>6, GeometrySteps DEF Continues, Concludes, Failures
<1> QED
  BY <1>1, <1>2, <1>3, <1>4, <1>5, <1>6 DEF Next, Operation, Steps, Gui, GeometryStep

\* The sets of cameras, and the pairs.
LEMMA SetsKept ==
  ASSUME TypeOK, SyncInv, Sets, Next
  PROVE  Sets'
<1> USE DEF Sets, Begin, devices, session, progress, Connected
<1>1. CASE Open \/ Close \/ RefreshCameras \/ Configure \/ Grab \/ Stop \/ Refuse
  BY <1>1 DEF Open, Close, RefreshCameras, Configure, Grab, Stop, Refuse
<1>2. ASSUME NEW d \in Dmas,
             ConnectCamera(d) \/ DisconnectCamera(d) \/ StartWorker(d) \/ WriteCameraFeature(d)
      PROVE  Sets'
  BY <1>2 DEF ConnectCamera, DisconnectCamera, StartWorker, WriteCameraFeature
<1>3. CASE ClearCameras \/ ScanPorts \/ ConnectFound \/ Publish
  BY <1>3 DEF ClearCameras, ScanPorts, ConnectFound, Publish
<1>4. CASE NextCamera
  BY <1>4, NextCameraCases
<1>5. CASE AllAligned \/ StreamCamera \/ WriteAppletGeometry
  BY <1>5 DEF AllAligned, StreamCamera, WriteAppletGeometry, D, TypeOK
<1>6. CASE GeometryStep
  BY <1>6, GeometrySteps DEF Continues, Concludes
<1> QED
  BY <1>1, <1>2, <1>3, <1>4, <1>5, <1>6 DEF Next, Operation, Steps, Gui, GeometryStep

\* What is known of each camera.
LEMMA ListsKept ==
  ASSUME TypeOK, SyncInv, Lists, Next
  PROVE  Lists'
<1> USE DEF Lists, Begin, Connects, ConnectFails, devices, session, progress, Connected
<1>1. CASE Open \/ Close \/ RefreshCameras \/ Configure \/ Grab \/ Stop \/ Refuse
  BY <1>1 DEF Open, Close, RefreshCameras, Configure, Grab, Stop, Refuse
<1>2. ASSUME NEW d \in Dmas,
             ConnectCamera(d) \/ DisconnectCamera(d) \/ StartWorker(d) \/ WriteCameraFeature(d)
      PROVE  Lists'
  BY <1>2 DEF ConnectCamera, DisconnectCamera, StartWorker, WriteCameraFeature
<1>3. CASE ClearCameras \/ ScanPorts \/ ConnectFound \/ Publish
  BY <1>3 DEF ClearCameras, ScanPorts, ConnectFound, Publish
<1>4. CASE NextCamera
  BY <1>4, NextCameraCases
<1>5. CASE AllAligned \/ StreamCamera \/ WriteAppletGeometry
  BY <1>5 DEF AllAligned, StreamCamera, WriteAppletGeometry
<1>6. CASE GeometryStep
  BY <1>6, GeometrySteps DEF Continues, Concludes, Syncs
<1> QED
  BY <1>1, <1>2, <1>3, <1>4, <1>5, <1>6 DEF Next, Operation, Steps, Gui, GeometryStep

\* The alignment has read what it compares or writes.
LEMMA SyncOKKept ==
  ASSUME TypeOK, SyncInv, SyncOK, Next
  PROVE  SyncOK'
<1> USE DEF SyncOK, Begin, progress
<1>1. CASE Open \/ Close \/ RefreshCameras \/ Configure \/ Grab \/ Stop \/ Refuse
  BY <1>1 DEF Open, Close, RefreshCameras, Configure, Grab, Stop, Refuse
<1>2. ASSUME NEW d \in Dmas,
             ConnectCamera(d) \/ DisconnectCamera(d) \/ StartWorker(d) \/ WriteCameraFeature(d)
      PROVE  SyncOK'
  BY <1>2 DEF ConnectCamera, DisconnectCamera, StartWorker, WriteCameraFeature, session
<1>3. CASE ClearCameras \/ ScanPorts \/ ConnectFound \/ Publish
  BY <1>3 DEF ClearCameras, ScanPorts, ConnectFound, Publish
<1>4. CASE NextCamera
  BY <1>4, NextCameraCases
<1>5. CASE AllAligned \/ StreamCamera \/ WriteAppletGeometry
  BY <1>5 DEF AllAligned, StreamCamera, WriteAppletGeometry
<1>6. CASE GeometryStep
  <2>1. CASE ReadApplet
    BY <2>1, ReadAppletCases, PairsRead DEF Becomes, Moves, Ends, Phases, TypeOK, SyncInv
  <2>2. CASE ReadCamera
    BY <2>2, ReadCameraCases, PairsRead DEF Becomes, Moves, Ends, Phases, TypeOK, SyncInv
  <2>3. CASE ReadCameraFails \/ WriteFails
    BY <2>3, FailureCases DEF Becomes, Moves, Ends, Phases, TypeOK, SyncInv
  <2>4. CASE WriteAxis \/ VerifyAxis
    BY <2>4, WriteCases DEF Becomes, Moves, Ends, Phases, TypeOK, SyncInv
  <2> QED
    BY <1>6, <2>1, <2>2, <2>3, <2>4 DEF GeometryStep
<1> QED
  BY <1>1, <1>2, <1>3, <1>4, <1>5, <1>6 DEF Next, Operation, Steps, Gui, GeometryStep

\* Operations begin and end as the API lets them.
LEMMA OperationKept ==
  ASSUME TypeOK, SyncInv, OperationInv, Next
  PROVE  OperationInv'
<1> USE DEF OperationInv, Begin, Connects, ConnectFails, Discovering, devices, session, progress
<1>1. CASE Open \/ Close \/ RefreshCameras \/ Configure \/ Grab \/ Stop \/ Refuse
  BY <1>1 DEF Open, Close, RefreshCameras, Configure, Grab, Stop, Refuse
<1>2. ASSUME NEW d \in Dmas,
             ConnectCamera(d) \/ DisconnectCamera(d) \/ StartWorker(d) \/ WriteCameraFeature(d)
      PROVE  OperationInv'
  BY <1>2 DEF ConnectCamera, DisconnectCamera, StartWorker, WriteCameraFeature
<1>3. CASE ClearCameras \/ ScanPorts \/ ConnectFound \/ Publish
  BY <1>3 DEF ClearCameras, ScanPorts, ConnectFound, Publish
<1>4. CASE NextCamera
  BY <1>4, NextCameraCases
<1>5. CASE AllAligned \/ StreamCamera \/ WriteAppletGeometry
  BY <1>5 DEF AllAligned, StreamCamera, WriteAppletGeometry, TypeOK
<1>6. CASE GeometryStep
  BY <1>6, GeometrySteps DEF Continues, Concludes
<1> QED
  BY <1>1, <1>2, <1>3, <1>4, <1>5, <1>6 DEF Next, Operation, Steps, Gui, GeometryStep

\* A discovery is not disturbed by the other operations.
LEMMA DiscoveryKept ==
  ASSUME TypeOK, SyncInv, OperationInv, DiscoveryInv, Next
  PROVE  DiscoveryInv'
<1> USE DEF OperationInv, DiscoveryInv, Begin, Connects, ConnectFails, Discovering, devices,
    session, progress
<1>1. CASE Open \/ Close \/ RefreshCameras \/ Configure \/ Grab \/ Stop \/ Refuse
  BY <1>1 DEF Open, Close, RefreshCameras, Configure, Grab, Stop, Refuse
<1>2. ASSUME NEW d \in Dmas,
             ConnectCamera(d) \/ DisconnectCamera(d) \/ StartWorker(d) \/ WriteCameraFeature(d)
      PROVE  DiscoveryInv'
  BY <1>2 DEF ConnectCamera, DisconnectCamera, StartWorker, WriteCameraFeature
<1>3. CASE ClearCameras \/ ScanPorts \/ ConnectFound \/ Publish
  BY <1>3 DEF ClearCameras, ScanPorts, ConnectFound, Publish, TypeOK
<1>4. CASE NextCamera
  BY <1>4, NextCameraCases
<1>5. CASE AllAligned \/ StreamCamera \/ WriteAppletGeometry
  BY <1>5 DEF AllAligned, StreamCamera, WriteAppletGeometry
<1>6. CASE GeometryStep
  BY <1>6, GeometrySteps DEF Continues, Concludes
<1> QED
  BY <1>1, <1>2, <1>3, <1>4, <1>5, <1>6 DEF Next, Operation, Steps, Gui, GeometryStep

\* A camera leaves the list when its alignment begins, and has a verdict when that ends.
LEMMA TodoKept ==
  ASSUME TypeOK, SyncInv, OperationInv, DiscoveryInv, TodoInv, Next
  PROVE  TodoInv'
<1> USE DEF TodoInv, Begin, Connects, D, Discovering, Aligning, devices, session, progress
<1>1. CASE Open \/ Close \/ RefreshCameras \/ Configure \/ Grab \/ Stop \/ Refuse
  BY <1>1 DEF Open, Close, RefreshCameras, Configure, Grab, Stop, Refuse, Connected, OperationInv,
     NoSync
<1>2. ASSUME NEW d \in Dmas,
             ConnectCamera(d) \/ DisconnectCamera(d) \/ StartWorker(d) \/ WriteCameraFeature(d)
      PROVE  TodoInv'
  BY <1>2 DEF ConnectCamera, DisconnectCamera, StartWorker, WriteCameraFeature, OperationInv,
     TypeOK, ConnectFails
<1>3. CASE ClearCameras \/ ScanPorts \/ ConnectFound \/ Publish
  BY <1>3 DEF ClearCameras, ScanPorts, ConnectFound, Publish, DiscoveryInv
<1>4. CASE NextCamera
  BY <1>4, NextCameraCases DEF TypeOK
<1>5. CASE AllAligned \/ StreamCamera \/ WriteAppletGeometry
  BY <1>5 DEF AllAligned, StreamCamera, WriteAppletGeometry
<1>6. CASE GeometryStep
  BY <1>6, GeometrySteps DEF Continues, Concludes, TypeOK, Failures
<1> QED
  BY <1>1, <1>2, <1>3, <1>4, <1>5, <1>6 DEF Next, Operation, Steps, Gui, GeometryStep

\* An alignment that fails sets the error; the next operation clears verdicts first.
LEMMA ErrorKept ==
  ASSUME TypeOK, SyncInv, OperationInv, TodoInv, ErrorInv, Next
  PROVE  ErrorInv'
<1> USE DEF ErrorInv, OperationInv, TodoInv, Begin, Failures, devices, session, progress
<1>1. CASE Open \/ Close \/ RefreshCameras \/ Configure \/ Grab \/ Stop \/ Refuse
  BY <1>1 DEF Open, Close, RefreshCameras, Configure, Grab, Stop, Refuse, D
<1>2. ASSUME NEW d \in Dmas,
             ConnectCamera(d) \/ DisconnectCamera(d) \/ StartWorker(d) \/ WriteCameraFeature(d)
      PROVE  ErrorInv'
  BY <1>2 DEF ConnectCamera, DisconnectCamera, StartWorker, WriteCameraFeature, D
<1>3. CASE ClearCameras \/ ScanPorts \/ ConnectFound \/ Publish
  BY <1>3 DEF ClearCameras, ScanPorts, ConnectFound, Publish, Discovering
<1>4. CASE NextCamera
  BY <1>4, NextCameraCases
<1>5. CASE AllAligned \/ StreamCamera \/ WriteAppletGeometry
  BY <1>5 DEF AllAligned, StreamCamera, WriteAppletGeometry
<1>6. CASE GeometryStep
  BY <1>6, GeometrySteps DEF Continues, Concludes, TypeOK
<1> QED
  BY <1>1, <1>2, <1>3, <1>4, <1>5, <1>6 DEF Next, Operation, Steps, Gui, GeometryStep

\* What was read stays true until somebody else writes.
LEMMA SyncKept ==
  ASSUME TypeOK, SyncInv, TodoInv, Next
  PROVE  SyncInv'
<1> USE DEF SyncInv, Begin, D, devices, session, progress
<1>1. CASE Open \/ Close \/ RefreshCameras \/ Configure \/ Grab \/ Stop \/ Refuse
  BY <1>1 DEF Open, Close, RefreshCameras, Configure, Grab, Stop, Refuse, TodoInv, TypeOK, Axes,
     Syncs
<1>2. ASSUME NEW d \in Dmas,
             ConnectCamera(d) \/ DisconnectCamera(d) \/ StartWorker(d) \/ WriteCameraFeature(d)
      PROVE  SyncInv'
  BY <1>2 DEF ConnectCamera, DisconnectCamera, StartWorker, WriteCameraFeature, TypeOK, Axes,
     Pairs, Syncs
<1>3. CASE ClearCameras \/ ScanPorts \/ ConnectFound \/ Publish
  BY <1>3 DEF ClearCameras, ScanPorts, ConnectFound, Publish
<1>4. CASE NextCamera
  BY <1>4, NextCameraCases DEF Axes
<1>5. CASE AllAligned \/ StreamCamera \/ WriteAppletGeometry
  BY <1>5 DEF AllAligned, StreamCamera, WriteAppletGeometry, TypeOK, Axes, Pairs, Syncs
<1>6. CASE GeometryStep
  <2>1. CASE ReadApplet
    BY <2>1, ReadAppletCases, PairsRead DEF Becomes, Moves, Ends, Quiet, InGeometry, session
  <2>2. CASE ReadCamera
    BY <2>2, ReadCameraCases, PairsRead DEF Becomes, Moves, Ends, Quiet, InGeometry, session
  <2>3. CASE ReadCameraFails \/ WriteFails
    BY <2>3, FailureCases DEF Becomes, Moves, Ends, Quiet, InGeometry, session
  <2>4. CASE WriteAxis \/ VerifyAxis
    BY <2>4, WriteCases DEF Becomes, Moves, Ends, Quiet, InGeometry, session
  <2> QED
    BY <1>6, <2>1, <2>2, <2>3, <2>4 DEF GeometryStep
<1> QED
  BY <1>1, <1>2, <1>3, <1>4, <1>5, <1>6 DEF Next, Operation, Steps, Gui, GeometryStep

\* A worker's camera stays as it was aligned until it streams.
LEMMA StartKept ==
  ASSUME TypeOK, SyncInv, OperationInv, TodoInv, StartInv, Next
  PROVE  StartInv'
<1> USE DEF StartInv, Begin, Connects, D, Discovering, Aligning, devices, session, progress
<1>1. CASE Open \/ Close \/ RefreshCameras \/ Configure \/ Grab \/ Stop \/ Refuse
  BY <1>1 DEF Open, Close, RefreshCameras, Configure, Grab, Stop, Refuse, OperationInv, Connected,
     TodoInv
<1>2. ASSUME NEW d \in Dmas,
             ConnectCamera(d) \/ DisconnectCamera(d) \/ StartWorker(d) \/ WriteCameraFeature(d)
      PROVE  StartInv'
  <2>1. CASE ConnectCamera(d) \/ DisconnectCamera(d) \/ WriteCameraFeature(d)
    BY <2>1 DEF ConnectCamera, ConnectFails, DisconnectCamera, WriteCameraFeature, OperationInv,
       TodoInv, TypeOK
  <2>2. CASE StartWorker(d) /\ Connects(d) /\ Begin("start", "sync", {d})
    BY <2>2 DEF StartWorker, OperationInv, TypeOK
  <2>3. CASE StartWorker(d) /\ ConnectFails(d) /\ UNCHANGED <<pc, op, todo, sync, verdict>>
    BY <2>3 DEF StartWorker, ConnectFails
  <2> QED
    BY <1>2, <2>1, <2>2, <2>3 DEF StartWorker
<1>3. CASE ClearCameras \/ ScanPorts \/ ConnectFound \/ Publish
  BY <1>3 DEF ClearCameras, ScanPorts, ConnectFound, Publish, TodoInv, OperationInv
<1>4. CASE NextCamera
  BY <1>4, NextCameraCases DEF TypeOK
<1>5. CASE AllAligned \/ StreamCamera \/ WriteAppletGeometry
  BY <1>5 DEF AllAligned, StreamCamera, WriteAppletGeometry, TodoInv, Failures, TypeOK, Syncs
<1>6. CASE GeometryStep
  BY <1>6, GeometrySteps DEF Continues, Concludes, Justified, Failures, TypeOK, TodoInv, Syncs
<1> QED
  BY <1>1, <1>2, <1>3, <1>4, <1>5, <1>6 DEF Next, Operation, Steps, Gui, GeometryStep

\* Handles are forgotten before they become invalid.
LEMMA HandlesKept ==
  ASSUME TypeOK, SyncInv, DiscoveryInv, CachedHandlesValid, Next
  PROVE  CachedHandlesValid'
<1> USE DEF CachedHandlesValid, DiscoveryInv, Begin, Connects, ConnectFails, Connected,
    Discovering, devices, session, progress
<1>1. CASE Open \/ Close \/ RefreshCameras \/ Configure \/ Grab \/ Stop \/ Refuse
  BY <1>1 DEF Open, Close, RefreshCameras, Configure, Grab, Stop, Refuse
<1>2. ASSUME NEW d \in Dmas,
             ConnectCamera(d) \/ DisconnectCamera(d) \/ StartWorker(d) \/ WriteCameraFeature(d)
      PROVE  CachedHandlesValid'
  BY <1>2 DEF ConnectCamera, DisconnectCamera, StartWorker, WriteCameraFeature, TypeOK
<1>3. CASE ClearCameras \/ ScanPorts \/ ConnectFound \/ Publish
  BY <1>3 DEF ClearCameras, ScanPorts, ConnectFound, Publish
<1>4. CASE NextCamera
  BY <1>4, NextCameraCases
<1>5. CASE AllAligned \/ StreamCamera \/ WriteAppletGeometry
  BY <1>5 DEF AllAligned, StreamCamera, WriteAppletGeometry
<1>6. CASE GeometryStep
  BY <1>6, GeometrySteps DEF Continues, Concludes
<1> QED
  BY <1>1, <1>2, <1>3, <1>4, <1>5, <1>6 DEF Next, Operation, Steps, Gui, GeometryStep

\* Only a comparison of what is there concludes an alignment as applied or restored.
LEMMA VerdictKept ==
  ASSUME TypeOK, TodoInv, SyncInv, VerdictIsTrue, Next
  PROVE  VerdictIsTrue'
<1> USE DEF VerdictIsTrue, AppliedIsAligned, RestoredIsTrue, D, Begin, devices, session, progress
<1>1. CASE Open \/ Close \/ RefreshCameras \/ Configure \/ Grab \/ Stop \/ Refuse
  BY <1>1 DEF Open, Close, RefreshCameras, Configure, Grab, Stop, Refuse, TypeOK, Syncs
<1>2. ASSUME NEW d \in Dmas,
             ConnectCamera(d) \/ DisconnectCamera(d) \/ StartWorker(d) \/ WriteCameraFeature(d)
      PROVE  VerdictIsTrue'
  BY <1>2 DEF ConnectCamera, DisconnectCamera, StartWorker, WriteCameraFeature, TypeOK, Syncs
<1>3. CASE ClearCameras \/ ScanPorts \/ ConnectFound \/ Publish
  BY <1>3 DEF ClearCameras, ScanPorts, ConnectFound, Publish
<1>4. CASE NextCamera
  BY <1>4, NextCameraCases DEF TodoInv, Aligning, TypeOK
<1>5. CASE AllAligned \/ StreamCamera \/ WriteAppletGeometry
  BY <1>5 DEF AllAligned, StreamCamera, WriteAppletGeometry, TypeOK, Syncs
<1>6. CASE GeometryStep
  <2>1. D \in Dmas /\ verdict[D] = "none"
    BY <1>6, Records, GeometrySteps DEF D, Syncs, TodoInv
  <2>2. CASE Continues
    BY <1>6, <2>1, <2>2, GeometrySteps DEF Continues, TypeOK
  <2>3. CASE Concludes
    BY <1>6, <2>1, <2>3, GeometrySteps, PairsRead DEF Concludes, Justified, TypeOK, SyncInv
  <2> QED
    BY <1>6, <2>2, <2>3, GeometrySteps
<1> QED
  BY <1>1, <1>2, <1>3, <1>4, <1>5, <1>6 DEF Next, Operation, Steps, Gui, GeometryStep

\* An operation returns when no camera is left to be aligned.
LEMMA TriedKept ==
  ASSUME TypeOK, SyncInv, OperationInv, TodoInv, ErrorInv, EveryCameraTried, Next
  PROVE  EveryCameraTried'
<1> USE DEF EveryCameraTried, Begin, Connects, ConnectFails, Connected, OperationInv, devices,
    session, progress
<1>1. CASE Open \/ Close \/ RefreshCameras \/ Configure \/ Grab \/ Stop \/ Refuse
  BY <1>1 DEF Open, Close, RefreshCameras, Configure, Grab, Stop, Refuse, Failures
<1>2. ASSUME NEW d \in Dmas,
             ConnectCamera(d) \/ DisconnectCamera(d) \/ StartWorker(d) \/ WriteCameraFeature(d)
      PROVE  EveryCameraTried'
  BY <1>2 DEF ConnectCamera, DisconnectCamera, StartWorker, WriteCameraFeature
<1>3. CASE ClearCameras \/ ScanPorts \/ ConnectFound \/ Publish
  BY <1>3 DEF ClearCameras, ScanPorts, ConnectFound, Publish
<1>4. CASE NextCamera
  BY <1>4, NextCameraCases
<1>5. CASE AllAligned \/ StreamCamera \/ WriteAppletGeometry
  BY <1>5 DEF AllAligned, StreamCamera, WriteAppletGeometry, TodoInv, ErrorInv, Aligning, Failures
<1>6. CASE GeometryStep
  BY <1>6, GeometrySteps DEF Continues, Concludes
<1> QED
  BY <1>1, <1>2, <1>3, <1>4, <1>5, <1>6 DEF Next, Operation, Steps, Gui, GeometryStep

\* No camera that streams is written by an alignment, and none starts unaligned.
LEMMA StreamsKept ==
  ASSUME TypeOK, SyncInv, OperationInv, TodoInv, StartInv, VerdictIsTrue, StreamsAligned, Next
  PROVE  StreamsAligned'
<1> USE DEF StreamsAligned, OperationInv, StartInv, Begin, Connects, ConnectFails, devices,
    session, progress
<1>1. CASE Open \/ Close \/ RefreshCameras \/ Configure \/ Grab \/ Stop \/ Refuse
  BY <1>1 DEF Open, Close, RefreshCameras, Configure, Grab, Stop, Refuse, TypeOK
<1>2. ASSUME NEW d \in Dmas,
             ConnectCamera(d) \/ DisconnectCamera(d) \/ StartWorker(d) \/ WriteCameraFeature(d)
      PROVE  StreamsAligned'
  BY <1>2 DEF ConnectCamera, DisconnectCamera, StartWorker, WriteCameraFeature, TypeOK
<1>3. CASE ClearCameras \/ ScanPorts \/ ConnectFound \/ Publish
  BY <1>3 DEF ClearCameras, ScanPorts, ConnectFound, Publish, Connected, Discovering
<1>4. CASE NextCamera
  BY <1>4, NextCameraCases DEF Aligning, TypeOK
<1>5. CASE AllAligned \/ StreamCamera \/ WriteAppletGeometry
  BY <1>5 DEF AllAligned, StreamCamera, WriteAppletGeometry, VerdictIsTrue, AppliedIsAligned, D,
     TypeOK
<1>6. CASE GeometryStep
  BY <1>6, GeometrySteps DEF Continues, Concludes, D, TypeOK
<1> QED
  BY <1>1, <1>2, <1>3, <1>4, <1>5, <1>6 DEF Next, Operation, Steps, Gui, GeometryStep

-----------------------------------------------------------------------------
(* The invariant                                                           *)

\* The initial states satisfy the invariant.
LEMMA Initially ==
  ASSUME Init
  PROVE  IInv
<1>1. sync \in Syncs /\ sync.phase = "done" /\ ~sync.verify /\ sync.axis = "Width"
  <2>1. PICK d \in Dmas : sync = NoSync(d)
    BY DEF Init
  <2> QED
    BY <2>1, BlankIsUnread DEF NoSync, Syncs, Axes, Phases
<1>2. SyncOK
  BY <1>1 DEF SyncOK
<1>3. Plain /\ Lists
  BY DEF Init, Plain, Lists
<1>4. Sets
  BY DEF Init, Sets
<1>5. OperationInv /\ DiscoveryInv /\ ErrorInv /\ TodoInv /\ SyncInv /\ StartInv
  BY <1>1 DEF Init, OperationInv, DiscoveryInv, ErrorInv, TodoInv, SyncInv, StartInv,
     Discovering, Aligning, Failures
<1>6. CachedHandlesValid /\ VerdictIsTrue /\ EveryCameraTried /\ StreamsAligned
  BY <1>1 DEF Init, CachedHandlesValid, VerdictIsTrue, AppliedIsAligned, RestoredIsTrue,
     EveryCameraTried, StreamsAligned, D, Syncs
<1> QED
  BY <1>2, <1>3, <1>4, <1>5, <1>6, TypesAre DEF IInv

\* Every step keeps the invariant.
LEMMA Inductive ==
  ASSUME IInv, [Next]_vars
  PROVE  IInv'
<1>1. CASE Next
  <2> USE <1>1 DEF IInv
  <2>1. Plain' /\ Sets' /\ Lists' /\ SyncOK'
    BY TypesAre, PlainKept, SetsKept, ListsKept, SyncOKKept
  <2>2. TypeOK'
    BY <2>1, Zenon DEF TypeOK, Plain, Sets, Lists, SyncOK, Syncs, Phases
  <2>3. OperationInv' /\ DiscoveryInv' /\ TodoInv' /\ ErrorInv' /\ SyncInv' /\ StartInv'
    BY OperationKept, DiscoveryKept, TodoKept, ErrorKept, SyncKept, StartKept
  <2>4. CachedHandlesValid' /\ VerdictIsTrue' /\ EveryCameraTried' /\ StreamsAligned'
    BY HandlesKept, VerdictKept, TriedKept, StreamsKept
  <2> QED
    BY <2>2, <2>3, <2>4
<1>2. CASE UNCHANGED vars
  BY <1>2 DEF vars, devices, session, progress, IInv, TypeOK, OperationInv, DiscoveryInv, TodoInv,
     ErrorInv, SyncInv, StartInv, CachedHandlesValid, VerdictIsTrue, AppliedIsAligned,
     RestoredIsTrue, EveryCameraTried, StreamsAligned, D, Connected
<1> QED
  BY <1>1, <1>2

\* Every state a behaviour reaches satisfies the invariant.
LEMMA Always == Spec => []IInv
BY Initially, Inductive, PTL DEF Spec

-----------------------------------------------------------------------------
(* What holds of the cameras                                               *)

\* The camera list, the discovery's list, the alignment and the verdicts stay within their
\* types; a pair is compared or written only when both its axes have been read.
THEOREM TypeCorrect == Spec => []TypeOK
<1>1. IInv => TypeOK
  BY DEF IInv
<1> QED
  BY <1>1, Always, PTL

\* However discovering, connecting and disconnecting follow each other and fail, _cxpCameras
\* holds no handle the SDK has given up, and no camera it takes to be connected is not.
THEOREM HandlesValid == Spec => []CachedHandlesValid
<1>1. IInv => CachedHandlesValid
  BY DEF IInv
<1> QED
  BY <1>1, Always, PTL

\* synchronizeCameraGeometry says that it applied the applet's pair, or restored the previous
\* one, only of a camera that has it, whatever the camera makes of the writes.
THEOREM VerdictsAreTrue == Spec => []VerdictIsTrue
<1>1. IInv => VerdictIsTrue
  BY DEF IInv
<1> QED
  BY <1>1, Always, PTL

\* synchronizeCameraGeometryToApplet leaves no connected camera out, and its failures leave an
\* error.
THEOREM ConnectedCamerasTried == Spec => []EveryCameraTried
<1>1. IInv => EveryCameraTried
  BY DEF IInv
<1> QED
  BY <1>1, Always, PTL

\* A worker starts no camera whose picture is not of the applet's size, and no operation
\* changes it afterwards.
THEOREM StreamsAreAligned == Spec => []StreamsAligned
<1>1. IInv => StreamsAligned
  BY DEF IInv
<1> QED
  BY <1>1, Always, PTL

==============================================================================
