-------------------------- MODULE AppletRestoreProofs --------------------------
(***************************************************************************)
(* Proofs about what a session of AppletLifecycle says of itself once an   *)
(* operation has returned: after a load that failed it has the previous    *)
(* applet or none, and its path and its status are its board's.            *)
(***************************************************************************)
EXTENDS AppletLifecycleProofs

-----------------------------------------------------------------------------
(* The inductive invariant, on top of AppletLifecycleProofs                *)

Before    == {"enumerate", "resolve", "capture", "configureCurrent", "save"}
Releasing == {"release", "tellOff", "clear"}
Restoring == {"restoreInit", "restoreConfigure", "restoreAdopt", "restoreTellOn", "restoreEnd"}
Replacing == {"reenumerate", "init", "initTarget", "freeWrong", "configureFresh", "adopt",
              "restore"} \cup Restoring

\* A load captures what there is before it touches the board, and nothing but a setter
\* and its own adoption change the paths before it returns.
CaptureInv ==
  /\ (pc \in Before \/ job.op \notin {"load", "loadConfiguration"}) => previous = NoPrevious
  /\ ~renamed /\ (pc \in Replacing \/ (pc \in Releasing /\ job.op # "close")) =>
       appletPath = previous.appletPath /\ configurationPath = previous.configurationPath
  /\ pc = "release" /\ job.op # "close" => (previous.opened <=> handle # 0)
  /\ pc \in Restoring => previous.opened /\ requestError = "request"

\* A handle that is opened has the applet the session is about to name.
PathInv ==
  /\ handle # 0 /\ ~renamed => sdk[handle].applet = appletPath
  /\ pc \in {"configureFresh", "adopt"} => sdk[fresh].applet = target
  /\ pc \in {"restoreConfigure", "restoreAdopt"} => sdk[fresh].applet = previous.appletPath

RInv == IInv /\ StatusInv /\ CaptureInv /\ PathInv /\ RestoresPrevious

-----------------------------------------------------------------------------
(* The inductive invariant holds                                           *)

\* At first nothing is open, captured or cached.
LEMMA CapturedAtFirst == Init => RInv
<1> SUFFICES ASSUME Init PROVE RInv
  OBVIOUS
<1>1. IInv /\ StatusInv
  BY InitEstablishes DEF Init, StatusInv, UntoldAt, AdoptedAt
<1>2. CaptureInv /\ PathInv /\ RestoresPrevious
  BY DEF Init, CaptureInv, PathInv, RestoresPrevious, Before, Releasing, Restoring,
    Replacing, NoJob
<1> QED
  BY <1>1, <1>2 DEF RInv

\* A load captures once, right before it releases the board.
LEMMA CaptureKept == RInv /\ [Next]_vars => CaptureInv'
<1> SUFFICES ASSUME RInv, [Next]_vars PROVE CaptureInv'
  OBVIOUS
<1> USE DEF RInv, CaptureInv, Before, Releasing, Restoring, Replacing, board, session,
            operation, observers
<1>1. CASE Requests
  BY <1>1 DEF Requests, BeginLoad, Open, BeginLoadConfiguration, BeginConfigure, BeginSave,
    BeginClose, BeginRefresh, Begin
<1>2. CASE Enumerate \/ Refused \/ Resolve
  BY <1>2 DEF Enumerate, Refused, Resolve, RefusedWith, Returns
<1>3. CASE Capture
  BY <1>3 DEF Capture, IInv, TargetInv
<1>4. CASE JoinRefused \/ Release
  BY <1>4 DEF JoinRefused, Release, RefusedWith, Returns
<1>5. CASE AfterRelease
  <2>1. /\ pc \in {"tellOff", "clear"} /\ pc' \in {"idle", "reenumerate", "init"}
        /\ pc' # "idle" => job.op # "close"
    BY <1>5, Zenon DEF AfterRelease, Returns
  <2>2. UNCHANGED <<session, operation>>
    BY <1>5 DEF AfterRelease
  <2> QED
    BY <2>1, <2>2
<1>6. CASE InitializeBoard \/ InitConfig \/ FreeWrong \/ ConfigureFresh
  BY <1>6 DEF InitializeBoard, InitConfig, FreeWrong, ConfigureFresh, InitFails
<1>7. CASE Adopt \/ TellOn
  BY <1>7 DEF Adopt, AdoptBoard, TellOn, Returns
<1>8. CASE ConfigureCurrent \/ Save
  BY <1>8 DEF ConfigureCurrent, Save, Returns
<1>9. CASE Restore
  BY <1>9 DEF Restore, Returns, IInv, TargetInv
<1>10. CASE RestoreInit \/ RestoreConfigure \/ RestoreEnd
  BY <1>10 DEF RestoreInit, RestoreConfigure, RestoreEnd, Returns
<1>11. CASE SetPaths \/ Observe \/ ReadFeatureXml \/ EnrichModel \/ StoreModel
  BY <1>11 DEF SetPaths, Observe, ReadFeatureXml, EnrichModel, StoreModel
<1>12. CASE UNCHANGED vars
  BY <1>12 DEF vars
<1> QED
  BY <1>1, <1>2, <1>3, <1>4, <1>5, <1>6, <1>7, <1>8, <1>9, <1>10, <1>11, <1>12 DEF Next, Steps

\* A handle is adopted with the path it was opened with.
LEMMA PathKept == RInv /\ [Next]_vars => PathInv'
<1> SUFFICES ASSUME RInv, [Next]_vars PROVE PathInv'
  OBVIOUS
<1> USE DEF RInv, PathInv, board, session, operation, observers
<1>0. TypeOK
  BY DEF IInv
<1>1. CASE Requests
  BY <1>1 DEF Requests, BeginLoad, Open, BeginLoadConfiguration, BeginConfigure, BeginSave,
    BeginClose, BeginRefresh, Begin
<1>2. CASE Enumerate \/ Refused \/ Resolve \/ Capture \/ JoinRefused
  BY <1>2 DEF Enumerate, Refused, Resolve, Capture, JoinRefused, RefusedWith, Returns
<1>3. CASE Release
  BY <1>3 DEF Release
<1>4. CASE AfterRelease
  <2>1. pc' \in {"idle", "reenumerate", "init"}
    BY <1>4, Zenon DEF AfterRelease, Returns
  <2>2. UNCHANGED <<board, session, operation>>
    BY <1>4 DEF AfterRelease
  <2> QED
    BY <2>1, <2>2
<1>5. CASE InitializeBoard
  <2>1. handle = 0 /\ UNCHANGED handle /\ target \in Applets \cup {None}
    BY <1>5 DEF InitializeBoard, InitFails, IInv, TypeOK, HandleInv, AdoptedAt, MaybeOpenAt
  <2>2. CASE InitFails("restore")
    BY <2>1, <2>2 DEF InitFails
  <2>3. CASE /\ Opened(target, None) /\ UNCHANGED target /\ pc' \in {"adopt", "configureFresh"}
    <3>1. sdk'[fresh'].applet = target
      BY <1>0, <2>1, <2>3, OpenedAdds
    <3> QED
      BY <2>1, <2>3, <3>1
  <2> QED
    BY <1>5, <2>2, <2>3 DEF InitializeBoard
<1>6. CASE InitConfig
  <2>1. handle = 0 /\ UNCHANGED handle /\ job.config \in Configs \cup {None}
    BY <1>6 DEF InitConfig, InitFails, IInv, TypeOK, HandleInv, AdoptedAt, MaybeOpenAt
  <2>2. ASSUME NEW applet \in Applets, Opened(applet, job.config),
               IF target \in {None, applet}
                 THEN target' = applet /\ pc' = "adopt"
                 ELSE UNCHANGED target /\ pc' = "freeWrong"
        PROVE  PathInv'
    <3>1. sdk'[fresh'].applet = applet
      BY <1>0, <2>1, <2>2, OpenedAdds
    <3> QED
      BY <2>1, <2>2, <3>1
  <2>3. CASE pc' \in {"restore", "initTarget"}
    BY <2>1, <2>3
  <2> QED
    BY <1>6, <2>2, <2>3 DEF InitConfig, InitFails
<1>7. CASE FreeWrong
  <2>1. handle' = 0
    BY <1>7 DEF FreeWrong, IInv, HandleInv, AdoptedAt, MaybeOpenAt
  <2> QED
    BY <1>7, <2>1 DEF FreeWrong
<1>8. CASE ConfigureFresh \/ RestoreConfigure
  <2>1. /\ handle = 0 /\ UNCHANGED <<handle, target, previous>> /\ fresh \in Handles
        /\ job.config \in Configs \cup {None} /\ previous.configurationPath \in Configs \cup {None}
    BY <1>8, AppletAssumption DEF ConfigureFresh, RestoreConfigure, IInv, TypeOK, HandleInv,
      FreshAt, AdoptedAt, MaybeOpenAt, Handles
  <2>2. CASE UNCHANGED sdk
    BY <1>8, <2>1, <2>2 DEF RestoreConfigure, ConfigureFresh
  <2>3. CASE \E config \in Configs \cup {None} : Configured(fresh, config)
    <3>1. sdk'[fresh].applet = sdk[fresh].applet
      BY <1>0, <2>1, <2>3, ConfiguredKeepsApplets
    <3> QED
      BY <1>8, <2>1, <3>1 DEF RestoreConfigure, ConfigureFresh
  <2>4. CASE pc' = "restore"
    BY <2>1, <2>4
  <2> QED
    BY <1>8, <2>1, <2>2, <2>3, <2>4 DEF RestoreConfigure, ConfigureFresh
<1>9. CASE Adopt
  BY <1>9 DEF Adopt, AdoptBoard
<1>10. CASE TellOn \/ RestoreEnd
  BY <1>10 DEF TellOn, RestoreEnd, Returns
<1>11. CASE ConfigureCurrent \/ Save
  <2>1. /\ pc' = "idle" /\ UNCHANGED <<handle, appletPath, renamed>> /\ handle \in Handles \cup {0}
        /\ job.config \in Configs \cup {None}
    BY <1>11, AppletAssumption DEF ConfigureCurrent, Save, Returns, IInv, TypeOK, Handles
  <2>2. CASE UNCHANGED sdk
    BY <2>1, <2>2
  <2>3. CASE handle # 0 /\ Configured(handle, job.config)
    <3>1. sdk'[handle].applet = sdk[handle].applet
      BY <1>0, <2>1, <2>3, ConfiguredKeepsApplets
    <3> QED
      BY <2>1, <3>1
  <2> QED
    BY <1>11, <2>2, <2>3 DEF ConfigureCurrent, Save
<1>12. CASE Restore
  <2>1. handle = 0 /\ UNCHANGED handle /\ pc' \in {"idle", "restoreInit"}
    BY <1>12 DEF Restore, Returns, IInv, HandleInv, AdoptedAt, MaybeOpenAt
  <2> QED
    BY <2>1
<1>13. CASE RestoreInit
  <2>1. /\ handle = 0 /\ UNCHANGED <<handle, previous>>
        /\ previous.appletPath \in Applets \cup {None}
    BY <1>13 DEF RestoreInit, IInv, TypeOK, HandleInv, AdoptedAt, MaybeOpenAt
  <2>2. CASE pc' = "restoreEnd"
    BY <2>1, <2>2
  <2>3. CASE /\ Opened(previous.appletPath, None) /\ pc' \in {"restoreAdopt", "restoreConfigure"}
    <3>1. sdk'[fresh'].applet = previous.appletPath
      BY <1>0, <2>1, <2>3, OpenedAdds
    <3> QED
      BY <2>1, <2>3, <3>1
  <2> QED
    BY <1>13, <2>2, <2>3 DEF RestoreInit
<1>14. CASE SetPaths \/ Observe \/ ReadFeatureXml \/ EnrichModel \/ StoreModel
  BY <1>14 DEF SetPaths, Observe, ReadFeatureXml, EnrichModel, StoreModel, IInv, HandleInv, FreshAt
<1>15. CASE UNCHANGED vars
  BY <1>15 DEF vars
<1> QED
  BY <1>1, <1>2, <1>3, <1>4, <1>5, <1>6, <1>7, <1>8, <1>9, <1>10, <1>11, <1>12, <1>13,
    <1>14, <1>15 DEF Next, Steps

\* An operation fails in one of four ways: before it captured what there was, at the
\* worker it may not join, with nothing to restore, and at the end of a restoration.
LEMMA RestorationKept == RInv /\ [Next]_vars => RestoresPrevious'
<1> SUFFICES ASSUME RInv, [Next]_vars PROVE RestoresPrevious'
  OBVIOUS
<1> USE DEF RInv, RestoresPrevious, board, session, operation, observers
<1>1. CASE Requests
  BY <1>1 DEF Requests, BeginLoad, Open, BeginLoadConfiguration, BeginConfigure, BeginSave,
    BeginClose, BeginRefresh, Begin
<1>2. CASE Refused
  BY <1>2 DEF Refused, RefusedWith, Returns, CaptureInv, Before
<1>3. CASE Enumerate \/ Resolve \/ Capture \/ Release
  BY <1>3 DEF Enumerate, Resolve, Capture, Release, Returns
<1>4. CASE JoinRefused
  BY <1>4 DEF JoinRefused, RefusedWith, Returns, CaptureInv, Releasing, PathInv
<1>5. CASE AfterRelease
  <2>1. pc' # "idle" \/ result' = "succeeded"
    BY <1>5, Zenon DEF AfterRelease, Returns
  <2> QED
    BY <2>1
<1>6. CASE InitializeBoard \/ InitConfig \/ FreeWrong \/ ConfigureFresh \/ Adopt
  BY <1>6 DEF InitializeBoard, InitConfig, FreeWrong, ConfigureFresh, Adopt, InitFails
<1>7. CASE TellOn
  BY <1>7 DEF TellOn, Returns
<1>8. CASE ConfigureCurrent \/ Save
  BY <1>8 DEF ConfigureCurrent, Save, Returns, CaptureInv, Before
<1>9. CASE Restore
  BY <1>9 DEF Restore, Returns, CaptureInv, Replacing, IInv, TargetInv, HandleInv,
    AdoptedAt, MaybeOpenAt
<1>10. CASE RestoreInit \/ RestoreConfigure
  BY <1>10 DEF RestoreInit, RestoreConfigure
<1>11. CASE RestoreEnd
  BY <1>11 DEF RestoreEnd, Returns, CaptureInv, Restoring, Replacing, PathInv
<1>12. CASE SetPaths \/ Observe \/ ReadFeatureXml \/ EnrichModel \/ StoreModel
  BY <1>12 DEF SetPaths, Observe, ReadFeatureXml, EnrichModel, StoreModel
<1>13. CASE UNCHANGED vars
  BY <1>13 DEF vars
<1> QED
  BY <1>1, <1>2, <1>3, <1>4, <1>5, <1>6, <1>7, <1>8, <1>9, <1>10, <1>11, <1>12, <1>13
    DEF Next, Steps

\* The inductive invariant in every reachable state.
LEMMA AlwaysTrue == Spec => []RInv
<1>1. RInv /\ [Next]_vars => RInv'
  BY StepPreserves, StatusInductive, CaptureKept, PathKept, RestorationKept DEF RInv
<1> QED
  BY <1>1, CapturedAtFirst, PTL DEF Spec

-----------------------------------------------------------------------------
(* Theorems                                                                *)

\* README, "If initialization fails, the previous applet and configuration are restored":
\* a load that failed after it released the applet leaves the error of the request and,
\* unless a setter named other paths meanwhile, the old paths, and on the board either
\* nothing or the applet named before, whichever of its calls the SDK refused and
\* whatever the restoration met.
THEOREM RestoresPreviousApplet == Spec => []RestoresPrevious
<1>1. RInv => RestoresPrevious
  BY DEF RInv
<1> QED
  BY <1>1, AlwaysTrue, PTL

\* Between operations the status last told is that of the open handle, and so is the
\* applet path unless a setter has named another since, however loads, failures and
\* releases went before.
THEOREM ObserversAgreeWithBoard == Spec => []ObserversAgree
<1>1. RInv => ObserversAgree
  BY DEF RInv, StatusInv, UntoldAt, AdoptedAt, PathInv, ObserversAgree
<1> QED
  BY <1>1, AlwaysTrue, PTL
================================================================================
