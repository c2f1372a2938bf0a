------------------------ MODULE AppletLifecycleProofs ------------------------
(***************************************************************************)
(* Proofs about AppletLifecycle for any applets and configuration files,   *)
(* any bound on the handles, and any timing of the feature-model readers.  *)
(***************************************************************************)
EXTENDS AppletLifecycle, TLAPS

-----------------------------------------------------------------------------
(* The inductive invariant                                                 *)

\* Where an operation has a handle that is not yet adopted, where the session
\* may have one, and where it must.
FreshAt == {"freeWrong", "configureFresh", "adopt", "restoreConfigure", "restoreAdopt"}
AdoptedAt == {"tellOn", "restoreTellOn"}
MaybeOpenAt == {"idle", "resolve", "capture", "release", "configureCurrent", "save", "restoreEnd"}

HandleInv ==
  /\ \A h \in Handles : sdk[h].applet # None <=> h \in {handle, fresh}
  /\ \A h \in Handles : sdk[h].applet = None => sdk[h] = Closed
  /\ fresh # 0 <=> pc \in FreshAt
  /\ handle # 0 => pc \in AdoptedAt \cup MaybeOpenAt
  /\ pc \in AdoptedAt => handle # 0

\* Every handle the SDK opens has an applet: a load names one, and only an
\* Fg_InitConfig may be left to find out which.
TargetInv ==
  /\ job.op = "load" => job.applet # None
  /\ job.op = "loadConfiguration" => job.config \in Configs
  /\ pc = "enumerate" => job.op \in {"load", "refresh"}
  /\ pc \in {"resolve", "capture", "reenumerate", "init"} => job.op \in {"load", "loadConfiguration"}
  /\ pc \in {"release", "tellOff", "clear"} => job.op \in {"load", "loadConfiguration", "close"}
  /\ pc \in {"capture", "release", "tellOff", "clear", "reenumerate", "init"} /\ target = None
       => UsesInitConfig \/ job.op = "close"
  /\ pc \in {"initTarget", "freeWrong", "configureFresh", "adopt"} => target # None
  /\ pc \in {"restoreInit", "restoreConfigure", "restoreAdopt"} => previous.appletPath # None
  /\ pc = "restore" => lastError = "request"

\* A client saw a generation that has been given out, and each one is given out
\* once: the generation lags behind the handle yet to be adopted.
GenerationInv ==
  /\ generation + (IF fresh # 0 THEN 1 ELSE 0) <= opens
  /\ client.generation <= generation
  /\ ConnectionNamesOneOpen

IInv == TypeOK /\ HandleInv /\ TargetInv /\ GenerationInv

-----------------------------------------------------------------------------
(* What a call of the SDK does to its table of handles                     *)

\* Fg_Init and Fg_InitConfig add one handle, the newest, and leave the others.
LEMMA OpenedAdds ==
  ASSUME TypeOK, NEW applet \in Applets \cup {None}, NEW params \in Configs \cup {None},
         Opened(applet, params)
  PROVE  /\ opens' = opens + 1 /\ fresh' = opens + 1 /\ files' = files
         /\ opens' \in 0 .. MaxOpens /\ opens + 1 \in Handles
         /\ sdk' \in [Handles -> [applet : Applets \cup {None}, params : Configs \cup {None}]]
         /\ sdk'[opens + 1].applet = applet
         /\ \A h \in Handles : h # opens + 1 => sdk'[h] = sdk[h]
<1>1. opens + 1 \in Handles
  BY AppletAssumption DEF TypeOK, Opened, Handles
<1>2. sdk' = [sdk EXCEPT ![opens + 1] = [applet |-> applet, params |-> params]]
  BY DEF Opened
<1>3. sdk' \in [Handles -> [applet : Applets \cup {None}, params : Configs \cup {None}]]
  BY <1>1, <1>2 DEF TypeOK
<1> QED
  BY <1>1, <1>2, <1>3, AppletAssumption DEF TypeOK, Opened, Handles

\* Fg_loadConfig and Fg_saveConfig change no handle's applet.
LEMMA ConfiguredKeepsApplets ==
  ASSUME TypeOK, NEW h \in Handles, NEW config \in Configs \cup {None}, Configured(h, config)
  PROVE  /\ sdk' \in [Handles -> [applet : Applets \cup {None}, params : Configs \cup {None}]]
         /\ \A g \in Handles : sdk'[g].applet = sdk[g].applet
         /\ \A g \in Handles : g # h => sdk'[g] = sdk[g]
BY DEF TypeOK, Configured

\* Fg_FreeGrabber closes one handle and leaves the others.
LEMMA FreedCloses ==
  ASSUME TypeOK, NEW h \in Handles, Freed(h)
  PROVE  /\ sdk' \in [Handles -> [applet : Applets \cup {None}, params : Configs \cup {None}]]
         /\ sdk'[h] = Closed /\ sdk'[h].applet = None
         /\ \A g \in Handles : g # h => sdk'[g] = sdk[g]
BY DEF TypeOK, Freed, Closed

-----------------------------------------------------------------------------
LEMMA InitEstablishes == Init => IInv
<1> SUFFICES ASSUME Init PROVE IInv
  OBVIOUS
<1> USE AppletAssumption DEF Init, NoJob, NoPrevious, NoReader, Closed, Handles
<1>1. TypeOK
  <2>1. sdk \in [Handles -> [applet : Applets \cup {None}, params : Configs \cup {None}]]
    OBVIOUS
  <2>2. lastStatus \in BOOLEAN /\ renamed \in BOOLEAN
    OBVIOUS
  <2>3. previous \in [opened : BOOLEAN, appletPath : Applets \cup {None},
                      configurationPath : Configs \cup {None}]
    OBVIOUS
  <2>4. client \in [generation : 0 .. opens, handle : 0 .. opens]
    OBVIOUS
  <2>5. job \in [op : Operations \cup {"none"}, applet : Applets \cup {None},
                 config : Configs \cup {None}]
    OBVIOUS
  <2>6. reader \in [model : 0 .. opens, step : {"none", "parse", "store"}]
    OBVIOUS
  <2> QED
    BY <2>1, <2>2, <2>3, <2>4, <2>5, <2>6 DEF TypeOK
<1>2. HandleInv
  BY DEF HandleInv, FreshAt, AdoptedAt, MaybeOpenAt
<1>3. TargetInv
  BY DEF TargetInv
<1>4. GenerationInv
  BY DEF GenerationInv, ConnectionNamesOneOpen
<1> QED
  BY <1>1, <1>2, <1>3, <1>4 DEF IInv

LEMMA StepPreserves == IInv /\ [Next]_vars => IInv'
<1> SUFFICES ASSUME IInv, [Next]_vars PROVE IInv'
  OBVIOUS
<1> USE AppletAssumption DEF IInv, Handles, Closed, board, session, operation, observers
<1>1. CASE \E applet \in Applets : BeginLoad(applet)
  BY <1>1 DEF TypeOK, HandleInv, TargetInv, GenerationInv, ConnectionNamesOneOpen,
    FreshAt, AdoptedAt, MaybeOpenAt, UsesInitConfig, Operations, BeginLoad, Begin,
    NoPrevious
<1>2. CASE Open
  BY <1>2 DEF TypeOK, HandleInv, TargetInv, GenerationInv, ConnectionNamesOneOpen,
    FreshAt, AdoptedAt, MaybeOpenAt, UsesInitConfig, Operations, Open, BeginLoad, Begin,
    NoPrevious
<1>3. CASE \E applet \in Applets \cup {None}, config \in Configs : BeginLoadConfiguration(applet, config)
  BY <1>3 DEF TypeOK, HandleInv, TargetInv, GenerationInv, ConnectionNamesOneOpen,
    FreshAt, AdoptedAt, MaybeOpenAt, UsesInitConfig, Operations, BeginLoadConfiguration,
    Begin, NoPrevious
<1>4. CASE \E config \in Configs : BeginConfigure(config)
  BY <1>4 DEF TypeOK, HandleInv, TargetInv, GenerationInv, ConnectionNamesOneOpen,
    FreshAt, AdoptedAt, MaybeOpenAt, UsesInitConfig, Operations, BeginConfigure, Begin,
    NoPrevious
<1>5. CASE \E config \in Configs : BeginSave(config)
  BY <1>5 DEF TypeOK, HandleInv, TargetInv, GenerationInv, ConnectionNamesOneOpen,
    FreshAt, AdoptedAt, MaybeOpenAt, UsesInitConfig, Operations, BeginSave, Begin,
    NoPrevious
<1>6. CASE BeginClose
  BY <1>6 DEF TypeOK, HandleInv, TargetInv, GenerationInv, ConnectionNamesOneOpen,
    FreshAt, AdoptedAt, MaybeOpenAt, UsesInitConfig, Operations, BeginClose, Begin,
    NoPrevious
<1>7. CASE BeginRefresh
  BY <1>7 DEF TypeOK, HandleInv, TargetInv, GenerationInv, ConnectionNamesOneOpen,
    FreshAt, AdoptedAt, MaybeOpenAt, UsesInitConfig, Operations, BeginRefresh, Begin,
    NoPrevious
<1>8. CASE Enumerate
  BY <1>8 DEF TypeOK, HandleInv, TargetInv, GenerationInv, ConnectionNamesOneOpen,
    FreshAt, AdoptedAt, MaybeOpenAt, UsesInitConfig, Operations, Enumerate, Returns
<1>9. CASE Refused
  BY <1>9 DEF TypeOK, HandleInv, TargetInv, GenerationInv, ConnectionNamesOneOpen,
    FreshAt, AdoptedAt, MaybeOpenAt, UsesInitConfig, Operations, Refused, RefusedWith,
    Returns
<1>10. CASE Resolve
  <2>1. TypeOK'
    <3>1. target' \in Applets \cup {None}
      BY <1>10 DEF TypeOK, TargetInv, Resolve, References
    <3> QED
      BY <1>10, <3>1 DEF TypeOK, Resolve
  <2>2. HandleInv'
    BY <1>10 DEF TypeOK, HandleInv, FreshAt, AdoptedAt, MaybeOpenAt, Resolve, References,
      IsCurrentApplet
  <2>3. TargetInv'
    BY <1>10 DEF TypeOK, TargetInv, UsesInitConfig, Resolve, References, IsCurrentApplet
  <2>4. GenerationInv'
    BY <1>10 DEF TypeOK, HandleInv, GenerationInv, ConnectionNamesOneOpen, FreshAt,
      Resolve, References, IsCurrentApplet
  <2> QED
    BY <2>1, <2>2, <2>3, <2>4
<1>11. CASE Capture
  BY <1>11 DEF TypeOK, HandleInv, TargetInv, GenerationInv, ConnectionNamesOneOpen,
    FreshAt, AdoptedAt, MaybeOpenAt, UsesInitConfig, Operations, Capture
<1>12. CASE JoinRefused
  BY <1>12 DEF TypeOK, HandleInv, TargetInv, GenerationInv, ConnectionNamesOneOpen,
    FreshAt, AdoptedAt, MaybeOpenAt, UsesInitConfig, Operations, JoinRefused,
    RefusedWith, Returns
<1>13. CASE Release
  BY <1>13 DEF TypeOK, HandleInv, TargetInv, GenerationInv, ConnectionNamesOneOpen,
    FreshAt, AdoptedAt, MaybeOpenAt, UsesInitConfig, Operations, Release, Freed
<1>14. CASE AfterRelease
  <2>1. TypeOK'
    <3>1. lastStatus' \in BOOLEAN
      BY <1>14, Zenon DEF AfterRelease, TypeOK
    <3>2. pc' \in {"idle", "reenumerate", "init"} /\ result' \in {"succeeded", result}
      BY <1>14, Zenon DEF AfterRelease, Returns
    <3>3. models' = 0 /\ UNCHANGED <<board, session, lastError, operation, observers>>
      BY <1>14 DEF AfterRelease
    <3> QED
      BY <3>1, <3>2, <3>3 DEF TypeOK
  <2>2. HandleInv'
    BY <1>14 DEF TypeOK, HandleInv, FreshAt, AdoptedAt, MaybeOpenAt, AfterRelease, Returns
  <2>3. TargetInv'
    <3>1. pc' \in {"idle", "reenumerate", "init"} /\ (pc' # "idle" => job.op # "close")
      BY <1>14, Zenon DEF AfterRelease, Returns
    <3> QED
      BY <1>14, <3>1 DEF TypeOK, TargetInv, UsesInitConfig, AfterRelease
  <2>4. GenerationInv'
    BY <1>14 DEF TypeOK, HandleInv, GenerationInv, ConnectionNamesOneOpen, FreshAt,
      AfterRelease, Returns
  <2> QED
    BY <2>1, <2>2, <2>3, <2>4
<1>15. CASE InitializeBoard
  <2>1. /\ pc \in {"init", "initTarget"} /\ target # None /\ fresh = 0 /\ handle = 0
        /\ target \in Applets \cup {None}
    BY <1>15 DEF InitializeBoard, TypeOK, HandleInv, TargetInv, FreshAt, AdoptedAt,
      MaybeOpenAt
  <2>2. CASE InitFails("restore")
    <3>1. TypeOK'
      BY <2>1, <2>2 DEF TypeOK, Operations, InitFails
    <3>2. HandleInv'
      BY <2>1, <2>2 DEF TypeOK, HandleInv, FreshAt, AdoptedAt, MaybeOpenAt, InitFails
    <3>3. TargetInv'
      BY <2>1, <2>2 DEF TypeOK, TargetInv, UsesInitConfig, InitFails
    <3>4. GenerationInv'
      BY <2>1, <2>2 DEF TypeOK, HandleInv, GenerationInv, ConnectionNamesOneOpen,
        FreshAt, InitFails
    <3> QED
      BY <3>1, <3>2, <3>3, <3>4
  <2>3. CASE Opened(target, None) /\ ~InitFails("restore")
    <3>0. /\ opens' = opens + 1 /\ fresh' = opens + 1 /\ files' = files
          /\ opens' \in 0 .. MaxOpens /\ opens + 1 \in Handles
          /\ sdk' \in [Handles -> [applet : Applets \cup {None}, params : Configs \cup {None}]]
          /\ sdk'[opens + 1].applet = target
          /\ \A h \in Handles : h # opens + 1 => sdk'[h] = sdk[h]
      BY <2>1, <2>3, OpenedAdds
    <3>5. /\ pc' \in {"adopt", "configureFresh"}
          /\ UNCHANGED <<session, lastError, models, lastStatus, job, target, previous,
                         requestError, result, observers>>
      BY <1>15, <2>3 DEF InitializeBoard
    <3>1. TypeOK'
      BY <2>1, <3>0, <3>5 DEF TypeOK, Operations
    <3>2. HandleInv'
      <4>1. handle' = 0 /\ fresh' = opens + 1 /\ 0 \notin Handles /\ opens + 1 \in Handles
        BY <2>1, <3>0, <3>5 DEF TypeOK
      <4>2. \A h \in Handles : sdk[h].applet = None
        BY <2>1, <4>1 DEF HandleInv
      <4>3. ASSUME NEW h \in Handles
            PROVE  /\ sdk'[h].applet # None <=> h \in {handle', fresh'}
                   /\ sdk'[h].applet = None => sdk'[h] = Closed
        <5>1. CASE h = opens + 1
          BY <2>1, <3>0, <3>5, <4>1, <5>1
        <5>2. CASE h # opens + 1
          BY <2>1, <3>0, <3>5, <4>1, <4>2, <5>2 DEF HandleInv
        <5> QED
          BY <5>1, <5>2
      <4> QED
        BY <2>1, <3>0, <3>5, <4>1, <4>3 DEF TypeOK, HandleInv, FreshAt, AdoptedAt,
          MaybeOpenAt
    <3>3. TargetInv'
      BY <2>1, <3>0, <3>5 DEF TypeOK, TargetInv, UsesInitConfig
    <3>4. GenerationInv'
      BY <2>1, <3>0, <3>5 DEF TypeOK, HandleInv, GenerationInv, ConnectionNamesOneOpen,
        FreshAt
    <3> QED
      BY <3>1, <3>2, <3>3, <3>4
  <2> QED
    BY <1>15, <2>2, <2>3 DEF InitializeBoard
<1>16. CASE InitConfig
  <2>1. pc = "init" /\ fresh = 0 /\ handle = 0 /\ UsesInitConfig /\ job.config \in Configs
    BY <1>16 DEF InitConfig, UsesInitConfig, TypeOK, HandleInv, TargetInv, FreshAt,
      AdoptedAt, MaybeOpenAt
  <2>2. CASE target = None /\ InitFails("restore")
    <3>1. TypeOK'
      BY <2>1, <2>2 DEF TypeOK, Operations, InitFails
    <3>2. HandleInv'
      BY <2>1, <2>2 DEF TypeOK, HandleInv, FreshAt, AdoptedAt, MaybeOpenAt, InitFails
    <3>3. TargetInv'
      BY <2>1, <2>2 DEF TypeOK, TargetInv, UsesInitConfig, InitFails
    <3>4. GenerationInv'
      BY <2>1, <2>2 DEF TypeOK, HandleInv, GenerationInv, ConnectionNamesOneOpen,
        FreshAt, InitFails
    <3> QED
      BY <3>1, <3>2, <3>3, <3>4
  <2>3. CASE /\ target # None /\ pc' = "initTarget"
             /\ UNCHANGED <<board, session, lastError, models, lastStatus, operation, result,
                            observers>>
    <3>1. TypeOK'
      BY <2>1, <2>3 DEF TypeOK, Operations
    <3>2. HandleInv'
      BY <2>1, <2>3 DEF TypeOK, HandleInv, FreshAt, AdoptedAt, MaybeOpenAt
    <3>3. TargetInv'
      BY <2>1, <2>3 DEF TypeOK, TargetInv, UsesInitConfig
    <3>4. GenerationInv'
      BY <2>1, <2>3 DEF TypeOK, HandleInv, GenerationInv, ConnectionNamesOneOpen, FreshAt
    <3> QED
      BY <3>1, <3>2, <3>3, <3>4
  <2>4. ASSUME NEW applet \in Applets, Opened(applet, job.config),
               IF target \in {None, applet}
                 THEN target' = applet /\ pc' = "adopt"
                 ELSE UNCHANGED target /\ pc' = "freeWrong",
               UNCHANGED <<session, lastError, models, lastStatus, job, previous, requestError,
                           result, observers>>
        PROVE  IInv'
    <3>0. /\ opens' = opens + 1 /\ fresh' = opens + 1 /\ files' = files
          /\ opens' \in 0 .. MaxOpens /\ opens + 1 \in Handles
          /\ sdk' \in [Handles -> [applet : Applets \cup {None}, params : Configs \cup {None}]]
          /\ sdk'[opens + 1].applet = applet
          /\ \A h \in Handles : h # opens + 1 => sdk'[h] = sdk[h]
      BY <2>1, <2>4, OpenedAdds
    <3>5. /\ pc' \in {"adopt", "freeWrong"} /\ target' \in Applets
          /\ target' # None /\ applet # None
      BY <2>4 DEF TypeOK
    <3>6. UNCHANGED <<session, lastError, models, lastStatus, job, previous, requestError,
                      result, observers>>
      BY <2>4
    <3>1. TypeOK'
      BY <2>1, <3>0, <3>5, <3>6 DEF TypeOK, Operations
    <3>2. HandleInv'
      <4>1. handle' = 0 /\ fresh' = opens + 1 /\ 0 \notin Handles /\ opens + 1 \in Handles
        BY <2>1, <3>0, <3>5, <3>6 DEF TypeOK
      <4>2. \A h \in Handles : sdk[h].applet = None
        BY <2>1, <4>1 DEF HandleInv
      <4>3. ASSUME NEW h \in Handles
            PROVE  /\ sdk'[h].applet # None <=> h \in {handle', fresh'}
                   /\ sdk'[h].applet = None => sdk'[h] = Closed
        <5>1. CASE h = opens + 1
          BY <2>1, <3>0, <3>5, <3>6, <4>1, <5>1
        <5>2. CASE h # opens + 1
          BY <2>1, <3>0, <3>5, <3>6, <4>1, <4>2, <5>2 DEF HandleInv
        <5> QED
          BY <5>1, <5>2
      <4> QED
        BY <2>1, <3>0, <3>5, <3>6, <4>1, <4>3 DEF TypeOK, HandleInv, FreshAt, AdoptedAt,
          MaybeOpenAt
    <3>3. TargetInv'
      BY <2>1, <3>0, <3>5, <3>6 DEF TypeOK, TargetInv, UsesInitConfig
    <3>4. GenerationInv'
      BY <2>1, <3>0, <3>5, <3>6 DEF TypeOK, HandleInv, GenerationInv,
        ConnectionNamesOneOpen, FreshAt
    <3> QED
      BY <3>1, <3>2, <3>3, <3>4
  <2> QED
    BY <1>16, <2>2, <2>3, <2>4 DEF InitConfig
<1>17. CASE FreeWrong
  <2>0. fresh \in Handles /\ handle = 0 /\ Freed(fresh)
    BY <1>17 DEF FreeWrong, TypeOK, HandleInv, FreshAt, AdoptedAt, MaybeOpenAt
  <2>01. /\ sdk' \in [Handles -> [applet : Applets \cup {None}, params : Configs \cup {None}]]
         /\ sdk'[fresh] = Closed /\ sdk'[fresh].applet = None
         /\ \A g \in Handles : g # fresh => sdk'[g] = sdk[g]
    BY <2>0, FreedCloses
  <2>1. TypeOK'
    BY <1>17, <2>01 DEF TypeOK, FreeWrong
  <2>2. HandleInv'
    BY <1>17, <2>0, <2>01 DEF TypeOK, HandleInv, FreshAt, AdoptedAt, MaybeOpenAt, FreeWrong
  <2>3. TargetInv'
    BY <1>17 DEF TypeOK, TargetInv, UsesInitConfig, FreeWrong, Freed
  <2>4. GenerationInv'
    BY <1>17 DEF TypeOK, HandleInv, GenerationInv, ConnectionNamesOneOpen, FreshAt,
      FreeWrong, Freed
  <2> QED
    BY <2>1, <2>2, <2>3, <2>4
<1>18. CASE ConfigureFresh
  <2>1. pc = "configureFresh" /\ fresh \in Handles /\ handle = 0 /\ job.config \in Configs \cup {None}
    BY <1>18 DEF ConfigureFresh, TypeOK, HandleInv, FreshAt, AdoptedAt, MaybeOpenAt
  <2>2. /\ UNCHANGED <<opens, files, session, models, lastStatus, job, target, previous,
                       requestError, result, observers>>
    BY <1>18 DEF ConfigureFresh
  <2>3. CASE Configured(fresh, job.config) /\ pc' = "adopt" /\ UNCHANGED <<fresh, lastError>>
    <3>0. /\ sdk' \in [Handles -> [applet : Applets \cup {None}, params : Configs \cup {None}]]
          /\ \A g \in Handles : sdk'[g].applet = sdk[g].applet
          /\ \A g \in Handles : g # fresh => sdk'[g] = sdk[g]
      BY <2>1, <2>3, ConfiguredKeepsApplets
    <3>1. TypeOK'
      BY <2>1, <2>2, <2>3, <3>0 DEF TypeOK, Operations
    <3>2. HandleInv'
      BY <2>1, <2>2, <2>3, <3>0 DEF TypeOK, HandleInv, FreshAt, AdoptedAt, MaybeOpenAt
    <3>3. TargetInv'
      BY <2>1, <2>2, <2>3, <3>0 DEF TypeOK, TargetInv, UsesInitConfig
    <3>4. GenerationInv'
      BY <2>1, <2>2, <2>3, <3>0 DEF TypeOK, HandleInv, GenerationInv,
        ConnectionNamesOneOpen, FreshAt
    <3> QED
      BY <3>1, <3>2, <3>3, <3>4
  <2>4. CASE Freed(fresh) /\ fresh' = 0 /\ pc' = "restore" /\ lastError' = "request"
    <3>0. /\ sdk' \in [Handles -> [applet : Applets \cup {None}, params : Configs \cup {None}]]
          /\ sdk'[fresh] = Closed /\ sdk'[fresh].applet = None
          /\ \A g \in Handles : g # fresh => sdk'[g] = sdk[g]
      BY <2>1, <2>4, FreedCloses
    <3>1. TypeOK'
      BY <2>1, <2>2, <2>4, <3>0 DEF TypeOK, Operations
    <3>2. HandleInv'
      BY <2>1, <2>2, <2>4, <3>0 DEF TypeOK, HandleInv, FreshAt, AdoptedAt, MaybeOpenAt
    <3>3. TargetInv'
      BY <2>1, <2>2, <2>4, <3>0 DEF TypeOK, TargetInv, UsesInitConfig
    <3>4. GenerationInv'
      BY <2>1, <2>2, <2>4, <3>0 DEF TypeOK, HandleInv, GenerationInv,
        ConnectionNamesOneOpen, FreshAt
    <3> QED
      BY <3>1, <3>2, <3>3, <3>4
  <2> QED
    BY <1>18, <2>3, <2>4 DEF ConfigureFresh
<1>19. CASE Adopt
  <2>1. TypeOK'
    <3>1. renamed' \in BOOLEAN
      BY <1>19, Zenon DEF Adopt, AdoptBoard
    <3> QED
      BY <1>19, <3>1 DEF TypeOK, HandleInv, GenerationInv, FreshAt, Adopt, AdoptBoard
  <2>2. HandleInv'
    BY <1>19 DEF TypeOK, HandleInv, FreshAt, AdoptedAt, MaybeOpenAt, Adopt, AdoptBoard
  <2>3. TargetInv'
    BY <1>19 DEF TypeOK, TargetInv, UsesInitConfig, Adopt, AdoptBoard
  <2>4. GenerationInv'
    BY <1>19 DEF TypeOK, HandleInv, GenerationInv, ConnectionNamesOneOpen, FreshAt,
      Adopt, AdoptBoard
  <2> QED
    BY <2>1, <2>2, <2>3, <2>4
<1>20. CASE TellOn
  BY <1>20 DEF TypeOK, HandleInv, TargetInv, GenerationInv, ConnectionNamesOneOpen,
    FreshAt, AdoptedAt, MaybeOpenAt, UsesInitConfig, Operations, TellOn, Returns
<1>21. CASE ConfigureCurrent
  <2>1. /\ pc = "configureCurrent" /\ pc' = "idle" /\ result' \in {"succeeded", "failed"}
        /\ models' = 0 /\ lastError' \in {lastError, "geometry", "request"}
        /\ configurationPath' \in {configurationPath, job.config}
        /\ UNCHANGED <<opens, files, handle, generation, appletPath, renamed, lastStatus,
                       operation, observers>>
    BY <1>21 DEF ConfigureCurrent, Returns
  <2>2. CASE handle # 0 /\ Configured(handle, job.config)
    <3>5. handle \in Handles /\ job.config \in Configs \cup {None}
      BY <2>2 DEF TypeOK
    <3>0. /\ sdk' \in [Handles -> [applet : Applets \cup {None}, params : Configs \cup {None}]]
          /\ \A g \in Handles : sdk'[g].applet = sdk[g].applet
          /\ \A g \in Handles : g # handle => sdk'[g] = sdk[g]
      BY <2>2, <3>5, ConfiguredKeepsApplets
    <3>1. TypeOK'
      BY <2>1, <2>2, <3>0, <3>5 DEF TypeOK, Operations
    <3>2. HandleInv'
      BY <2>1, <2>2, <3>0, <3>5 DEF TypeOK, HandleInv, FreshAt, AdoptedAt, MaybeOpenAt
    <3>3. TargetInv'
      BY <2>1, <2>2, <3>0, <3>5 DEF TypeOK, TargetInv, UsesInitConfig
    <3>4. GenerationInv'
      BY <2>1, <2>2, <3>0, <3>5 DEF TypeOK, HandleInv, GenerationInv,
        ConnectionNamesOneOpen, FreshAt
    <3> QED
      BY <3>1, <3>2, <3>3, <3>4
  <2>3. CASE UNCHANGED sdk
    <3>1. TypeOK'
      BY <2>1, <2>3 DEF TypeOK, Operations
    <3>2. HandleInv'
      BY <2>1, <2>3 DEF TypeOK, HandleInv, FreshAt, AdoptedAt, MaybeOpenAt
    <3>3. TargetInv'
      BY <2>1, <2>3 DEF TypeOK, TargetInv, UsesInitConfig
    <3>4. GenerationInv'
      BY <2>1, <2>3 DEF TypeOK, HandleInv, GenerationInv, ConnectionNamesOneOpen, FreshAt
    <3> QED
      BY <3>1, <3>2, <3>3, <3>4
  <2> QED
    BY <1>21, <2>2, <2>3 DEF ConfigureCurrent
<1>22. CASE Save
  <2>1. /\ pc = "save" /\ pc' = "idle" /\ result' \in {"succeeded", "failed"}
        /\ lastError' \in {lastError, "request"}
        /\ configurationPath' \in {configurationPath, job.config}
        /\ UNCHANGED <<opens, handle, generation, appletPath, renamed, models, lastStatus,
                       operation, observers>>
    BY <1>22 DEF Save, Returns
  <2>2. CASE /\ handle # 0 /\ files' = [files EXCEPT ![job.config] = sdk[handle].applet]
             /\ Configured(handle, job.config)
    <3>5. handle \in Handles /\ job.config \in Configs \cup {None} /\ sdk[handle].applet \in Applets
      BY <2>2 DEF TypeOK, HandleInv
    <3>0. /\ sdk' \in [Handles -> [applet : Applets \cup {None}, params : Configs \cup {None}]]
          /\ \A g \in Handles : sdk'[g].applet = sdk[g].applet
          /\ \A g \in Handles : g # handle => sdk'[g] = sdk[g]
      BY <2>2, <3>5, ConfiguredKeepsApplets
    <3>6. files' \in [Configs -> Applets]
      BY <2>2, <3>5 DEF TypeOK
    <3>7. handle # 0
      BY <2>2
    <3>1. TypeOK'
      BY <2>1, <3>0, <3>5, <3>6, <3>7 DEF TypeOK, Operations
    <3>2. HandleInv'
      BY <2>1, <3>0, <3>5, <3>6, <3>7 DEF TypeOK, HandleInv, FreshAt, AdoptedAt, MaybeOpenAt
    <3>3. TargetInv'
      BY <2>1, <3>0, <3>5, <3>6, <3>7 DEF TypeOK, TargetInv, UsesInitConfig
    <3>4. GenerationInv'
      BY <2>1, <3>0, <3>5, <3>6, <3>7 DEF TypeOK, HandleInv, GenerationInv,
        ConnectionNamesOneOpen, FreshAt
    <3> QED
      BY <3>1, <3>2, <3>3, <3>4
  <2>3. CASE UNCHANGED <<sdk, files>>
    <3>1. TypeOK'
      BY <2>1, <2>3 DEF TypeOK, Operations
    <3>2. HandleInv'
      BY <2>1, <2>3 DEF TypeOK, HandleInv, FreshAt, AdoptedAt, MaybeOpenAt
    <3>3. TargetInv'
      BY <2>1, <2>3 DEF TypeOK, TargetInv, UsesInitConfig
    <3>4. GenerationInv'
      BY <2>1, <2>3 DEF TypeOK, HandleInv, GenerationInv, ConnectionNamesOneOpen, FreshAt
    <3> QED
      BY <3>1, <3>2, <3>3, <3>4
  <2> QED
    BY <1>22, <2>2, <2>3 DEF Save
<1>23. CASE Restore
  <2>1. TypeOK'
    <3>1. /\ pc' \in {"idle", "restoreInit"} /\ result' \in {"failed", result}
          /\ requestError' \in {requestError, "request"}
          /\ appletPath' \in {appletPath, previous.appletPath}
          /\ configurationPath' \in {configurationPath, previous.configurationPath}
      BY <1>23 DEF Restore, Returns, TargetInv
    <3>2. UNCHANGED <<board, handle, generation, lastError, models, lastStatus, job, target, previous,
                      fresh, observers>>
      BY <1>23 DEF Restore
    <3>3. renamed' \in BOOLEAN
      BY <1>23, Zenon DEF Restore, TypeOK
    <3> QED
      BY <3>1, <3>2, <3>3 DEF TypeOK
  <2>2. HandleInv'
    BY <1>23 DEF TypeOK, HandleInv, FreshAt, AdoptedAt, MaybeOpenAt, Restore, Returns
  <2>3. TargetInv'
    BY <1>23 DEF TypeOK, TargetInv, UsesInitConfig, Restore, Returns
  <2>4. GenerationInv'
    BY <1>23 DEF TypeOK, HandleInv, GenerationInv, ConnectionNamesOneOpen, FreshAt,
      Restore, Returns
  <2> QED
    BY <2>1, <2>2, <2>3, <2>4
<1>24. CASE RestoreInit
  <2>1. /\ pc = "restoreInit" /\ fresh = 0 /\ handle = 0 /\ previous.appletPath # None
        /\ previous.appletPath \in Applets \cup {None}
    BY <1>24 DEF RestoreInit, TypeOK, HandleInv, TargetInv, FreshAt, AdoptedAt, MaybeOpenAt
  <2>2. UNCHANGED <<session, models, lastStatus, job, target, previous, requestError, result,
                    observers>>
    BY <1>24 DEF RestoreInit
  <2>3. CASE lastError' = "restore" /\ pc' = "restoreEnd" /\ UNCHANGED <<board, fresh>>
    <3>1. TypeOK'
      BY <2>1, <2>2, <2>3 DEF TypeOK, Operations
    <3>2. HandleInv'
      BY <2>1, <2>2, <2>3 DEF TypeOK, HandleInv, FreshAt, AdoptedAt, MaybeOpenAt
    <3>3. TargetInv'
      BY <2>1, <2>2, <2>3 DEF TypeOK, TargetInv, UsesInitConfig
    <3>4. GenerationInv'
      BY <2>1, <2>2, <2>3 DEF TypeOK, HandleInv, GenerationInv, ConnectionNamesOneOpen,
        FreshAt
    <3> QED
      BY <3>1, <3>2, <3>3, <3>4
  <2>4. CASE /\ Opened(previous.appletPath, None)
             /\ pc' \in {"restoreAdopt", "restoreConfigure"} /\ UNCHANGED lastError
    <3>0. /\ opens' = opens + 1 /\ fresh' = opens + 1 /\ files' = files
          /\ opens' \in 0 .. MaxOpens /\ opens + 1 \in Handles
          /\ sdk' \in [Handles -> [applet : Applets \cup {None}, params : Configs \cup {None}]]
          /\ sdk'[opens + 1].applet = previous.appletPath
          /\ \A h \in Handles : h # opens + 1 => sdk'[h] = sdk[h]
      BY <2>1, <2>4, OpenedAdds
    <3>1. TypeOK'
      BY <2>1, <2>2, <2>4, <3>0 DEF TypeOK, Operations
    <3>2. HandleInv'
      <4>1. handle' = 0 /\ fresh' = opens + 1 /\ 0 \notin Handles /\ opens + 1 \in Handles
        BY <2>1, <2>2, <2>4, <3>0 DEF TypeOK
      <4>2. \A h \in Handles : sdk[h].applet = None
        BY <2>1, <4>1 DEF HandleInv
      <4>3. ASSUME NEW h \in Handles
            PROVE  /\ sdk'[h].applet # None <=> h \in {handle', fresh'}
                   /\ sdk'[h].applet = None => sdk'[h] = Closed
        <5>1. CASE h = opens + 1
          BY <2>1, <2>2, <2>4, <3>0, <4>1, <5>1
        <5>2. CASE h # opens + 1
          BY <2>1, <2>2, <2>4, <3>0, <4>1, <4>2, <5>2 DEF HandleInv
        <5> QED
          BY <5>1, <5>2
      <4> QED
        BY <2>1, <2>2, <2>4, <3>0, <4>1, <4>3 DEF TypeOK, HandleInv, FreshAt, AdoptedAt,
          MaybeOpenAt
    <3>3. TargetInv'
      BY <2>1, <2>2, <2>4, <3>0 DEF TypeOK, TargetInv, UsesInitConfig
    <3>4. GenerationInv'
      BY <2>1, <2>2, <2>4, <3>0 DEF TypeOK, HandleInv, GenerationInv,
        ConnectionNamesOneOpen, FreshAt
    <3> QED
      BY <3>1, <3>2, <3>3, <3>4
  <2> QED
    BY <1>24, <2>3, <2>4 DEF RestoreInit
<1>25. CASE RestoreConfigure
  <2>1. /\ pc = "restoreConfigure" /\ pc' = "restoreAdopt" /\ fresh \in Handles /\ handle = 0
        /\ previous.configurationPath \in Configs \cup {None}
        /\ UNCHANGED <<opens, files, session, lastError, models, lastStatus, operation, result,
                       observers>>
    BY <1>25 DEF RestoreConfigure, TypeOK, HandleInv, FreshAt, AdoptedAt, MaybeOpenAt
  <2>2. CASE Configured(fresh, previous.configurationPath)
    <3>0. /\ sdk' \in [Handles -> [applet : Applets \cup {None}, params : Configs \cup {None}]]
          /\ \A g \in Handles : sdk'[g].applet = sdk[g].applet
          /\ \A g \in Handles : g # fresh => sdk'[g] = sdk[g]
      BY <2>1, <2>2, ConfiguredKeepsApplets
    <3>1. TypeOK'
      BY <2>1, <3>0 DEF TypeOK, Operations
    <3>2. HandleInv'
      BY <2>1, <3>0 DEF TypeOK, HandleInv, FreshAt, AdoptedAt, MaybeOpenAt
    <3>3. TargetInv'
      BY <2>1, <3>0 DEF TypeOK, TargetInv, UsesInitConfig
    <3>4. GenerationInv'
      BY <2>1, <3>0 DEF TypeOK, HandleInv, GenerationInv, ConnectionNamesOneOpen, FreshAt
    <3> QED
      BY <3>1, <3>2, <3>3, <3>4
  <2>3. CASE UNCHANGED sdk
    <3>1. TypeOK'
      BY <2>1, <2>3 DEF TypeOK, Operations
    <3>2. HandleInv'
      BY <2>1, <2>3 DEF TypeOK, HandleInv, FreshAt, AdoptedAt, MaybeOpenAt
    <3>3. TargetInv'
      BY <2>1, <2>3 DEF TypeOK, TargetInv, UsesInitConfig
    <3>4. GenerationInv'
      BY <2>1, <2>3 DEF TypeOK, HandleInv, GenerationInv, ConnectionNamesOneOpen, FreshAt
    <3> QED
      BY <3>1, <3>2, <3>3, <3>4
  <2> QED
    BY <1>25, <2>2, <2>3 DEF RestoreConfigure
<1>26. CASE RestoreEnd
  BY <1>26 DEF TypeOK, HandleInv, TargetInv, GenerationInv, ConnectionNamesOneOpen,
    FreshAt, AdoptedAt, MaybeOpenAt, UsesInitConfig, Operations, RestoreEnd, Returns
<1>27. CASE SetPaths
  BY <1>27 DEF TypeOK, HandleInv, TargetInv, GenerationInv, ConnectionNamesOneOpen,
    FreshAt, AdoptedAt, MaybeOpenAt, UsesInitConfig, Operations, SetPaths
<1>28. CASE Observe
  BY <1>28 DEF TypeOK, HandleInv, TargetInv, GenerationInv, ConnectionNamesOneOpen,
    FreshAt, AdoptedAt, MaybeOpenAt, UsesInitConfig, Operations, Observe
<1>29. CASE ReadFeatureXml
  BY <1>29 DEF TypeOK, HandleInv, TargetInv, GenerationInv, ConnectionNamesOneOpen,
    FreshAt, AdoptedAt, MaybeOpenAt, UsesInitConfig, Operations, ReadFeatureXml
<1>30. CASE EnrichModel
  BY <1>30 DEF TypeOK, HandleInv, TargetInv, GenerationInv, ConnectionNamesOneOpen,
    FreshAt, AdoptedAt, MaybeOpenAt, UsesInitConfig, Operations, EnrichModel, NoReader
<1>31. CASE StoreModel
  BY <1>31 DEF TypeOK, HandleInv, TargetInv, GenerationInv, ConnectionNamesOneOpen,
    FreshAt, AdoptedAt, MaybeOpenAt, UsesInitConfig, Operations, StoreModel, NoReader
<1>32. CASE UNCHANGED vars
  BY <1>32 DEF vars, TypeOK, HandleInv, TargetInv, GenerationInv, UsesInitConfig,
    ConnectionNamesOneOpen
<1> QED
  BY <1>1, <1>2, <1>3, <1>4, <1>5, <1>6, <1>7, <1>8, <1>9, <1>10, <1>11, <1>12, <1>13,
    <1>14, <1>15, <1>16, <1>17, <1>18, <1>19, <1>20, <1>21, <1>22, <1>23, <1>24, <1>25,
    <1>26, <1>27, <1>28, <1>29, <1>30, <1>31, <1>32 DEF Next, Requests, Steps

-----------------------------------------------------------------------------
(* Theorems                                                                *)

LEMMA Invariance == Spec => []IInv
BY InitEstablishes, StepPreserves, PTL DEF Spec

\* The variables have their types in every reachable state: no handle is numbered
\* above the newest, and a configuration file always names an applet.
THEOREM TypeCorrect == Spec => []TypeOK
<1>1. IInv => TypeOK
  BY DEF IInv
<1> QED
  BY <1>1, Invariance, PTL

\* Whatever the SDK refuses, and however loads, restorations and releases follow
\* each other, the session has one board handle at most, and the SDK has no other.
THEOREM OneHandle == Spec => []OneBoardHandle
<1>1. IInv => OneBoardHandle
  <2> SUFFICES ASSUME IInv PROVE OneBoardHandle
    OBVIOUS
  <2>1. \A h \in Handles : sdk[h] # Closed <=> h \in {handle, fresh}
    BY DEF IInv, TypeOK, HandleInv, Closed
  <2>2. handle \in Handles \cup {0} /\ fresh \in Handles \cup {0} /\ 0 \notin Handles
    BY AppletAssumption DEF IInv, TypeOK, Handles
  <2>3. Live = {handle, fresh} \ {0}
    BY <2>1, <2>2 DEF Live
  <2>4. handle = 0 \/ fresh = 0
    BY DEF IInv, HandleInv, FreshAt, AdoptedAt, MaybeOpenAt
  <2> QED
    BY <2>3, <2>4 DEF OneBoardHandle
<1> QED
  BY <1>1, Invariance, PTL

\* The SDK's applet iterator is asked only when every handle has been freed, that
\* of an attempt that failed or opened the wrong applet included.
THEOREM EnumerationMeetsNoHandle == Spec => []EnumeratesReleased
<1>1. IInv => EnumeratesReleased
  <2> SUFFICES ASSUME IInv, pc \in {"enumerate", "reenumerate"} PROVE Live = {}
    BY DEF EnumeratesReleased
  <2>1. handle = 0 /\ fresh = 0
    BY DEF IInv, HandleInv, FreshAt, AdoptedAt, MaybeOpenAt
  <2>2. \A h \in Handles : h \notin {handle, fresh}
    BY <2>1 DEF Handles
  <2> QED
    BY <2>2 DEF IInv, HandleInv, Live
<1> QED
  BY <1>1, Invariance, PTL

\* A client that compares generations never takes a new handle for the one it
\* saw: a generation is given to one handle, and never again.
THEOREM GenerationNamesOneHandle == Spec => []ConnectionNamesOneOpen
<1>1. IInv => ConnectionNamesOneOpen
  BY DEF IInv, GenerationInv
<1> QED
  BY <1>1, Invariance, PTL
-----------------------------------------------------------------------------
(* AppletLifecycle implements BoardSession                                 *)

\* What was told of the connection is so, except between a change and its notice.
UntoldAt == AdoptedAt \cup {"tellOff"}
StatusInv ==
  /\ lastStatus \in BOOLEAN
  /\ pc \in UntoldAt => (lastStatus <=> handle = 0)
  /\ pc \notin UntoldAt => (lastStatus <=> handle # 0)

\* The actions that open, adopt, release or tell nothing of the session's board.
\* They move the operation between steps at which nothing is untold, and they
\* leave the applet of the session's handle as it is.
LEMMA OthersKeepConnection ==
  ASSUME IInv, [Next]_vars, ~Release, ~AfterRelease, ~Adopt, ~TellOn
  PROVE  /\ UNCHANGED <<handle, generation, lastStatus>>
         /\ pc' \in UntoldAt <=> pc \in UntoldAt
         /\ handle # 0 => sdk'[handle].applet = sdk[handle].applet
<1> USE AppletAssumption DEF UntoldAt, AdoptedAt, board, session, operation, observers
<1>1. CASE Requests
  BY <1>1 DEF Requests, BeginLoad, Open, BeginLoadConfiguration, BeginConfigure, BeginSave,
    BeginClose, BeginRefresh, Begin
<1>2. CASE Enumerate \/ Refused \/ Resolve \/ Capture \/ JoinRefused \/ Restore \/ RestoreEnd
  BY <1>2 DEF Enumerate, Refused, Resolve, Capture, JoinRefused, Restore, RestoreEnd,
    RefusedWith, Returns
<1>3. CASE InitializeBoard \/ InitConfig \/ FreeWrong \/ ConfigureFresh \/ RestoreInit
           \/ RestoreConfigure
  <2>1. handle = 0
    BY <1>3 DEF InitializeBoard, InitConfig, FreeWrong, ConfigureFresh, RestoreInit,
      RestoreConfigure, IInv, HandleInv, MaybeOpenAt
  <2> QED
    BY <1>3, <2>1 DEF InitializeBoard, InitConfig, FreeWrong, ConfigureFresh, RestoreInit,
      RestoreConfigure, InitFails
<1>4. CASE ConfigureCurrent
  <2>1. handle # 0 => sdk'[handle].applet = sdk[handle].applet
    BY <1>4 DEF ConfigureCurrent, Configured, IInv, TypeOK, Handles
  <2> QED
    BY <1>4, <2>1 DEF ConfigureCurrent, Returns
<1>5. CASE Save
  <2>1. handle # 0 => sdk'[handle].applet = sdk[handle].applet
    <3>1. UNCHANGED sdk \/ Configured(handle, job.config)
      BY <1>5 DEF Save
    <3>2. handle # 0 => handle \in Handles
      BY DEF IInv, TypeOK, Handles
    <3> QED
      BY <3>1, <3>2 DEF Configured, IInv, TypeOK
  <2> QED
    BY <1>5, <2>1 DEF Save, Returns
<1>6. CASE SetPaths
  BY <1>6 DEF SetPaths
<1>7. CASE Observe \/ ReadFeatureXml \/ EnrichModel \/ StoreModel
  BY <1>7 DEF Observe, ReadFeatureXml, EnrichModel, StoreModel
<1>8. CASE UNCHANGED vars
  BY <1>8 DEF vars
<1> QED
  BY <1>1, <1>2, <1>3, <1>4, <1>5, <1>6, <1>7, <1>8 DEF Next, Steps

LEMMA StatusInductive == IInv /\ StatusInv /\ [Next]_vars => StatusInv'
<1> SUFFICES ASSUME IInv, StatusInv, [Next]_vars PROVE StatusInv'
  OBVIOUS
<1> USE DEF StatusInv, UntoldAt, AdoptedAt, board, session, operation, observers
<1>1. CASE Release
  <2>1. pc = "release" /\ handle' = 0 /\ UNCHANGED lastStatus
    BY <1>1 DEF Release
  <2>2. pc' = IF handle = 0 THEN "clear" ELSE "tellOff"
    BY <1>1 DEF Release
  <2> QED
    BY <2>1, <2>2
<1>2. CASE AfterRelease
  <2>1. handle = 0 /\ UNCHANGED handle /\ pc \in {"tellOff", "clear"}
    BY <1>2 DEF AfterRelease, IInv, HandleInv, MaybeOpenAt
  <2>2. pc' \in {"idle", "reenumerate", "init"}
    BY <1>2, Zenon DEF AfterRelease, Returns
  <2>3. lastStatus' = FALSE
    <3>1. CASE pc = "tellOff"
      BY <1>2, <3>1 DEF AfterRelease
    <3>2. CASE pc = "clear"
      BY <1>2, <2>1, <3>2 DEF AfterRelease
    <3> QED
      BY <2>1, <3>1, <3>2
  <2> QED
    BY <2>1, <2>2, <2>3
<1>3. CASE Adopt
  <2>1. handle = 0 /\ pc \in FreshAt /\ handle' # 0 /\ UNCHANGED lastStatus
    BY <1>3 DEF Adopt, AdoptBoard, IInv, HandleInv, FreshAt, MaybeOpenAt
  <2>2. pc' \in AdoptedAt
    BY <1>3 DEF Adopt
  <2> QED
    BY <2>1, <2>2 DEF FreshAt
<1>4. CASE TellOn
  <2>1. handle # 0 /\ UNCHANGED handle /\ lastStatus' = TRUE
    BY <1>4 DEF TellOn, IInv, HandleInv
  <2>2. pc' \in {"idle", "restoreEnd"}
    BY <1>4 DEF TellOn, Returns
  <2> QED
    BY <2>1, <2>2
<1>5. CASE ~Release /\ ~AfterRelease /\ ~Adopt /\ ~TellOn
  BY <1>5, OthersKeepConnection
<1> QED
  BY <1>1, <1>2, <1>3, <1>4, <1>5

LEMMA SessionStep ==
  ASSUME IInv, StatusInv, [Next]_vars
  PROVE  [Session!SessionNext]_Session!svars
<1> DEFINE applet == IF handle = 0 THEN None ELSE sdk[handle].applet
<1> USE DEF Session!svars, Session!SessionNext, StatusInv, UntoldAt, AdoptedAt,
            board, session, operation, observers
<1>1. applet \in Applets \cup {None} /\ (applet = None <=> handle = 0)
  BY AppletAssumption DEF IInv, TypeOK, HandleInv, Handles
<1>2. CASE Release
  <2>1. handle' = 0 /\ UNCHANGED <<generation, lastStatus>> /\ pc = "release"
    BY <1>2 DEF Release
  <2>2. CASE handle = 0
    BY <2>1, <2>2
  <2>3. CASE handle # 0
    BY <1>1, <2>1, <2>3 DEF Session!Disconnect
  <2> QED
    BY <2>2, <2>3
<1>3. CASE AfterRelease
  <2>1. handle = 0 /\ UNCHANGED <<handle, generation>> /\ pc \in {"tellOff", "clear"}
    BY <1>3 DEF AfterRelease, IInv, HandleInv, MaybeOpenAt
  <2>2. CASE pc = "tellOff"
    BY <1>3, <2>1, <2>2 DEF AfterRelease, Session!Tell
  <2>3. CASE pc = "clear"
    BY <1>3, <2>1, <2>3 DEF AfterRelease
  <2> QED
    BY <2>1, <2>2, <2>3
<1>4. CASE Adopt
  <2>1. handle = 0 /\ pc \in FreshAt /\ fresh # 0
    BY <1>4 DEF Adopt, IInv, HandleInv, FreshAt, MaybeOpenAt
  <2>2. fresh \in Handles
    BY <2>1, AppletAssumption DEF IInv, TypeOK, Handles
  <2>3. sdk[fresh].applet \in Applets
    BY <2>2 DEF IInv, TypeOK, HandleInv
  <2>4. handle' = fresh /\ generation' = generation + 1 /\ UNCHANGED <<sdk, lastStatus>>
    BY <1>4 DEF Adopt, AdoptBoard
  <2> QED
    BY <1>1, <2>1, <2>3, <2>4 DEF FreshAt, Session!Connect
<1>5. CASE TellOn
  <2>1. /\ handle # 0 /\ lastStatus' = TRUE /\ pc \in AdoptedAt
        /\ UNCHANGED <<sdk, handle, generation>>
    BY <1>5 DEF TellOn, IInv, HandleInv
  <2> QED
    BY <1>1, <2>1 DEF Session!Tell
<1>6. CASE ~Release /\ ~AfterRelease /\ ~Adopt /\ ~TellOn
  <2>1. /\ UNCHANGED <<handle, generation, lastStatus>>
        /\ handle # 0 => sdk'[handle].applet = sdk[handle].applet
    BY <1>6, OthersKeepConnection
  <2>2. UNCHANGED applet
    BY <2>1
  <2> QED
    BY <2>1, <2>2
<1> QED
  BY <1>2, <1>3, <1>4, <1>5, <1>6

\* Loads, failures, restorations and releases, in any order, are to a watcher one
\* session after the other: numbered without a gap, each opening and each
\* release told before the next.
THEOREM ImplementsSession == Spec => SessionSpecification
<1>1. Init => StatusInv /\ Session!SessionInit
  BY DEF Init, StatusInv, UntoldAt, AdoptedAt, Session!SessionInit
<1>2. Spec => []StatusInv
  BY <1>1, Invariance, StatusInductive, PTL DEF Spec
<1>3. IInv /\ StatusInv /\ [Next]_vars => [Session!SessionNext]_Session!svars
  BY SessionStep
<1> QED
  BY <1>1, <1>2, <1>3, Invariance, PTL DEF Spec, SessionSpecification, Session!SessionSpec
=============================================================================
