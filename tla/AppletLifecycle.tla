--------------------------- MODULE AppletLifecycle ---------------------------
(***************************************************************************)
(* The applet of a Framegrabber: loading one, loading it with a            *)
(* configuration (.mcf), restoring the previous one when that fails, and   *)
(* releasing it.  Each operation holds _lifecycleMutex from its first step *)
(* to its last, so one is carried out at a time; in between, other threads *)
(* read and write what _stateMutex and _appletFeatureModelMutex guard -    *)
(* the paths, the cached feature model - and the SDK can refuse any call.  *)
(*                                                                         *)
(* The session has one board.  A handle is numbered by when the SDK opened *)
(* it, and 0 is the null pointer.  A file path stands for the file: which  *)
(* applet an .mcf names is what its last save wrote.  A failing            *)
(* Fg_loadConfig is taken to leave the parameters as they were.            *)
(***************************************************************************)
EXTENDS Integers

CONSTANTS
  Applets,       \* applet files
  Configs,       \* configuration files
  None,          \* the empty path
  MaxOpens       \* bound on the handles the SDK opens

ASSUME AppletAssumption ==
  None \notin Applets \cup Configs /\ Applets # {} /\ MaxOpens \in Nat

VARIABLES
  sdk,               \* what each handle has loaded; Closed once it is freed
  opens,             \* how many handles the SDK has opened
  files,             \* the applet each configuration file names
  handle,            \* _handle
  generation,        \* _connectionGeneration
  appletPath,        \* _appletPath
  configurationPath, \* _configurationPath
  renamed,           \* history: a setter named a path after the session last named both
  lastError,         \* _lastError: "none", or whose failure it tells
  models,            \* the handle the cached feature model was built for
  lastStatus,        \* the ConnectionStatus last notified
  pc,                \* the step the operation is at
  job,               \* the operation and its arguments
  target,            \* the applet it resolved: path, configuredPath, loadedAppletPath
  previous,          \* PreviousApplet
  fresh,             \* a handle not yet adopted
  requestError,      \* requestError of restorePreviousApplet
  result,            \* what the last operation returned, if nothing was asked since
  reader,            \* the handle whose feature model is being built, and how far
  client             \* the connection a client saw last

board     == <<sdk, opens, files>>
session   == <<handle, generation, appletPath, configurationPath, renamed>>
operation == <<job, target, previous, fresh, requestError>>
observers == <<reader, client>>
vars      == <<board, session, lastError, models, lastStatus, pc, operation, result, observers>>

Handles == 1 .. MaxOpens
Closed == [applet |-> None, params |-> None]
NoJob == [op |-> "none", applet |-> None, config |-> None]
NoReader == [model |-> 0, step |-> "none"]
NoPrevious == [opened |-> FALSE, appletPath |-> None, configurationPath |-> None]

Live == {h \in Handles : sdk[h] # Closed}

Operations == {"load", "loadConfiguration", "configure", "save", "close", "refresh"}

TypeOK ==
  /\ sdk \in [Handles -> [applet : Applets \cup {None}, params : Configs \cup {None}]]
  /\ opens \in 0 .. MaxOpens /\ files \in [Configs -> Applets]
  /\ handle \in 0 .. opens /\ fresh \in 0 .. opens /\ generation \in 0 .. opens
  /\ appletPath \in Applets \cup {None} /\ target \in Applets \cup {None}
  /\ configurationPath \in Configs \cup {None}
  /\ lastError \in {"none", "request", "restore", "geometry"}
  /\ requestError \in {"none", "request"}
  /\ models \in 0 .. opens /\ reader \in [model : 0 .. opens, step : {"none", "parse", "store"}]
  /\ lastStatus \in BOOLEAN /\ renamed \in BOOLEAN
  /\ pc \in {"idle", "enumerate", "resolve", "capture", "release", "tellOff", "clear",
             "reenumerate", "init", "initTarget", "freeWrong", "configureFresh", "adopt", "tellOn",
             "configureCurrent", "save", "restore", "restoreInit", "restoreConfigure",
             "restoreAdopt", "restoreTellOn", "restoreEnd"}
  /\ job \in [op : Operations \cup {"none"}, applet : Applets \cup {None}, config : Configs \cup {None}]
  /\ previous \in [opened : BOOLEAN, appletPath : Applets \cup {None},
                   configurationPath : Configs \cup {None}]
  /\ result \in {"none", "succeeded", "failed"}
  /\ client \in [generation : 0 .. opens, handle : 0 .. opens]

Init ==
  /\ sdk = [h \in Handles |-> Closed] /\ opens = 0 /\ files \in [Configs -> Applets]
  /\ handle = 0 /\ generation = 0 /\ appletPath = None /\ configurationPath = None
  /\ renamed = FALSE
  /\ lastError = "none" /\ models = 0 /\ lastStatus = FALSE
  /\ pc = "idle" /\ job = NoJob /\ target = None /\ previous = NoPrevious
  /\ fresh = 0 /\ requestError = "none" /\ result = "none"
  /\ reader = NoReader /\ client = [generation |-> 0, handle |-> 0]

-----------------------------------------------------------------------------
(* How an operation begins and ends.                                       *)

Begin(op, applet, config, step) ==
  /\ pc = "idle" /\ opens < MaxOpens
  /\ job' = [op |-> op, applet |-> applet, config |-> config]
  /\ previous' = NoPrevious /\ target' = None /\ fresh' = 0
  /\ pc' = step /\ result' = "none"
  /\ UNCHANGED <<board, session, models, lastStatus, requestError, observers>>

\* Mutant: the catalog is enumerated whether an applet is open or not.
BeginLoad_Enumerates(applet) ==
  /\ lastError' = "none"
  /\ Begin("load", applet, None, "enumerate")

BeginLoad(applet) ==
  /\ lastError' = "none"
  /\ Begin("load", applet, None, IF handle = 0 THEN "enumerate" ELSE "resolve")

\* open() loads the applet that setAppletPath named.
Open == appletPath # None /\ BeginLoad(appletPath)

BeginLoadConfiguration(applet, config) ==
  /\ lastError' = "none"
  /\ Begin("loadConfiguration", applet, config, "resolve")

BeginConfigure(config) ==
  /\ lastError' = "none"
  /\ Begin("configure", None, config, "configureCurrent")

BeginSave(config) ==
  /\ lastError' = "none"
  /\ Begin("save", None, config, "save")

BeginClose == UNCHANGED lastError /\ Begin("close", None, None, "release")

BeginRefresh ==
  /\ handle = 0 /\ UNCHANGED lastError
  /\ Begin("refresh", None, None, "enumerate")

Returns(value) == pc' = "idle" /\ result' = value

RefusedWith(error) ==
  /\ Returns("failed") /\ lastError' = error
  /\ UNCHANGED <<board, session, models, lastStatus, operation, observers>>

-----------------------------------------------------------------------------
(* The SDK                                                                 *)

Opened(applet, params) ==
  /\ opens < MaxOpens
  /\ opens' = opens + 1 /\ fresh' = opens + 1
  /\ sdk' = [sdk EXCEPT ![opens + 1] = [applet |-> applet, params |-> params]]
  /\ UNCHANGED files

Configured(h, config) == sdk' = [sdk EXCEPT ![h].params = config]

Freed(h) == sdk' = [sdk EXCEPT ![h] = Closed]

-----------------------------------------------------------------------------
(* Before the board is touched: catalog, applet reference, what is loaded. *)

\* refreshAppletCatalogUnlocked: the iterator query.
Enumerate ==
  /\ pc \in {"enumerate", "reenumerate"}
  /\ IF job.op = "refresh" THEN Returns("succeeded")
     ELSE /\ pc' = IF pc = "enumerate" THEN "resolve" ELSE "init"
          /\ UNCHANGED result
  /\ UNCHANGED <<board, session, lastError, models, lastStatus, operation, observers>>

\* No such board, no such applet, no such file, or acquisition is running.
Refused == pc = "resolve" /\ RefusedWith("request")

\* The applet an operation is to load.  The reference in an .mcf may be one
\* that only the SDK can resolve.
References ==
  IF job.op = "load" \/ job.applet # None THEN {job.applet} ELSE {files[job.config], None}

IsCurrentApplet(applet) ==
  job.op = "loadConfiguration" /\ handle # 0 /\ applet # None /\ applet = appletPath

Resolve ==
  /\ pc = "resolve"
  /\ \E applet \in References :
       /\ target' = applet
       /\ pc' = IF IsCurrentApplet(applet) THEN "configureCurrent" ELSE "capture"
  /\ UNCHANGED <<board, session, lastError, models, lastStatus, job, previous, fresh,
                 requestError, result, observers>>

Capture ==
  /\ pc = "capture"
  /\ previous' = [opened |-> handle # 0, appletPath |-> appletPath,
                  configurationPath |-> configurationPath]
  /\ pc' = "release"
  /\ UNCHANGED <<board, session, lastError, models, lastStatus, job, target, fresh,
                 requestError, result, observers>>

-----------------------------------------------------------------------------
(* closeUnlocked                                                           *)

\* A callback of a worker asks: that worker cannot be joined.
JoinRefused ==
  /\ pc = "release"
  /\ RefusedWith(IF job.op = "close" THEN lastError ELSE "request")

Release ==
  /\ pc = "release"
  /\ IF handle = 0 THEN UNCHANGED sdk ELSE Freed(handle)
  /\ handle' = 0
  /\ pc' = IF handle = 0 THEN "clear" ELSE "tellOff"
  /\ UNCHANGED <<opens, files, generation, appletPath, configurationPath, renamed, lastError,
                 models, lastStatus, operation, result, observers>>

\* Mutant: a load releases the board without a notification (closeUnlocked(false)).
AfterRelease_Untold ==
  /\ pc \in {"tellOff", "clear"}
  /\ models' = 0
  /\ lastStatus' = IF pc = "tellOff" /\ job.op = "close" THEN FALSE ELSE lastStatus
  /\ IF job.op = "close" THEN Returns("succeeded")
     ELSE /\ pc' = IF job.op = "loadConfiguration" \/ previous.opened THEN "reenumerate" ELSE "init"
          /\ UNCHANGED result
  /\ UNCHANGED <<board, session, lastError, operation, observers>>

\* The feature models go, the release is notified, and a load goes on: with
\* another enumeration if the first found a handle open.
AfterRelease ==
  /\ pc \in {"tellOff", "clear"}
  /\ models' = 0
  /\ lastStatus' = IF pc = "tellOff" THEN FALSE ELSE lastStatus
  /\ IF job.op = "close" THEN Returns("succeeded")
     ELSE /\ pc' = IF job.op = "loadConfiguration" \/ previous.opened THEN "reenumerate" ELSE "init"
          /\ UNCHANGED result
  /\ UNCHANGED <<board, session, lastError, operation, observers>>

-----------------------------------------------------------------------------
(* Initialization                                                          *)

InitFails(next) ==
  /\ lastError' = "request" /\ pc' = next
  /\ UNCHANGED <<board, session, models, lastStatus, operation, result, observers>>

UsesInitConfig == job.op = "loadConfiguration" /\ job.applet = None

\* Fg_Init on the applet of a load, an override, or a fallback.
InitializeBoard ==
  /\ \/ pc = "init" /\ ~UsesInitConfig
     \/ pc = "initTarget"
  /\ \/ InitFails("restore")
     \/ /\ Opened(target, None)
        /\ pc' = IF job.op = "load" THEN "adopt" ELSE "configureFresh"
        /\ UNCHANGED <<session, lastError, models, lastStatus, job, target, previous,
                       requestError, result, observers>>

\* Mutant: whichever applet Fg_InitConfig opened is taken for the one the .mcf names.
InitConfig_TrustsFile ==
  /\ pc = "init" /\ UsesInitConfig
  /\ \/ target = None /\ InitFails("restore")
     \/ /\ target # None /\ pc' = "initTarget"
        /\ UNCHANGED <<board, session, lastError, models, lastStatus, operation, result,
                       observers>>
     \/ \E applet \in Applets :
          /\ Opened(applet, job.config)
          /\ target' = (IF target = None THEN applet ELSE target) /\ pc' = "adopt"
          /\ UNCHANGED <<session, lastError, models, lastStatus, job, previous, requestError,
                         result, observers>>

\* Fg_InitConfig, which may open another applet than the .mcf names.
InitConfig ==
  /\ pc = "init" /\ UsesInitConfig
  /\ \/ target = None /\ InitFails("restore")
     \/ /\ target # None /\ pc' = "initTarget"
        /\ UNCHANGED <<board, session, lastError, models, lastStatus, operation, result,
                       observers>>
     \/ \E applet \in Applets :
          /\ Opened(applet, job.config)
          /\ IF target \in {None, applet}
               THEN target' = applet /\ pc' = "adopt"
               ELSE UNCHANGED target /\ pc' = "freeWrong"
          /\ UNCHANGED <<session, lastError, models, lastStatus, job, previous, requestError,
                         result, observers>>

FreeWrong ==
  /\ pc = "freeWrong"
  /\ Freed(fresh) /\ fresh' = 0 /\ pc' = "initTarget"
  /\ UNCHANGED <<opens, files, session, lastError, models, lastStatus, job, target, previous,
                 requestError, result, observers>>

\* Mutant: a refused configuration leaves the new handle open.
ConfigureFresh_Leaks ==
  /\ pc = "configureFresh"
  /\ \/ Configured(fresh, job.config) /\ pc' = "adopt" /\ UNCHANGED <<fresh, lastError>>
     \/ UNCHANGED sdk /\ fresh' = 0 /\ pc' = "restore" /\ lastError' = "request"
  /\ UNCHANGED <<opens, files, session, models, lastStatus, job, target, previous,
                 requestError, result, observers>>

ConfigureFresh ==
  /\ pc = "configureFresh"
  /\ \/ Configured(fresh, job.config) /\ pc' = "adopt" /\ UNCHANGED <<fresh, lastError>>
     \/ Freed(fresh) /\ fresh' = 0 /\ pc' = "restore" /\ lastError' = "request"
  /\ UNCHANGED <<opens, files, session, models, lastStatus, job, target, previous,
                 requestError, result, observers>>

-----------------------------------------------------------------------------
(* adoptBoard: under _stateMutex; then cameras are discovered and their    *)
(* geometry is aligned, which can fail without failing the load.           *)

\* Mutant: a new handle goes by the generation of the old one.
AdoptBoard_SameGeneration(path, config) ==
  /\ handle' = fresh /\ fresh' = 0
  /\ generation' = IF generation = 0 THEN 1 ELSE generation
  /\ appletPath' = path /\ configurationPath' = config /\ renamed' = FALSE
  /\ UNCHANGED <<board, lastError, models, lastStatus, job, target, previous, requestError,
                 result, observers>>

\* Mutant: the generation is counted by the caller, too.
AdoptBoard_CountsTwice(path, config) ==
  /\ handle' = fresh /\ fresh' = 0
  /\ generation' = generation + 2
  /\ appletPath' = path /\ configurationPath' = config /\ renamed' = FALSE
  /\ UNCHANGED <<board, lastError, models, lastStatus, job, target, previous, requestError,
                 result, observers>>

AdoptBoard(path, config) ==
  /\ handle' = fresh /\ fresh' = 0
  /\ generation' = generation + 1
  /\ appletPath' = path /\ configurationPath' = config /\ renamed' = FALSE
  /\ UNCHANGED <<board, lastError, models, lastStatus, job, target, previous, requestError,
                 result, observers>>

Adopt ==
  \/ pc = "adopt" /\ AdoptBoard(target, job.config) /\ pc' = "tellOn"
  \/ /\ pc = "restoreAdopt"
     /\ AdoptBoard(previous.appletPath, previous.configurationPath)
     /\ pc' = "restoreTellOn"

TellOn ==
  /\ pc \in {"tellOn", "restoreTellOn"}
  /\ models' = 0 /\ lastStatus' = TRUE
  /\ lastError' \in {lastError, "geometry"}
  /\ IF pc = "tellOn" THEN Returns("succeeded") ELSE pc' = "restoreEnd" /\ UNCHANGED result
  /\ UNCHANGED <<board, session, operation, observers>>

-----------------------------------------------------------------------------
(* loadConfigurationUnlocked on the applet that is loaded, saveConfiguration *)

ConfigureCurrent ==
  /\ pc = "configureCurrent" /\ models' = 0
  /\ \/ /\ handle # 0 /\ Configured(handle, job.config) /\ configurationPath' = job.config
        /\ lastError' \in {lastError, "geometry"} /\ Returns("succeeded")
     \/ UNCHANGED <<sdk, configurationPath>> /\ lastError' = "request" /\ Returns("failed")
  /\ UNCHANGED <<opens, files, handle, generation, appletPath, renamed, lastStatus, operation,
                 observers>>

Save ==
  /\ pc = "save"
  /\ \/ /\ handle # 0 /\ files' = [files EXCEPT ![job.config] = sdk[handle].applet]
        /\ Configured(handle, job.config) /\ configurationPath' = job.config
        /\ UNCHANGED lastError /\ Returns("succeeded")
     \/ UNCHANGED <<sdk, files, configurationPath>> /\ lastError' = "request" /\ Returns("failed")
  /\ UNCHANGED <<opens, handle, generation, appletPath, renamed, models, lastStatus, operation,
                 observers>>

-----------------------------------------------------------------------------
(* restorePreviousApplet                                                   *)

Restore ==
  /\ pc = "restore"
  /\ IF previous.opened /\ previous.appletPath # None
     THEN \* the board may be gone from the list
          /\ \/ Returns("failed") /\ UNCHANGED requestError
             \/ pc' = "restoreInit" /\ requestError' = lastError /\ UNCHANGED result
          /\ UNCHANGED <<appletPath, configurationPath, renamed>>
     ELSE /\ appletPath' = previous.appletPath
          /\ configurationPath' = previous.configurationPath /\ renamed' = FALSE
          /\ Returns("failed") /\ UNCHANGED requestError
  /\ UNCHANGED <<board, handle, generation, lastError, models, lastStatus, job, target, previous,
                 fresh, observers>>

RestoreInit ==
  /\ pc = "restoreInit"
  /\ \/ /\ lastError' = "restore" /\ pc' = "restoreEnd"
        /\ UNCHANGED <<board, fresh>>
     \/ /\ Opened(previous.appletPath, None)
        /\ pc' = IF previous.configurationPath = None THEN "restoreAdopt" ELSE "restoreConfigure"
        /\ UNCHANGED lastError
  /\ UNCHANGED <<session, models, lastStatus, job, target, previous, requestError, result,
                 observers>>

\* A configuration the SDK refuses is only logged.
RestoreConfigure ==
  /\ pc = "restoreConfigure"
  /\ Configured(fresh, previous.configurationPath) \/ UNCHANGED sdk
  /\ pc' = "restoreAdopt"
  /\ UNCHANGED <<opens, files, session, lastError, models, lastStatus, operation, result,
                 observers>>

\* Mutant: the error of the restoration replaces that of the request.
RestoreEnd_KeepsError ==
  /\ pc = "restoreEnd"
  /\ Returns("failed")
  /\ UNCHANGED <<board, session, lastError, models, lastStatus, operation, observers>>

RestoreEnd ==
  /\ pc = "restoreEnd"
  /\ lastError' = requestError /\ Returns("failed")
  /\ UNCHANGED <<board, session, models, lastStatus, operation, observers>>

-----------------------------------------------------------------------------
(* Observers                                                               *)

\* setAppletPath and setConfigurationPath: by anyone, at any time.
SetPaths ==
  /\ \/ appletPath' \in Applets \cup {None} /\ UNCHANGED configurationPath
     \/ configurationPath' \in Configs \cup {None} /\ UNCHANGED appletPath
  /\ renamed' = TRUE /\ result' = "none"
  /\ UNCHANGED <<board, handle, generation, lastError, models, lastStatus, pc, operation,
                 observers>>

Observe ==
  /\ handle # 0
  /\ client' = [generation |-> generation, handle |-> handle]
  /\ UNCHANGED <<board, session, lastError, models, lastStatus, pc, operation, result, reader>>

\* getAppletFeatureModel, on a thread of its own: the XML of the open handle is read
\* if nothing is cached ...
ReadFeatureXml ==
  /\ reader = NoReader /\ models = 0 /\ handle # 0
  /\ reader' = [model |-> handle, step |-> "parse"]
  /\ UNCHANGED <<board, session, lastError, models, lastStatus, pc, operation, result, client>>

\* ... the nodes get their identifiers from the handle that is open by then, if any ...
EnrichModel ==
  /\ reader.step = "parse"
  /\ reader' = IF handle = 0 THEN NoReader ELSE [reader EXCEPT !.step = "store"]
  /\ UNCHANGED <<board, session, lastError, models, lastStatus, pc, operation, result, client>>

\* ... and the model is cached, whatever happened meanwhile.
StoreModel ==
  /\ reader.step = "store"
  /\ models' = reader.model /\ reader' = NoReader
  /\ UNCHANGED <<board, session, lastError, lastStatus, pc, operation, result, client>>

-----------------------------------------------------------------------------
Requests ==
  \/ \E applet \in Applets : BeginLoad(applet)
  \/ Open
  \/ \E applet \in Applets \cup {None}, config \in Configs : BeginLoadConfiguration(applet, config)
  \/ \E config \in Configs : BeginConfigure(config) \/ BeginSave(config)
  \/ BeginClose \/ BeginRefresh

Steps ==
  \/ Enumerate \/ Refused \/ Resolve \/ Capture
  \/ JoinRefused \/ Release \/ AfterRelease
  \/ InitializeBoard \/ InitConfig \/ FreeWrong \/ ConfigureFresh
  \/ Adopt \/ TellOn \/ ConfigureCurrent \/ Save
  \/ Restore \/ RestoreInit \/ RestoreConfigure \/ RestoreEnd

Next == Requests \/ Steps \/ SetPaths \/ Observe \/ ReadFeatureXml \/ EnrichModel \/ StoreModel

Spec == Init /\ [][Next]_vars

-----------------------------------------------------------------------------
(* What a session promises.                                                *)

\* The SDK never has two handles of the board open, and none is forgotten: every
\* open handle is the session's or in the hands of the operation that opened it.
OneBoardHandle == Live = {handle, fresh} \ {0} /\ (handle = 0 \/ fresh = 0)

\* README: "It runs only while this instance has no open applet": the iterator
\* query never meets an open handle, that of the failed attempt included.
EnumeratesReleased == pc \in {"enumerate", "reenumerate"} => Live = {}

\* README: "If initialization fails, the previous applet and configuration are
\* restored" and "lastError() returns the SDK code and description of the failed
\* request": after a load that got as far as releasing the old applet failed, the
\* board is released, or it was open before and has the applet that was named then.
\* The paths are the old ones, unless a setter named others in the meantime.
RestoresPrevious ==
  pc = "idle" /\ result = "failed" /\ previous # NoPrevious
    => /\ lastError = "request"
       /\ handle # 0 => previous.opened
       /\ ~renamed =>
            /\ appletPath = previous.appletPath /\ configurationPath = previous.configurationPath
            /\ handle # 0 => sdk[handle].applet = previous.appletPath

\* Once an operation has returned, what the session says of itself is so: the last
\* ConnectionStatus, and, until a setter names another, the applet path.
ObserversAgree ==
  pc = "idle" =>
    /\ lastStatus <=> handle # 0
    /\ handle # 0 /\ ~renamed => sdk[handle].applet = appletPath

\* connectionGeneration(): a client that finds the generation it saw before finds
\* the handle it saw before, however often the applet was replaced and restored.
ConnectionNamesOneOpen == handle # 0 /\ client.generation = generation => client.handle = handle

\* The session as its watchers see it: openings, releases and restorations are the
\* connections of BoardSession, numbered without a gap, and every one is notified
\* before the next change, whatever fails.
Session == INSTANCE BoardSession
             WITH applet <- IF handle = 0 THEN None ELSE sdk[handle].applet,
                  number <- generation, told <- lastStatus
SessionSpecification == Session!SessionSpec

\* README: "the previous applet and configuration are restored". It does not hold: a
\* configuration the SDK refuses is recorded as loaded.
ConfigurationRestored ==
  pc = "idle" /\ result = "failed" /\ previous.opened /\ handle # 0 /\ ~renamed
    => sdk[handle].params = configurationPath

\* The feature model in the cache is that of the open handle. It does not hold: a
\* reader that began before the applet was released stores its model after.
CachedModelIsCurrent == pc = "idle" => models \in {0, handle}
=============================================================================
