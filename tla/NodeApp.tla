------------------------------ MODULE NodeApp ------------------------------
(***************************************************************************)
(* The Node application (src/internal/nodeui): the local configuration in  *)
(* memory and on disk, the Node runtime it starts, stops and starts again, *)
(* and the Browser component installed below the data directory            *)
(* (src/internal/componentmgr).                                            *)
(*                                                                         *)
(* The requests of the local page run concurrently; the lock of the        *)
(* application is held for single reads and writes only.  Of a             *)
(* configuration the model keeps the directory of the Browser component    *)
(* (the version installed there, 0 for none), one setting the runtime is   *)
(* started with (the machine name) and one it is not (the project).        *)
(***************************************************************************)
EXTENDS Naturals, FiniteSets

CONSTANTS
    Pages,          \* the pages of the local user interface
    UIOps,          \* "config", "working", "connect", "ensure": requests in use
    MaxVersions,    \* bound: releases of the component
    MaxRuntimes,    \* bound: runtimes started
    MaxUIOps,       \* bound: requests
    AppFaults       \* "fail", "slow", "save", "exit": what else may happen

ASSUME AppAssumption ==
    /\ MaxVersions \in Nat \ {0} /\ MaxRuntimes \in Nat \ {0} /\ MaxUIOps \in Nat
    /\ UIOps \subseteq {"config", "working", "connect", "ensure"}
    /\ AppFaults \subseteq {"fail", "slow", "save", "exit"}

VARIABLES
    uiConfig,       \* App.config
    savedConfig,    \* config.json
    runtimes,       \* every runtime begun: its configuration and how it is
    runtimeCur,     \* runtimeCancel and runtimeDone: the current one, or 0
    restartAfter,   \* runtimeRestartAfter
    delayed,        \* goroutines that start a runtime after another one ended
    uiop,           \* the request each page has made
    hubRelease,     \* the newest release of the component
    installed,      \* the versions below components/browser
    compLock,       \* who holds the lock of the component
    appAlive,       \* the context of the application
    failed,         \* the last runtime ended by itself (history)
    uiCount         \* requests made

appVars == <<uiConfig, savedConfig, runtimes, runtimeCur, restartAfter, delayed, uiop,
             hubRelease, installed, compLock, appAlive, failed, uiCount>>
configVars == <<uiConfig, savedConfig>>
runVars0 == <<runtimes, runtimeCur, restartAfter, delayed, failed>>
componentVars == <<hubRelease, installed, compLock>>

RIds == 1 .. MaxRuntimes
LocalConfig == [dir : 0 .. MaxVersions, name : 0 .. 1, work : 0 .. 1]
NoConfig == [dir |-> 0, name |-> 0, work |-> 0]
NoRuntime == [cfg |-> NoConfig, st |-> "none"]
Nobody == "nobody"

\* A request: where it is, the form of the page, the configuration it read and
\* the one it will store, the runtime it waits for, and the version it installs.
NoOp == [at |-> "idle", op |-> "", page |-> NoConfig, old |-> NoConfig, next |-> NoConfig,
         done |-> 0, ver |-> 0]

AppTypeOK ==
    /\ uiConfig \in LocalConfig /\ savedConfig \in LocalConfig
    /\ runtimes \in [RIds -> [cfg : LocalConfig, st : {"none", "running", "stopping", "gone"}]]
    /\ runtimeCur \in 0 .. MaxRuntimes /\ restartAfter \in 0 .. MaxRuntimes
    /\ delayed \subseteq [id : RIds, at : {"wait", "start"}]
    /\ uiop \in [Pages -> [at : {"idle", "form", "fetch", "configure", "save", "set", "restart", "wait",
                                 "late", "start", "cleanup"},
                           op : {"", "config", "working", "connect", "ensure"}, page : LocalConfig,
                           old : LocalConfig, next : LocalConfig, done : 0 .. MaxRuntimes,
                           ver : 0 .. MaxVersions]]
    /\ hubRelease \in 1 .. MaxVersions /\ installed \subseteq 1 .. MaxVersions
    /\ compLock \in Pages \cup {Nobody}
    /\ appAlive \in BOOLEAN /\ failed \in BOOLEAN /\ uiCount \in 0 .. MaxUIOps

\* A registered Node whose runtime has been started.
AppInit ==
    /\ uiConfig = NoConfig /\ savedConfig = NoConfig
    /\ runtimes = [i \in RIds |-> IF i = 1 THEN [cfg |-> NoConfig, st |-> "running"] ELSE NoRuntime]
    /\ runtimeCur = 1 /\ restartAfter = 0 /\ delayed = {}
    /\ uiop = [p \in Pages |-> NoOp]
    /\ hubRelease = 1 /\ installed = {} /\ compLock = Nobody
    /\ appAlive = TRUE /\ failed = FALSE /\ uiCount = 0

----------------------------------------------------------------------------
\* The requests, up to the moment they store a configuration.

Goes1(p, op) == uiop' = [uiop EXCEPT ![p] = op]
To1(p, at) == Goes1(p, [uiop[p] EXCEPT !.at = at])

NewRequest(p, op) ==
    /\ uiop[p].at \in {"idle", "form"} /\ op \in UIOps
    /\ appAlive /\ uiCount < MaxUIOps
    /\ uiCount' = uiCount + 1

\* The page shows the configuration; its form sends it back later.
HandleStatus(p) ==
    /\ uiop[p].at = "idle" /\ "config" \in UIOps /\ appAlive /\ uiCount < MaxUIOps
    /\ Goes1(p, [NoOp EXCEPT !.at = "form", !.page = uiConfig])
    /\ UNCHANGED <<configVars, runVars0, componentVars, appAlive, uiCount>>

\* handleConfig: the form with a new machine name, and the project of the
\* configuration as it is now.
HandleConfig(p) ==
    /\ uiop[p].at = "form" /\ NewRequest(p, "config")
    /\ Goes1(p, [uiop[p] EXCEPT !.at = "save", !.op = "config", !.old = uiConfig,
                    !.next = [uiop[p].page EXCEPT !.name = 1 - @, !.work = uiConfig.work]])
    /\ UNCHANGED <<configVars, runVars0, componentVars, appAlive>>

\* bindWorkingProject
BindWorkingProject(p) ==
    /\ uiop[p].at = "idle" /\ NewRequest(p, "working")
    /\ Goes1(p, [NoOp EXCEPT !.at = "save", !.op = "working", !.old = uiConfig,
                    !.next = [uiConfig EXCEPT !.work = 1]])
    /\ UNCHANGED <<configVars, runVars0, componentVars, appAlive>>

\* handleConnect changes the configuration in place, before it is saved.
HandleConnect(p) ==
    /\ uiop[p].at = "idle" /\ NewRequest(p, "connect")
    /\ uiConfig' = [uiConfig EXCEPT !.name = 1 - @]
    /\ Goes1(p, [NoOp EXCEPT !.at = "save", !.op = "connect", !.old = uiConfig, !.next = uiConfig'])
    /\ UNCHANGED <<savedConfig, runVars0, componentVars, appAlive>>

ComponentFree == compLock = Nobody

\* Ensure, under the lock of the component: the newest release ...
Ensure(p) ==
    /\ uiop[p].at = "idle" /\ NewRequest(p, "ensure")
    /\ ComponentFree /\ compLock' = p
    /\ Goes1(p, [NoOp EXCEPT !.at = "fetch", !.op = "ensure", !.ver = hubRelease])
    /\ UNCHANGED <<configVars, runVars0, hubRelease, installed, appAlive>>

\* ... is downloaded and published, or it is there already.
PublishComponent(p) ==
    /\ uiop[p].at = "fetch"
    /\ installed' = installed \cup {uiop[p].ver}
    /\ compLock' = Nobody
    /\ To1(p, "configure")
    /\ UNCHANGED <<configVars, runVars0, hubRelease, appAlive, uiCount>>

EnsureFails(p) ==
    /\ uiop[p].at = "fetch" /\ compLock' = Nobody /\ Goes1(p, NoOp)
    /\ UNCHANGED <<configVars, runVars0, hubRelease, installed, appAlive, uiCount>>

\* configureInstalledComponent on the configuration of this moment.
ConfigureInstalledComponent(p) ==
    /\ uiop[p].at = "configure"
    /\ Goes1(p, [uiop[p] EXCEPT
           !.at = IF uiConfig.dir = uiop[p].ver THEN "cleanup" ELSE "save",
           !.old = uiConfig, !.next = [uiConfig EXCEPT !.dir = uiop[p].ver]])
    /\ UNCHANGED <<configVars, runVars0, componentVars, appAlive, uiCount>>

\* CleanupInstalled: every other version goes.
CleanupInstalled(p) ==
    /\ uiop[p].at = "cleanup" /\ ComponentFree
    /\ installed' = installed \cap {uiop[p].ver}
    /\ Goes1(p, NoOp)
    /\ UNCHANGED <<configVars, runVars0, hubRelease, compLock, appAlive, uiCount>>

----------------------------------------------------------------------------
\* Storing a configuration, and what follows.

SaveLocalConfig(p) ==
    /\ uiop[p].at = "save"
    /\ \/ /\ savedConfig' = uiop[p].next
          /\ To1(p, IF uiop[p].op = "connect" THEN "restart" ELSE "set")
       \/ /\ "save" \in AppFaults /\ Goes1(p, NoOp) /\ UNCHANGED savedConfig
    /\ UNCHANGED <<uiConfig, runVars0, componentVars, appAlive, uiCount>>

\* handleConfig compares what it read with what it stored.
SetConfig(p) ==
    /\ uiop[p].at = "set"
    /\ uiConfig' = uiop[p].next
    /\ LET o == uiop[p] IN
       CASE o.op = "ensure" -> To1(p, "restart")
         [] o.op = "config" /\ <<o.old.dir, o.old.name>> # <<o.next.dir, o.next.name>> -> To1(p, "restart")
         [] OTHER -> Goes1(p, NoOp)
    /\ UNCHANGED <<savedConfig, runVars0, componentVars, appAlive, uiCount>>

----------------------------------------------------------------------------
\* The runtime.

Live == {i \in RIds : runtimes[i].st \in {"running", "stopping"}}

\* A request is answered, or goes on with the cleanup of its component.
AfterRestart(p) ==
    IF uiop[p].op = "ensure" THEN To1(p, "cleanup") ELSE Goes1(p, NoOp)

\* stopRuntimeWithin: the current runtime is cancelled and waited for.
StopRuntime(p) ==
    /\ uiop[p].at = "restart"
    /\ IF runtimeCur = 0
       THEN To1(p, "start") /\ UNCHANGED runtimes
       ELSE /\ runtimes' = [runtimes EXCEPT ![runtimeCur].st = IF @ = "running" THEN "stopping" ELSE @]
            /\ Goes1(p, [uiop[p] EXCEPT !.at = "wait", !.done = runtimeCur])
    /\ UNCHANGED <<configVars, runtimeCur, restartAfter, delayed, failed, componentVars, appAlive, uiCount>>

WaitStopped(p) ==
    /\ uiop[p].at = "wait"
    /\ \/ uiop[p].done \notin Live /\ To1(p, "start")
       \/ "slow" \in AppFaults /\ uiop[p].done \in Live /\ To1(p, "late")
    /\ UNCHANGED <<configVars, runVars0, componentVars, appAlive, uiCount>>

\* The number of the next runtime.
NextRuntime(i) == runtimes[i].st = "none" /\ \A j \in RIds : j < i => runtimes[j].st # "none"

\* startRuntime, with the configuration of this moment.
StartsAnother ==
    \E i \in RIds :
        /\ NextRuntime(i)
        /\ runtimes' = [runtimes EXCEPT ![i] = [cfg |-> uiConfig, st |-> "running"]]
        /\ runtimeCur' = i /\ failed' = FALSE

\* Nothing while a runtime is current or the application ends.
StartsRuntime ==
    IF runtimeCur # 0 \/ ~appAlive
    THEN UNCHANGED <<runtimes, runtimeCur, failed>>
    ELSE StartsAnother

StartRuntime(p) ==
    /\ uiop[p].at = "start" /\ StartsRuntime
    /\ AfterRestart(p)
    /\ UNCHANGED <<configVars, restartAfter, delayed, componentVars, appAlive, uiCount>>

\* Without the goroutine, for comparison.
RestartGivenUp(p) ==
    /\ uiop[p].at = "late"
    /\ IF runtimeCur = 0 THEN To1(p, "start") ELSE AfterRestart(p)
    /\ UNCHANGED <<configVars, runVars0, componentVars, appAlive, uiCount>>

\* restartRuntimeWithin after the timeout: one goroutine waits for the end of
\* the runtime that is current now.
RestartLater(p) ==
    /\ uiop[p].at = "late"
    /\ \/ /\ runtimeCur = 0 /\ To1(p, "start")
          /\ UNCHANGED <<restartAfter, delayed>>
       \/ /\ runtimeCur # 0 /\ restartAfter = runtimeCur
          /\ AfterRestart(p)
          /\ UNCHANGED <<restartAfter, delayed>>
       \/ /\ runtimeCur # 0 /\ restartAfter # runtimeCur
          /\ restartAfter' = runtimeCur
          /\ delayed' = delayed \cup {[id |-> runtimeCur, at |-> "wait"]}
          /\ AfterRestart(p)
    /\ UNCHANGED <<configVars, runtimes, runtimeCur, failed, componentVars, appAlive, uiCount>>

DelayedWakes(d) ==
    /\ d \in delayed /\ d.at = "wait" /\ d.id \notin Live
    /\ IF restartAfter = d.id
       THEN restartAfter' = 0 /\ delayed' = (delayed \ {d}) \cup {[d EXCEPT !.at = "start"]}
       ELSE delayed' = delayed \ {d} /\ UNCHANGED restartAfter
    /\ UNCHANGED <<configVars, runtimes, runtimeCur, failed, uiop, componentVars, appAlive, uiCount>>

DelayedStarts(d) ==
    /\ d \in delayed /\ d.at = "start" /\ StartsRuntime
    /\ delayed' = delayed \ {d}
    /\ UNCHANGED <<configVars, restartAfter, uiop, componentVars, appAlive, uiCount>>

\* clearRuntime: a cancelled runtime ends, or one ends with an error.
ClearRuntime(i) ==
    /\ runtimes[i].st = "stopping" \/ (runtimes[i].st = "running" /\ "fail" \in AppFaults)
    /\ runtimes' = [runtimes EXCEPT ![i].st = "gone"]
    /\ runtimeCur' = IF runtimeCur = i THEN 0 ELSE runtimeCur
    /\ failed' = (failed \/ runtimes[i].st = "running")
    /\ UNCHANGED <<configVars, restartAfter, delayed, uiop, componentVars, appAlive, uiCount>>

----------------------------------------------------------------------------
\* The application ends and is started again; the Hub publishes a release.

\* handleExit: the context of the application is the parent of the runtime's.
HandleExit ==
    /\ "exit" \in AppFaults /\ appAlive
    /\ appAlive' = FALSE
    /\ runtimes' = [i \in RIds |-> IF runtimes[i].st = "running" THEN [runtimes[i] EXCEPT !.st = "stopping"]
                                   ELSE runtimes[i]]
    /\ UNCHANGED <<configVars, runtimeCur, restartAfter, delayed, failed, uiop, componentVars, uiCount>>

CleanupConfigured == IF savedConfig.dir \in installed THEN {savedConfig.dir} ELSE installed

\* The process is gone; Run loads the configuration, removes the versions that
\* are not configured (CleanupConfigured) and starts a runtime.
Run ==
    /\ ~appAlive /\ appAlive' = TRUE /\ uiConfig' = savedConfig
    /\ installed' = CleanupConfigured
    /\ compLock' = Nobody /\ uiop' = [p \in Pages |-> NoOp]
    /\ restartAfter' = 0 /\ delayed' = {} /\ failed' = FALSE
    /\ \E new \in RIds :
          /\ NextRuntime(new)
          /\ runtimes' = [i \in RIds |->
                 IF i = new THEN [cfg |-> savedConfig, st |-> "running"]
                 ELSE IF i \in Live THEN [runtimes[i] EXCEPT !.st = "gone"]
                 ELSE runtimes[i]]
          /\ runtimeCur' = new
    /\ UNCHANGED <<savedConfig, hubRelease, uiCount>>

PublishRelease ==
    /\ hubRelease < MaxVersions /\ "ensure" \in UIOps
    /\ hubRelease' = hubRelease + 1
    /\ UNCHANGED <<configVars, runVars0, uiop, installed, compLock, appAlive, uiCount>>

PageStep(p) ==
    \/ HandleStatus(p) \/ HandleConfig(p) \/ BindWorkingProject(p) \/ HandleConnect(p)
    \/ Ensure(p) \/ PublishComponent(p) \/ EnsureFails(p)
    \/ ConfigureInstalledComponent(p) \/ CleanupInstalled(p)
    \/ SaveLocalConfig(p) \/ SetConfig(p)
    \/ StopRuntime(p) \/ WaitStopped(p) \/ StartRuntime(p) \/ RestartLater(p)

AppNext ==
    \/ \E p \in Pages : PageStep(p)
    \/ \E d \in delayed : DelayedWakes(d) \/ DelayedStarts(d)
    \/ \E i \in RIds : ClearRuntime(i)
    \/ HandleExit \/ Run \/ PublishRelease

AppSpec == AppInit /\ [][AppNext]_appVars

----------------------------------------------------------------------------
\* Correctness.

AppAtRest == \A p \in Pages : uiop[p].at \in {"idle", "form"}

\* Two runtimes never run at a time, whoever restarts it and however long the
\* old one takes to stop (startRuntime, restartRuntimeWithin).
OneRuntime == appAlive => Cardinality(Live) <= 1

\* No restart is lost: when the requests have been answered and nobody waits to
\* start a runtime, one is running, unless it ended by itself.
RuntimeComesBack ==
    AppAtRest /\ delayed = {} /\ appAlive /\ ~failed =>
        \E i \in Live : runtimes[i].st = "running"

\* ... and it runs with the configuration the application shows.
RuntimeIsCurrent ==
    AppAtRest /\ delayed = {} /\ appAlive =>
        \A i \in Live : /\ runtimes[i].cfg.dir = uiConfig.dir
                        /\ runtimes[i].cfg.name = uiConfig.name

\* The component the configuration names is there when the requests are over.
ConfiguredIsInstalled == AppAtRest => uiConfig.dir \in installed \cup {0}

\* What the application shows is what it will start with.
SavedIsShown == AppAtRest => savedConfig = uiConfig

\* Of the application: one runtime at a time, and no restart is lost.
RuntimeIsKept == OneRuntime /\ RuntimeComesBack
=============================================================================
