----------------------------- MODULE NodeUpdate -----------------------------
(***************************************************************************)
(* How a Node replaces its own executable: the release of the Hub is       *)
(* staged below updates/ with a marker, a helper started from the staged   *)
(* file waits for the application to end, swaps the executable and starts  *)
(* it, and the next application consumes the marker                        *)
(* (src/internal/nodeupdate, src/internal/nodeui/update.go).               *)
(*                                                                         *)
(* A version is a number; a staged file is there only after its hash and   *)
(* size were checked.  The swap is the one of Windows, which tries again   *)
(* for ten seconds when the executable is in use.                          *)
(***************************************************************************)
EXTENDS Naturals, FiniteSets

CONSTANTS
    MaxVersion,     \* bound: releases of the Node
    Helpers,        \* bound: helpers begun
    MaxApps,        \* bound: applications begun
    UpdateFaults    \* what may go wrong, in a comment below

\*   "net"      a check or a download fails
\*   "copy"     the helper does not copy itself
\*   "hang"     the old application is not seen to end within the minute
\*   "locked"   a file is in use: it is not removed, renamed or replaced
\*   "launch"   the new executable does not start
\*   "relaunch" what is started after that does not start either
\*   "crash"    a helper is killed
\*   "twice"    a second helper is asked for while one is at work
AllUpdateFaults == {"net", "copy", "hang", "locked", "launch", "relaunch", "crash", "twice"}

ASSUME UpdateAssumption ==
    /\ MaxVersion \in Nat \ {0} /\ Helpers \in Nat /\ MaxApps \in Nat \ {0}
    /\ UpdateFaults \subseteq AllUpdateFaults

VARIABLES
    exe,        \* the files target, target.new and target.previous
    staged,     \* the versions below updates/ with a verified executable
    ready,      \* updates/ready.json: the version it names, or 0
    napp,       \* the application
    helpers,    \* the helpers
    release     \* the newest release of the Hub

updVars == <<exe, staged, ready, napp, helpers, release>>

Versions == 0 .. MaxVersion
HIds == 1 .. Helpers
NoApp == [at |-> "none", id |-> 0, ver |-> 0, upd |-> "idle", want |-> 0, artifact |-> 0]
NoHelper == [at |-> "none", ver |-> 0, pid |-> 0]
Over == {"none", "done", "failed", "torn"}

UpdateTypeOK ==
    /\ exe \in [target : Versions, new : Versions, previous : Versions]
    /\ staged \subseteq Versions /\ ready \in Versions /\ release \in Versions
    /\ napp \in [at : {"none", "ready", "consumed", "stale", "up", "leaving"}, id : 0 .. MaxApps,
                 ver : Versions, upd : {"idle", "check", "clean", "fetch", "mark", "install"},
                 want : Versions, artifact : Versions]
    /\ helpers \in [HIds -> [at : {"none", "copy", "wait", "clear", "move", "publish", "start", "back",
                                "restore", "again"} \cup Over,
                             ver : Versions, pid : 0 .. MaxApps]]

\* The first application begins, after an earlier one may have staged a release.
UpdateInit ==
    /\ exe = [target |-> 1, new |-> 0, previous |-> 0]
    /\ \/ staged = {} /\ ready = 0 /\ release = 1
       \/ MaxVersion > 1 /\ staged = {2} /\ ready = 2 /\ release = 2
    /\ napp = [NoApp EXCEPT !.at = "ready", !.id = 1, !.ver = 1]
    /\ helpers = [h \in HIds |-> NoHelper]

----------------------------------------------------------------------------
\* Applications.

\* Every application has a number of its own: the process id a helper waits for.
BeginsApp(v) ==
    IF napp.at = "none" /\ v # 0 /\ napp.id < MaxApps
    THEN napp' = [NoApp EXCEPT !.at = "ready", !.id = napp.id + 1, !.ver = v]
    ELSE UNCHANGED napp

\* The user starts what is installed, beside a helper too.
UserStarts ==
    /\ napp.at = "none" /\ exe.target # 0 /\ napp.id < MaxApps
    /\ BeginsApp(exe.target)
    /\ UNCHANGED <<exe, staged, ready, helpers, release>>

\* StartApply.
NewHelper(v, pid) ==
    /\ "twice" \in UpdateFaults \/ \A g \in HIds : helpers[g].at \in Over
    /\ \E h \in HIds :
        /\ helpers[h].at = "none" /\ \A g \in HIds : g < h => helpers[g].at # "none"
        /\ helpers' = [helpers EXCEPT ![h] = [at |-> "copy", ver |-> v, pid |-> pid]]

\* Ready: a marker of this version or an older one is consumed; a newer one is
\* used when its file is there as it was checked.
Consumed == ready # 0 /\ ready <= napp.ver
NewerStaged == ready > napp.ver /\ ready \in staged

\* Mutant: the application leaves, although the helper was not started.
LeaveAnyway ==
    /\ napp.at = "ready"
    /\ \/ NewerStaged /\ napp' = [napp EXCEPT !.at = "leaving"]
       \/ napp' = [napp EXCEPT !.at = "consumed"]
    /\ UNCHANGED <<exe, staged, ready, helpers, release>>

\* applyReadyUpdateOnStartup: the helper is started and the application ends.  It
\* goes on, the marker as it is, without a newer release, when updates are off or
\* when StartApply fails.
ApplyReadyUpdate ==
    /\ napp.at = "ready"
    /\ \/ Consumed /\ ready' = 0 /\ napp' = [napp EXCEPT !.at = "consumed"] /\ UNCHANGED helpers
       \/ /\ NewerStaged /\ NewHelper(ready, napp.id)
          /\ napp' = [napp EXCEPT !.at = "leaving"] /\ UNCHANGED ready
       \/ napp' = [napp EXCEPT !.at = "consumed"] /\ UNCHANGED <<ready, helpers>>
    /\ UNCHANGED <<exe, staged, release>>

CleanupConsumedCurrent ==
    /\ napp.at = "consumed"
    /\ staged' = IF ready = 0 THEN staged \ {napp.ver} ELSE staged
    /\ napp' = [napp EXCEPT !.at = "stale"]
    /\ UNCHANGED <<exe, ready, helpers, release>>

CleanupStale ==
    /\ napp.at = "stale"
    /\ staged' = {v \in staged : v >= napp.ver}
    /\ napp' = [napp EXCEPT !.at = "up"]
    /\ UNCHANGED <<exe, ready, helpers, release>>

\* refreshUpdate, one at a time; want is 1 for a request to install.
RefreshUpdate(install) ==
    /\ napp.at = "up" /\ napp.upd = "idle"
    /\ napp' = [napp EXCEPT !.upd = "check", !.want = IF install THEN 1 ELSE 0]
    /\ UNCHANGED <<exe, staged, ready, helpers, release>>

\* The timer of the application; a round that finds no release changes nothing.
AutoUpdateLoop == release > napp.ver /\ RefreshUpdate(FALSE)

UpdateFails ==
    /\ "net" \in UpdateFaults /\ napp.upd \in {"check", "fetch"} /\ napp.at = "up"
    /\ napp' = [napp EXCEPT !.upd = "idle", !.want = 0]
    /\ UNCHANGED <<exe, staged, ready, helpers, release>>

\* The signed manifest names the newest release.
Check ==
    /\ napp.upd = "check" /\ napp.at = "up"
    /\ IF release > napp.ver
       THEN napp' = [napp EXCEPT !.upd = "clean"]
       ELSE napp' = [napp EXCEPT !.upd = "idle", !.want = 0]
    /\ UNCHANGED <<exe, staged, ready, helpers, release>>

\* Stage: the other versions go first, those a helper runs from stay.
CleanupStagedVersions ==
    /\ napp.upd = "clean" /\ napp.at = "up"
    /\ staged' = {v \in staged : v \in {napp.ver, release}}
    /\ napp' = [napp EXCEPT !.upd = "fetch", !.artifact = release]
    /\ UNCHANGED <<exe, ready, helpers, release>>

\* The file is put in place after its hash and size are right.
DownloadVerified ==
    /\ napp.upd = "fetch" /\ napp.at = "up"
    /\ staged' = staged \cup {napp.artifact}
    /\ napp' = [napp EXCEPT !.upd = "mark"]
    /\ UNCHANGED <<exe, ready, helpers, release>>

\* Then the marker is written.
Stage ==
    /\ napp.upd = "mark" /\ napp.at = "up"
    /\ ready' = napp.artifact
    /\ napp' = [napp EXCEPT !.upd = IF napp.want = 1 THEN "install" ELSE "idle", !.want = 0]
    /\ UNCHANGED <<exe, staged, helpers, release>>

\* handleUpdateInstall: the helper is started and the application told to end a
\* moment later; a second request can come in between.  StartApply may fail.
HandleUpdateInstall ==
    /\ napp.upd = "install" /\ napp.at = "up"
    /\ \/ /\ NewHelper(napp.artifact, napp.id)
          /\ napp' = [napp EXCEPT !.upd = "idle", !.at = IF "twice" \in UpdateFaults THEN @ ELSE "leaving"]
       \/ napp' = [napp EXCEPT !.upd = "idle"] /\ UNCHANGED helpers
    /\ UNCHANGED <<exe, staged, ready, release>>

\* An application whose helper was started ends.
AppEnds ==
    /\ \/ napp.at = "leaving"
       \/ napp.at = "up" /\ \E h \in HIds : helpers[h].at # "none" /\ helpers[h].pid = napp.id
    /\ napp' = [NoApp EXCEPT !.id = napp.id]
    /\ UNCHANGED <<exe, staged, ready, helpers, release>>

PublishNode ==
    /\ release < MaxVersion /\ release' = release + 1
    /\ UNCHANGED <<exe, staged, ready, napp, helpers>>

----------------------------------------------------------------------------
\* ApplyHelper

HGoes(h, at) == helpers' = [helpers EXCEPT ![h].at = at]
HEnds(h) == helpers' = [helpers EXCEPT ![h] = [NoHelper EXCEPT !.at = "done"]]
\* It ends and has started nothing; whose helper it was is remembered.
HFails(h, at) == helpers' = [helpers EXCEPT ![h].at = at, ![h].ver = 0]
Frame0 == UNCHANGED <<staged, ready, release>>

\* The helper copies itself next to the target, after what was there is removed; a
\* copy that fails is removed, or what was there is still in its way.
CopyFile(h) ==
    /\ helpers[h].at = "copy"
    /\ \/ exe' = [exe EXCEPT !.new = helpers[h].ver] /\ HGoes(h, "wait")
       \/ /\ "copy" \in UpdateFaults /\ exe' \in {exe, [exe EXCEPT !.new = 0]}
          /\ HFails(h, "failed")
    /\ UNCHANGED napp /\ Frame0

\* After a minute it gives up.
WaitForProcessExit(h) ==
    LET ended == napp.at = "none" \/ napp.id # helpers[h].pid IN
    /\ helpers[h].at = "wait"
    /\ \/ ended /\ HGoes(h, "clear") /\ UNCHANGED exe
       \/ /\ "hang" \in UpdateFaults /\ ~ended
          /\ exe' = [exe EXCEPT !.new = 0] /\ HFails(h, "failed")
    /\ UNCHANGED napp /\ Frame0

ClearPrevious(h) ==
    /\ helpers[h].at = "clear"
    /\ \/ exe' = [exe EXCEPT !.previous = 0]
       \/ "locked" \in UpdateFaults /\ UNCHANGED exe
    /\ HGoes(h, "move")
    /\ UNCHANGED napp /\ Frame0

\* The target becomes the previous one; an executable in use is tried again, after
\* the previous one is removed once more, until the deadline.
MoveTarget(h) ==
    /\ helpers[h].at = "move"
    /\ \/ /\ exe.target # 0
          /\ exe' = [exe EXCEPT !.previous = exe.target, !.target = 0]
          /\ HGoes(h, "publish")
       \/ /\ "locked" \in UpdateFaults
          /\ exe' = [exe EXCEPT !.previous = 0] /\ UNCHANGED helpers
       \/ /\ "locked" \in UpdateFaults \/ exe.target = 0
          /\ exe' = [exe EXCEPT !.new = 0] /\ HFails(h, "failed")
    /\ UNCHANGED napp /\ Frame0

\* The previous one takes the place of the target, if it is there; its error is
\* ignored.
Restored == IF exe.previous = 0 THEN exe ELSE [exe EXCEPT !.target = exe.previous, !.previous = 0]

\* The copy becomes the target, or the previous one comes back.
PublishTarget(h) ==
    /\ helpers[h].at = "publish"
    /\ \/ /\ exe.new # 0
          /\ exe' = [exe EXCEPT !.target = exe.new, !.new = 0] /\ HGoes(h, "start")
       \/ /\ exe.new = 0 \/ "locked" \in UpdateFaults
          /\ exe' = Restored /\ HFails(h, "failed")
       \/ "locked" \in UpdateFaults /\ HFails(h, "torn") /\ UNCHANGED exe
    /\ UNCHANGED napp /\ Frame0

StartUpdated(h) ==
    /\ helpers[h].at = "start"
    /\ \/ exe.target # 0 /\ BeginsApp(exe.target) /\ HEnds(h)
       \/ /\ exe.target = 0 \/ "launch" \in UpdateFaults
          /\ HGoes(h, "back") /\ UNCHANGED napp
    /\ UNCHANGED exe /\ Frame0

\* The way back after a launch that failed: the new executable is removed, the
\* previous one takes its place and is started.  Every error is ignored.
RemoveTarget(h) ==
    /\ helpers[h].at = "back"
    /\ \/ exe' = [exe EXCEPT !.target = 0]
       \/ "locked" \in UpdateFaults /\ UNCHANGED exe
    /\ HGoes(h, "restore")
    /\ UNCHANGED napp /\ Frame0

\* Mutant: the previous one does not come back.
RestoreNothing(h) ==
    /\ helpers[h].at = "restore"
    /\ HGoes(h, "again")
    /\ UNCHANGED <<exe, napp>> /\ Frame0

\* A helper that brings nothing back ends when it starts what is not there.
RestoreTarget(h) ==
    /\ helpers[h].at = "restore"
    /\ \/ exe' = Restored /\ HGoes(h, "again")
       \/ /\ "locked" \in UpdateFaults /\ UNCHANGED exe
          /\ IF exe.target = 0 THEN HFails(h, "torn") ELSE HGoes(h, "again")
    /\ UNCHANGED napp /\ Frame0

StartRestored(h) ==
    /\ helpers[h].at = "again"
    /\ \/ BeginsApp(exe.target) /\ HEnds(h)
       \/ "relaunch" \in UpdateFaults /\ HFails(h, "failed") /\ UNCHANGED napp
    /\ UNCHANGED exe /\ Frame0

\* A helper is killed, with the target gone ("torn") or elsewhere.
HelperCrashes(h) ==
    /\ "crash" \in UpdateFaults /\ helpers[h].at \notin Over
    /\ HFails(h, IF helpers[h].at \in {"publish", "restore"} THEN "torn" ELSE "failed")
    /\ UNCHANGED <<exe, napp>> /\ Frame0

HelperStep(h) ==
    \/ CopyFile(h) \/ WaitForProcessExit(h) \/ ClearPrevious(h) \/ MoveTarget(h)
    \/ PublishTarget(h) \/ StartUpdated(h)
    \/ RemoveTarget(h) \/ RestoreTarget(h) \/ StartRestored(h)

AppStep ==
    \/ ApplyReadyUpdate \/ CleanupConsumedCurrent \/ CleanupStale
    \/ Check \/ CleanupStagedVersions \/ DownloadVerified \/ Stage
    \/ HandleUpdateInstall \/ AppEnds

UpdateNext ==
    \/ AppStep \/ UpdateFails \/ UserStarts \/ PublishNode
    \/ RefreshUpdate(TRUE) \/ AutoUpdateLoop
    \/ \E h \in HIds : HelperStep(h) \/ HelperCrashes(h)

\* A process that can go on does; the user, the Hub and the timer need not.
UpdateFairness == WF_updVars(AppStep) /\ \A h \in HIds : WF_updVars(HelperStep(h))

UpdateSpec == UpdateInit /\ [][UpdateNext]_updVars /\ UpdateFairness

----------------------------------------------------------------------------
\* Correctness.

\* The executable is there whenever no helper is between two steps that take it
\* away and put another one in its place, or was stopped there: killed, or by a
\* file in use (ApplyHelper).  A copy that fails, an old application that does
\* not end and a new one that does not start leave one.
TargetIsThere ==
    exe.target = 0 => \E h \in HIds : helpers[h].at \in {"publish", "restore", "torn"}

\* An application that ended for an update is followed by one that comes up,
\* unless the helper of the latest one was killed or ended with an error: what is
\* started at the end is the new executable, or the previous one when that does
\* not start.
NodeComesBack ==
    (napp.at = "leaving") ~>
        \/ napp.at = "up"
        \/ \E h \in HIds : helpers[h].pid = napp.id /\ helpers[h].at \in {"failed", "torn"}

=============================================================================
