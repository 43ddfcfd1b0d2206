------------------------------ MODULE JobManager ------------------------------
(***************************************************************************)
(* The Node's JobManager (src/internal/node/jobs.go, jobs_persistence.go): *)
(* idempotent starts of shell processes, the goroutine that supervises     *)
(* each process, the ledger jobs/records.json, recovery after a restart of *)
(* the Node, cancellation, retention and shutdown.                         *)
(*                                                                         *)
(* A job is named by its id; ids are drawn in the order in which the       *)
(* "starting" records are written, so that m.order is the order of the     *)
(* ids.  The idempotency key and the specification hash of a job never     *)
(* change and are kept once (keyOf, specOf) for the in-memory Job and for  *)
(* its persisted record.  m.mu is the variable `lock': a step that needs   *)
(* it waits until it is free, and the one critical section that talks to   *)
(* the operating system (write "starting", cmd.Start, record) is several   *)
(* steps long.                                                             *)
(***************************************************************************)
EXTENDS Integers, FiniteSets

CONSTANTS
    Keys,               \* idempotency keys
    Specs,              \* specification hashes
    Callers,            \* goroutines that execute StartExecution
    None,               \* no caller, key or specification
    MaxJobs,            \* bound: number of job ids drawn
    MaxConcurrentJobs,  \* maxConcurrentJobs, jobs.go:23
    MaxRetainedJobs,    \* maxRetainedJobs, jobs.go:24
    MaxRestarts,        \* bound: number of ends of the Node process
    Faults              \* which of "write" and "read" of the ledger may fail

ASSUME NoneAssumption == None \notin Callers \cup Keys \cup Specs
ASSUME BoundsAssumption == /\ MaxJobs \in Nat
                           /\ MaxRestarts \in Nat
                           /\ MaxConcurrentJobs \in Nat \ {0}
                           /\ MaxRetainedJobs \in Nat \ {0}
ASSUME FaultsAssumption == Faults \subseteq {"write", "read"}

Jobs == 1..MaxJobs

Terminal == {"completed", "failed", "canceled", "expired", "interrupted"}
States == {"running", "unknown"} \cup Terminal

VARIABLES
    up,        \* the Node process: "down", "restoring", "up"
    closed,    \* m.closed
    storeErr,  \* m.storeErr # nil
    lock,      \* holder of m.mu across steps
    sem,       \* len(m.semaphore)
    shutdown,  \* CancelAll: "no", "waiting", "done", "failed"
    shutJobs,  \* the jobs CancelAll found when it closed the manager
    state,     \* m.jobs[j].state, "none" when m.jobs has no j
    stop,      \* the value buffered in job.stop, "" when empty
    reason,    \* job.stopReason
    recov,     \* job.recovery: how much of the process identity is known
    runner,    \* the runJob goroutine
    idem,      \* m.idempotency: the job id of a key, 0 when absent
    starting,  \* m.starting: the caller that holds the reservation of a key
    pc,        \* where a caller is in StartExecution
    ckey,      \* its idempotencyKey
    cspec,     \* its specHash
    cjob,      \* the job it creates, and then the job it returns, or 0
    watch,     \* the job whose terminal snapshot Watch is about to return
    dstate,    \* jobs/records.json: State of the record, "none" without one
    dident,    \* and what its PID, ProcessPath and ProcessBirth identify
    proc,      \* the operating-system process of a job
    keyOf,     \* idempotency key of a job id
    specOf,    \* specification hash of a job id
    lastId,    \* ids drawn so far
    restarts,  \* ends of the Node process so far
    evicted,   \* history: jobs removed by retention
    reported   \* history: the terminal state that Watch returned

closeVars == <<closed, shutdown, shutJobs>>
nodeVars  == <<up, closeVars, storeErr, lock, sem>>
jobVars   == <<state, stop, reason, recov, runner>>
indexVars == <<idem, starting>>
callVars  == <<pc, ckey, cspec, cjob>>
diskVars  == <<dstate, dident>>
idVars    == <<keyOf, specOf, lastId>>
histVars  == <<restarts, evicted, reported>>
vars == <<nodeVars, jobVars, indexVars, callVars, watch, diskVars, proc,
          idVars, histVars>>

Idents == {"none", "pid", "full"}
PCs == {"idle", "entry", "waiting", "preparing", "launching", "recording",
        "killing", "aborting", "releasing", "returned"}
Runners == {"none", "running", "reaped", "finished", "persisted"}
Reasons == {"", "user", "shutdown", "timeout"}
Procs == {"none", "running", "dying", "ok", "err"}

Alive(p) == p \in {"running", "dying"}

InMemory == {j \in Jobs : state[j] # "none"}

(***************************************************************************)
(* The callers that hold a slot of m.semaphore: from the reservation to    *)
(* the deferred release, or to the start of runJob.                        *)
(***************************************************************************)
Reserving == {"preparing", "launching", "recording", "killing", "aborting",
              "releasing"}

Init ==
    /\ up = "up" /\ closed = FALSE /\ storeErr = FALSE /\ lock = None
    /\ sem = 0 /\ shutdown = "no" /\ shutJobs = {}
    /\ state = [j \in Jobs |-> "none"]
    /\ stop = [j \in Jobs |-> ""]
    /\ reason = [j \in Jobs |-> ""]
    /\ recov = [j \in Jobs |-> "none"]
    /\ runner = [j \in Jobs |-> "none"]
    /\ idem = [k \in Keys |-> 0]
    /\ starting = [k \in Keys |-> None]
    /\ pc = [c \in Callers |-> "idle"]
    /\ ckey = [c \in Callers |-> None]
    /\ cspec = [c \in Callers |-> None]
    /\ cjob = [c \in Callers |-> 0]
    /\ watch = 0
    /\ dstate = [j \in Jobs |-> "none"]
    /\ dident = [j \in Jobs |-> "none"]
    /\ proc = [j \in Jobs |-> "none"]
    /\ keyOf = [j \in Jobs |-> None]
    /\ specOf = [j \in Jobs |-> None]
    /\ lastId = 0 /\ restarts = 0 /\ evicted = {}
    /\ reported = [j \in Jobs |-> "none"]

-----------------------------------------------------------------------------
(***************************************************************************)
(* The ledger.  persistLocked and persistJob write every in-memory job;    *)
(* the file is replaced by a rename, so a failed write leaves the old      *)
(* one.  The identity of a process is taken from job.cmd when the record   *)
(* is made: complete while the process lives, the bare PID once it has     *)
(* exited, nothing for a restored job, which has no cmd.  It only matters  *)
(* for a record that is not terminal.                                      *)
(***************************************************************************)
Write(st) ==
    /\ dstate' = st
    /\ dident' = [j \in Jobs |-> IF st[j] # "running" THEN "none"
                                 ELSE IF Alive(proc[j]) THEN "full" ELSE "pid"]
    /\ UNCHANGED storeErr

WriteFails ==
    /\ "write" \in Faults
    /\ storeErr' = TRUE
    /\ UNCHANGED diskVars

Persist(st) == Write(st) \/ WriteFails

(***************************************************************************)
(* cleanupLocked: walking m.order, a terminal job goes when it is older    *)
(* than the retention time or while m.jobs is full.                        *)
(***************************************************************************)
\* Mutant: retention counts a job of unknown state as finished.
RemovableUnknown == {j \in Jobs : state[j] \in Terminal \cup {"unknown"}}

Removable == {j \in Jobs : state[j] \in Terminal}

Cleaned(expired, gone) ==
    \A j \in Jobs :
        j \in gone <=>
            /\ j \in Removable
            /\ \/ j \in expired
               \/ Cardinality(InMemory \ {i \in gone : i < j})
                      >= MaxRetainedJobs

Without(gone) == [j \in Jobs |-> IF j \in gone THEN "none" ELSE state[j]]

Cleanup(gone) ==
    /\ \E expired \in SUBSET Removable : Cleaned(expired, gone)
    /\ state' = Without(gone)
    /\ idem' = [k \in Keys |-> IF \E j \in gone : keyOf[j] = k
                               THEN 0 ELSE idem[k]]
    /\ evicted' = evicted \cup gone

-----------------------------------------------------------------------------
(***************************************************************************)
(* StartExecution.                                                         *)
(***************************************************************************)
Goto(c, label) == pc' = [pc EXCEPT ![c] = label]

\* StartExecution returns job j, or an error when j is 0.
Return(c, j) ==
    /\ Goto(c, IF j = 0 THEN "idle" ELSE "returned")
    /\ cjob' = [cjob EXCEPT ![c] = j]
    /\ ckey' = [ckey EXCEPT ![c] = IF j = 0 THEN None ELSE @]
    /\ cspec' = [cspec EXCEPT ![c] = IF j = 0 THEN None ELSE @]

\* Mutant: the reservation is deleted without close(reservation.done).
EndReservationSilently(c, k, label) ==
    /\ starting' = [starting EXCEPT ![k] = None]
    /\ pc' = [pc EXCEPT ![c] = label]

\* The reservation of k ends: delete(m.starting, k), close(reservation.done).
\* The callers that wait on done go back to the top of the loop.
EndReservation(c, k, label) ==
    /\ starting' = [starting EXCEPT ![k] = None]
    /\ pc' = [d \in Callers |->
                 IF d = c THEN label
                 ELSE IF pc[d] = "waiting" /\ ckey[d] = k THEN "entry"
                 ELSE pc[d]]

Call(c, k, s) ==
    /\ up = "up" /\ pc[c] = "idle"
    /\ Goto(c, "entry")
    /\ ckey' = [ckey EXCEPT ![c] = k]
    /\ cspec' = [cspec EXCEPT ![c] = s]
    /\ UNCHANGED <<nodeVars, jobVars, indexVars, cjob, watch, diskVars, proc,
                   idVars, histVars>>

\* The caller has its answer.
Answered(c) ==
    /\ pc[c] = "returned"
    /\ Return(c, 0)
    /\ UNCHANGED <<nodeVars, jobVars, indexVars, watch, diskVars, proc, idVars,
                   histVars>>

AtEntry(c) == pc[c] = "entry" /\ up = "up" /\ lock = None

\* m.closed or m.storeErr: rejected before anything is looked up.
Refuse(c) ==
    /\ AtEntry(c)
    /\ closed \/ storeErr
    /\ Return(c, 0)
    /\ UNCHANGED <<nodeVars, jobVars, indexVars, watch, diskVars, proc, idVars,
                   histVars>>

\* Mutant: the key alone decides.
FoundByKey(c, j) == state[j] # "none"

\* The existing job is returned only for the specification it was made for.
Found(c, j) == specOf[j] = cspec[c] /\ state[j] # "none"

\* The key has a job: that job, or ErrIdempotencyConflict.
Replay(c) ==
    LET j == idem[ckey[c]] IN
    /\ AtEntry(c) /\ ~closed /\ ~storeErr
    /\ j # 0
    /\ Return(c, IF Found(c, j) THEN j ELSE 0)
    /\ UNCHANGED <<nodeVars, jobVars, indexVars, watch, diskVars, proc, idVars,
                   histVars>>

\* The key is being started: wait for the reservation, or conflict.
Await(c) ==
    LET d == starting[ckey[c]] IN
    /\ AtEntry(c) /\ ~closed /\ ~storeErr
    /\ idem[ckey[c]] = 0 /\ d # None
    /\ IF cspec[d] = cspec[c]
       THEN Goto(c, "waiting") /\ UNCHANGED <<ckey, cspec, cjob>>
       ELSE Return(c, 0)
    /\ UNCHANGED <<nodeVars, jobVars, indexVars, watch, diskVars, proc, idVars,
                   histVars>>

\* A new key: cleanup (which saves the ledger), the two limits, reservation.
\* Mutant: starts in progress are not counted.
HasRoomForJobs(gone) ==
    Cardinality(InMemory \ gone) < MaxRetainedJobs /\ sem < MaxConcurrentJobs

HasRoom(gone) ==
    /\ Cardinality(InMemory \ gone)
         + Cardinality({k \in Keys : starting[k] # None}) < MaxRetainedJobs
    /\ sem < MaxConcurrentJobs

Reserve(c) ==
    LET k == ckey[c] IN
    /\ AtEntry(c) /\ ~closed /\ ~storeErr
    /\ idem[k] = 0 /\ starting[k] = None
    /\ \E gone \in SUBSET Removable :
         /\ Cleanup(gone)
         /\ \/ /\ Write(Without(gone))
               /\ IF HasRoom(gone)
                  THEN /\ sem' = sem + 1
                       /\ starting' = [starting EXCEPT ![k] = c]
                       /\ Goto(c, "preparing")
                       /\ UNCHANGED <<ckey, cspec, cjob>>
                  ELSE /\ Return(c, 0)
                       /\ UNCHANGED <<sem, starting>>
            \/ /\ WriteFails
               /\ Return(c, 0)
               /\ UNCHANGED <<sem, starting>>
    /\ UNCHANGED <<up, closeVars, lock, stop, reason, recov, runner, watch,
                   proc, idVars, restarts, reported>>

\* ctx.Done() while waiting for another caller's reservation.
GiveUp(c) ==
    /\ pc[c] = "waiting"
    /\ Return(c, 0)
    /\ UNCHANGED <<nodeVars, jobVars, indexVars, watch, diskVars, proc, idVars,
                   histVars>>

\* m.prepare, keepAlive or a pipe fails, the context ended (CancelAll cancels
\* it), or one of the two checks of m.closed rejects the start.
PrepareFails(c) ==
    /\ pc[c] = "preparing"
    /\ Goto(c, "aborting")
    /\ UNCHANGED <<nodeVars, jobVars, indexVars, ckey, cspec, cjob, watch,
                   diskVars, proc, idVars, histVars>>

\* Mutant: m.closed is not checked again under the lock.
StillReservedOnly(c) == starting[ckey[c]] = c

StillReserved(c) == ~closed /\ starting[ckey[c]] = c

\* Mutant: the ledger is saved without the job that is about to start.
WithoutStarting(j) == state

WithStarting(j) == [state EXCEPT ![j] = "starting"]

\* persistStartingLocked under m.mu, which is then kept.
PersistStarting(c) ==
    LET j == lastId + 1 IN
    /\ pc[c] = "preparing" /\ lock = None
    /\ StillReserved(c)
    /\ j \in Jobs
    /\ lastId' = j
    /\ keyOf' = [keyOf EXCEPT ![j] = ckey[c]]
    /\ specOf' = [specOf EXCEPT ![j] = cspec[c]]
    /\ \/ /\ Write(WithStarting(j))
          /\ lock' = c
          /\ cjob' = [cjob EXCEPT ![c] = j]
          /\ Goto(c, "launching")
       \/ /\ WriteFails
          /\ Goto(c, "aborting")
          /\ UNCHANGED <<lock, cjob>>
    /\ UNCHANGED <<up, closeVars, sem, jobVars, indexVars, ckey, cspec, watch,
                   proc, histVars>>

\* cmd.Start.
Launch(c) ==
    /\ pc[c] = "launching"
    /\ proc' = [proc EXCEPT ![cjob[c]] = "running"]
    /\ Goto(c, "recording")
    /\ UNCHANGED <<nodeVars, jobVars, indexVars, ckey, cspec, cjob, watch,
                   diskVars, idVars, histVars>>

\* cmd.Start fails: the ledger is saved without the "starting" record.
LaunchFails(c) ==
    /\ pc[c] = "launching"
    /\ Persist(state)
    /\ lock' = None
    /\ Goto(c, "aborting")
    /\ cjob' = [cjob EXCEPT ![c] = 0]
    /\ UNCHANGED <<up, closeVars, sem, jobVars, indexVars, ckey, cspec, watch,
                   proc, idVars, histVars>>

\* The job enters m.jobs and m.idempotency, the ledger is saved, the
\* reservation ends and runJob starts.
Record(c) ==
    LET j == cjob[c] IN
    /\ pc[c] = "recording"
    /\ Write([state EXCEPT ![j] = "running"])
    /\ state' = [state EXCEPT ![j] = "running"]
    /\ idem' = [idem EXCEPT ![ckey[c]] = j]
    /\ runner' = [runner EXCEPT ![j] = "running"]
    /\ lock' = None
    /\ EndReservation(c, ckey[c], "returned")
    /\ UNCHANGED <<up, closeVars, sem, stop, reason, recov, ckey, cspec, cjob,
                   watch, proc, idVars, histVars>>

\* Mutant: the error return skips the deferred release.
RecordFailsAndLeaks(c) ==
    /\ pc[c] = "recording"
    /\ WriteFails
    /\ lock' = None
    /\ Return(c, 0)
    /\ UNCHANGED <<up, closeVars, sem, jobVars, indexVars, watch, proc, idVars,
                   histVars>>

\* The save fails: the job is taken out again and m.mu is released before the
\* process is killed.
RecordFails(c) ==
    /\ pc[c] = "recording"
    /\ WriteFails
    /\ lock' = None
    /\ Goto(c, "killing")
    /\ UNCHANGED <<up, closeVars, sem, jobVars, indexVars, ckey, cspec, cjob,
                   watch, proc, idVars, histVars>>

Killed(p) == IF p = "running" THEN "dying" ELSE p

KillUnrecorded(c) ==
    /\ pc[c] = "killing"
    /\ proc' = [proc EXCEPT ![cjob[c]] = Killed(@)]
    /\ cjob' = [cjob EXCEPT ![c] = 0]
    /\ Goto(c, "aborting")
    /\ UNCHANGED <<nodeVars, jobVars, indexVars, ckey, cspec, watch, diskVars,
                   idVars, histVars>>

\* The deferred function: the reservation ends, then the slot is released.
Abort(c) ==
    /\ pc[c] = "aborting" /\ lock = None
    /\ IF starting[ckey[c]] = c
       THEN EndReservation(c, ckey[c], "releasing")
       ELSE Goto(c, "releasing") /\ UNCHANGED starting
    /\ UNCHANGED <<nodeVars, jobVars, idem, ckey, cspec, cjob, watch, diskVars,
                   proc, idVars, histVars>>

Release(c) ==
    /\ pc[c] = "releasing"
    /\ sem' = sem - 1
    /\ Return(c, 0)
    /\ UNCHANGED <<up, closeVars, storeErr, lock, jobVars, indexVars, watch,
                   diskVars, proc, idVars, histVars>>

-----------------------------------------------------------------------------
(***************************************************************************)
(* runJob and its watcher goroutine.  job.finish takes job.mu only, so it  *)
(* can fall between the steps of a critical section of m.mu.               *)
(***************************************************************************)
\* The process exits by itself, or because it was killed.
Exit(j) ==
    /\ Alive(proc[j])
    /\ \E p \in IF proc[j] = "dying" THEN {"err"} ELSE {"ok", "err"} :
         proc' = [proc EXCEPT ![j] = p]
    /\ UNCHANGED <<nodeVars, jobVars, indexVars, callVars, watch, diskVars,
                   idVars, histVars>>

\* Mutant: the reason is not recorded.
NoStopReason(j, why) == UNCHANGED reason

SetStopReason(j, why) == reason' = [reason EXCEPT ![j] = why]

\* The watcher takes the buffered stop request; the select may still prefer it
\* to job.done after the process was reaped.
TakeStop(j) ==
    /\ runner[j] \in {"running", "reaped"}
    /\ reason[j] = "" /\ stop[j] # ""
    /\ SetStopReason(j, stop[j])
    /\ stop' = [stop EXCEPT ![j] = ""]
    /\ proc' = [proc EXCEPT ![j] = Killed(@)]
    /\ UNCHANGED <<nodeVars, state, recov, runner, indexVars, callVars, watch,
                   diskVars, idVars, histVars>>

\* Mutant: the timer is never armed.
NeverTimeOut(j) == FALSE

\* The timer fires first.
TimeOut(j) ==
    /\ runner[j] = "running" /\ reason[j] = ""
    /\ SetStopReason(j, "timeout")
    /\ proc' = [proc EXCEPT ![j] = Killed(@)]
    /\ UNCHANGED <<nodeVars, state, stop, recov, runner, indexVars, callVars,
                   watch, diskVars, idVars, histVars>>

\* streams.Wait, cmd.Wait, close(job.done).
Reap(j) ==
    /\ runner[j] = "running" /\ ~Alive(proc[j])
    /\ runner' = [runner EXCEPT ![j] = "reaped"]
    /\ UNCHANGED <<nodeVars, state, stop, reason, recov, indexVars, callVars,
                   watch, diskVars, proc, idVars, histVars>>

\* Mutant: the stop reason is used as the state.
OutcomeOfReason(j) ==
    IF proc[j] = "ok" THEN "completed"
    ELSE IF reason[j] # "" THEN reason[j] ELSE "failed"

Outcome(j) ==
    IF proc[j] = "ok" THEN "completed"
    ELSE IF reason[j] = "timeout" THEN "expired"
    ELSE IF reason[j] # "" THEN "canceled" ELSE "failed"

\* job.stop and job.stopReason are not read after this step.
Finish(j) ==
    /\ runner[j] = "reaped"
    /\ state' = [state EXCEPT ![j] = Outcome(j)]
    /\ stop' = [stop EXCEPT ![j] = ""]
    /\ reason' = [reason EXCEPT ![j] = ""]
    /\ runner' = [runner EXCEPT ![j] = "finished"]
    /\ UNCHANGED <<nodeVars, recov, indexVars, callVars, watch, diskVars, proc,
                   idVars, histVars>>

PersistFinished(j) ==
    /\ runner[j] = "finished" /\ lock = None
    /\ Persist(state)
    /\ runner' = [runner EXCEPT ![j] = "persisted"]
    /\ UNCHANGED <<up, closeVars, lock, sem, state, stop, reason, recov,
                   indexVars, callVars, watch, proc, idVars, histVars>>

FreeSlot(j) ==
    /\ runner[j] = "persisted"
    /\ runner' = [runner EXCEPT ![j] = "none"]
    /\ sem' = sem - 1
    /\ UNCHANGED <<up, closeVars, storeErr, lock, state, stop, reason, recov,
                   indexVars, callVars, watch, diskVars, proc, idVars,
                   histVars>>

-----------------------------------------------------------------------------
(***************************************************************************)
(* recoverPersistedIdentity: verify the identity against the operating     *)
(* system, kill a verified process and wait until it is gone.  Inspection  *)
(* can fail, and a process can have another image than the recorded one,   *)
(* so that "not stopped" is always possible.                               *)
(***************************************************************************)
\* Mutant: a process that cannot be verified is taken for a stopped one.
PresumeStopped(j, ident) == UNCHANGED proc

ConfirmStopped(j, ident) ==
    \/ /\ ident # "none" /\ ~Alive(proc[j])
       /\ UNCHANGED proc
    \/ /\ ident = "full" /\ Alive(proc[j])
       /\ proc' = [proc EXCEPT ![j] = "err"]

NotConfirmed(j, ident) ==
    \/ UNCHANGED proc
    \/ /\ ident = "full" /\ proc[j] = "running"
       /\ proc' = [proc EXCEPT ![j] = "dying"]

\* Watch calls recoverUnknownJob; a job found stopped is then terminal and
\* Watch goes on with its snapshot.
RecoverUnknown(j) ==
    /\ up = "up" /\ watch = 0 /\ state[j] = "unknown"
    /\ \/ /\ ConfirmStopped(j, recov[j])
          /\ state' = [state EXCEPT ![j] = "interrupted"]
          /\ watch' = j
       \/ /\ NotConfirmed(j, recov[j])
          /\ UNCHANGED <<state, watch>>
    /\ UNCHANGED <<nodeVars, stop, reason, recov, runner, indexVars, callVars,
                   diskVars, idVars, histVars>>

\* Watch takes a terminal snapshot ...
WatchTerminal(j) ==
    /\ up = "up" /\ watch = 0 /\ state[j] \in Terminal
    /\ watch' = j
    /\ UNCHANGED <<nodeVars, jobVars, indexVars, callVars, diskVars, proc,
                   idVars, histVars>>

\* Mutant: the snapshot is returned although it could not be saved.
WatchReturnUnsaved ==
    /\ watch # 0 /\ lock = None
    /\ watch' = 0
    /\ Persist(state)
    /\ reported' = [reported EXCEPT ![watch] =
                       IF state[watch] = "none" THEN @ ELSE state[watch]]
    /\ UNCHANGED <<up, closeVars, lock, sem, jobVars, indexVars, callVars,
                   proc, idVars, restarts, evicted>>

\* ... and returns it only after persistJob succeeded.
WatchReturn ==
    /\ watch # 0 /\ lock = None
    /\ watch' = 0
    /\ \/ /\ Write(state)
          /\ reported' = [reported EXCEPT ![watch] =
                             IF state[watch] = "none" THEN @ ELSE state[watch]]
       \/ /\ WriteFails
          /\ UNCHANGED reported
    /\ UNCHANGED <<up, closeVars, lock, sem, jobVars, indexVars, callVars,
                   proc, idVars, restarts, evicted>>

\* job.stop <- why, unless the job is terminal or the buffer is full.
Stopped(j, why) == IF state[j] \in {"running", "unknown"} /\ stop[j] = ""
                   THEN why ELSE stop[j]

Cancel(j) ==
    /\ up = "up" /\ lock = None
    /\ state[j] \in {"running", "unknown"} /\ stop[j] = ""
    /\ stop' = [stop EXCEPT ![j] = Stopped(j, "user")]
    /\ UNCHANGED <<nodeVars, state, reason, recov, runner, indexVars, callVars,
                   watch, diskVars, proc, idVars, histVars>>

\* CancelAll closes the manager and signals every job ...
CancelAll ==
    /\ up = "up" /\ lock = None /\ shutdown = "no"
    /\ closed' = TRUE
    /\ shutdown' = "waiting"
    /\ shutJobs' = InMemory
    /\ stop' = [j \in Jobs |-> Stopped(j, "shutdown")]
    /\ UNCHANGED <<up, storeErr, lock, sem, state, reason, recov, runner,
                   indexVars, callVars, watch, diskVars, proc, idVars,
                   histVars>>

\* ... waits for the reservations and for the jobs, saves, and returns.
CancelAllReturns ==
    /\ shutdown = "waiting" /\ lock = None
    /\ \A k \in Keys : starting[k] = None
    /\ \A j \in shutJobs : state[j] \in Terminal \cup {"none"}
    /\ \/ Write(state) /\ shutdown' = "done"
       \/ WriteFails /\ shutdown' = "failed"
    /\ UNCHANGED <<up, closed, lock, sem, shutJobs, jobVars, indexVars,
                   callVars, watch, proc, idVars, histVars>>

\* The context of CancelAll ends first.
CancelAllTimesOut ==
    /\ shutdown = "waiting"
    /\ shutdown' = "failed"
    /\ UNCHANGED <<up, closed, storeErr, lock, sem, shutJobs, jobVars,
                   indexVars, callVars, watch, diskVars, proc, idVars,
                   histVars>>

\* StartMaintenance's ticker: cleanupLocked, which saves the ledger whatever
\* m.storeErr says.
Maintenance ==
    /\ up = "up" /\ lock = None
    /\ \E gone \in SUBSET Removable :
         /\ Cleanup(gone)
         /\ Persist(Without(gone))
    /\ UNCHANGED <<up, closeVars, lock, sem, stop, reason, recov, runner,
                   starting, callVars, watch, proc, idVars, restarts,
                   reported>>

-----------------------------------------------------------------------------
(***************************************************************************)
(* The end of the Node process, at any step: the memory is lost, the       *)
(* ledger and the job processes stay.                                      *)
(***************************************************************************)
Crash ==
    /\ up # "down" /\ restarts < MaxRestarts
    /\ restarts' = restarts + 1
    /\ up' = "down" /\ closed' = FALSE /\ storeErr' = FALSE /\ lock' = None
    /\ sem' = 0 /\ shutdown' = "no" /\ shutJobs' = {} /\ watch' = 0
    /\ state' = [j \in Jobs |-> "none"]
    /\ stop' = [j \in Jobs |-> ""]
    /\ reason' = [j \in Jobs |-> ""]
    /\ recov' = [j \in Jobs |-> "none"]
    /\ runner' = [j \in Jobs |-> "none"]
    /\ idem' = [k \in Keys |-> 0]
    /\ starting' = [k \in Keys |-> None]
    /\ pc' = [c \in Callers |-> "idle"]
    /\ ckey' = [c \in Callers |-> None]
    /\ cspec' = [c \in Callers |-> None]
    /\ cjob' = [c \in Callers |-> 0]
    /\ UNCHANGED <<diskVars, proc, idVars, evicted, reported>>

\* NewJobManager: the ledger is read, or m.storeErr is set and the manager is
\* empty.
Load ==
    /\ up = "down"
    /\ \/ up' = "restoring" /\ UNCHANGED storeErr
       \/ "read" \in Faults /\ up' = "up" /\ storeErr' = TRUE
    /\ UNCHANGED <<closeVars, lock, sem, jobVars, indexVars, callVars, watch,
                   diskVars, proc, idVars, histVars>>

\* restorePersistedJobs, one record: an unfinished job is not resumed, its
\* process is stopped if it can be identified.
RestoreRecord(j) ==
    /\ up = "restoring" /\ dstate[j] # "none" /\ state[j] = "none"
    /\ IF dstate[j] \in {"starting", "running"}
       THEN \/ /\ ConfirmStopped(j, dident[j])
               /\ state' = [state EXCEPT ![j] = "interrupted"]
            \/ /\ NotConfirmed(j, dident[j])
               /\ state' = [state EXCEPT ![j] = "unknown"]
       ELSE /\ state' = [state EXCEPT ![j] = dstate[j]]
            /\ UNCHANGED proc
    /\ recov' = [recov EXCEPT ![j] = dident[j]]
    /\ idem' = [idem EXCEPT ![keyOf[j]] = j]
    /\ evicted' = evicted \ {j}
    /\ UNCHANGED <<nodeVars, stop, reason, runner, starting, callVars, watch,
                   diskVars, idVars, restarts, reported>>

\* All records are in m.jobs; the ledger is saved if one of them changed.
Restored ==
    /\ up = "restoring"
    /\ \A j \in Jobs : dstate[j] # "none" => state[j] # "none"
    /\ up' = "up"
    /\ IF \E j \in Jobs : dstate[j] \in {"starting", "running"}
       THEN Persist(state)
       ELSE UNCHANGED <<diskVars, storeErr>>
    /\ UNCHANGED <<closeVars, lock, sem, jobVars, indexVars, callVars, watch,
                   proc, idVars, histVars>>

-----------------------------------------------------------------------------
CallerStep(c) ==
    \/ Refuse(c) \/ Replay(c) \/ Await(c) \/ Reserve(c)
    \/ PrepareFails(c) \/ PersistStarting(c)
    \/ Launch(c) \/ LaunchFails(c) \/ Record(c) \/ RecordFails(c)
    \/ KillUnrecorded(c) \/ Abort(c) \/ Release(c)

RunnerStep(j) == Reap(j) \/ Finish(j) \/ PersistFinished(j) \/ FreeSlot(j)

RestoreStep == Load \/ Restored \/ \E j \in Jobs : RestoreRecord(j)

Next ==
    \/ \E c \in Callers :
          \/ \E k \in Keys, s \in Specs : Call(c, k, s)
          \/ CallerStep(c)
          \/ GiveUp(c) \/ Answered(c)
    \/ \E j \in Jobs :
          \/ Exit(j) \/ TakeStop(j) \/ TimeOut(j) \/ RunnerStep(j)
          \/ RecoverUnknown(j) \/ WatchTerminal(j) \/ Cancel(j)
    \/ WatchReturn
    \/ CancelAll \/ CancelAllReturns \/ CancelAllTimesOut
    \/ Maintenance
    \/ Crash
    \/ RestoreStep

Spec == Init /\ [][Next]_vars

(***************************************************************************)
(* Every goroutine that can take a step takes it; the timer of a job       *)
(* fires; a killed process exits; the service manager restarts the Node.   *)
(* Nothing is assumed of a process that nobody stopped, or of the callers, *)
(* watchers and cancellations, which are the outside world.                *)
(***************************************************************************)
Fairness ==
    /\ \A c \in Callers : SF_vars(CallerStep(c))
    /\ \A j \in Jobs : /\ SF_vars(RunnerStep(j))
                       /\ WF_vars(TimeOut(j) \/ TakeStop(j))
                       /\ WF_vars(proc[j] = "dying" /\ Exit(j))
    /\ WF_vars(RestoreStep)

FairSpec == Spec /\ Fairness

-----------------------------------------------------------------------------
NodeTypes ==
    /\ up \in {"down", "restoring", "up"}
    /\ closed \in BOOLEAN /\ lock \in Callers \cup {None} /\ sem \in Int
    /\ shutdown \in {"no", "waiting", "done", "failed"}
    /\ shutJobs \in SUBSET Jobs /\ watch \in Jobs \cup {0}
    /\ restarts \in 0..MaxRestarts

JobTypes ==
    /\ state \in [Jobs -> States \cup {"none"}]
    /\ stop \in [Jobs -> Reasons] /\ reason \in [Jobs -> Reasons]
    /\ recov \in [Jobs -> Idents] /\ runner \in [Jobs -> Runners]
    /\ proc \in [Jobs -> Procs]

IndexTypes ==
    /\ idem \in [Keys -> Jobs \cup {0}]
    /\ starting \in [Keys -> Callers \cup {None}]

CallTypes ==
    /\ pc \in [Callers -> PCs]
    /\ ckey \in [Callers -> Keys \cup {None}]
    /\ cspec \in [Callers -> Specs \cup {None}]
    /\ cjob \in [Callers -> Jobs \cup {0}]
    /\ \A c \in Callers : pc[c] # "idle" =>
           ckey[c] \in Keys /\ cspec[c] \in Specs

DiskTypes ==
    /\ storeErr \in BOOLEAN
    /\ dstate \in [Jobs -> States \cup {"none", "starting"}]
    /\ dident \in [Jobs -> Idents]

IdTypes ==
    /\ keyOf \in [Jobs -> Keys \cup {None}]
    /\ specOf \in [Jobs -> Specs \cup {None}]
    /\ lastId \in Jobs \cup {0}
    /\ evicted \in SUBSET Jobs
    /\ reported \in [Jobs -> States \cup {"none"}]

(***************************************************************************)
(* Every variable holds a value of the kind its Go counterpart can hold,   *)
(* and a caller inside StartExecution has a key and a specification.       *)
(***************************************************************************)
TypeOK ==
    NodeTypes /\ JobTypes /\ IndexTypes /\ CallTypes /\ DiskTypes /\ IdTypes

(***************************************************************************)
(* A job whose state is terminal, in memory or in the ledger, has no live  *)
(* process: job.finish follows cmd.Wait, and recovery says "interrupted"   *)
(* only of a process that was seen to be gone.  This is what allows        *)
(* cleanupLocked to forget terminal jobs, whatever crashes and failed      *)
(* saves came before.                                                      *)
(***************************************************************************)
TerminalMeansStopped ==
    \A j \in Jobs : state[j] \in Terminal \/ dstate[j] \in Terminal
                        => ~Alive(proc[j])

(***************************************************************************)
(* An idempotency key never has two live processes, over races between     *)
(* callers, crashes between any two steps of a start, evictions and        *)
(* restarts (StartExecution with restorePersistedJobs).                    *)
(***************************************************************************)
OneLiveProcessPerKey ==
    \A i, j \in Jobs : /\ Alive(proc[i]) /\ Alive(proc[j])
                       /\ keyOf[i] = keyOf[j]
                       => i = j

(***************************************************************************)
(* One key creates one process: of two processes started for the same key, *)
(* one belongs to a job that retention removed (idempotency lasts as long  *)
(* as the record of the job).                                              *)
(***************************************************************************)
AtMostOnce ==
    \A i, j \in Jobs : /\ proc[i] # "none" /\ proc[j] # "none"
                       /\ keyOf[i] = keyOf[j] /\ i # j
                       => i \in evicted \/ j \in evicted

(***************************************************************************)
(* A terminal state that Watch returned is what every later Watch, also    *)
(* after a crash, returns: it is in the ledger (Watch saves before it      *)
(* answers) and it is what a restored manager holds.                       *)
(***************************************************************************)
ReportedIsStable ==
    \A j \in Jobs : reported[j] # "none" /\ j \notin evicted =>
        /\ dstate[j] = reported[j]
        /\ state[j] \in {"none", reported[j]}
        /\ up = "up" /\ "read" \notin Faults => state[j] = reported[j]

(***************************************************************************)
(* The slots of m.semaphore that are taken are exactly those of the starts *)
(* in progress and of the supervised jobs: no path through StartExecution  *)
(* or runJob loses a slot or frees one twice, and the limit holds.         *)
(***************************************************************************)
SlotsAccounted ==
    /\ sem = Cardinality({c \in Callers : pc[c] \in Reserving})
               + Cardinality({j \in Jobs : runner[j] # "none"})
    /\ sem <= MaxConcurrentJobs

(***************************************************************************)
(* m.jobs and m.starting together never exceed maxRetainedJobs, and        *)
(* neither does the ledger, so that a restart restores within the limit.   *)
(***************************************************************************)
RetentionBound ==
    /\ Cardinality(InMemory) + Cardinality({k \in Keys : starting[k] # None})
           <= MaxRetainedJobs
    /\ Cardinality({j \in Jobs : dstate[j] # "none"}) <= MaxRetainedJobs

(***************************************************************************)
(* The job that StartExecution returns was created for the key and for the *)
(* specification of this very call, also when the caller waited for        *)
(* somebody else's start or found a job restored from the ledger.          *)
(***************************************************************************)
AnswerMatchesRequest ==
    \A c \in Callers : pc[c] = "returned" =>
        /\ keyOf[cjob[c]] = ckey[c] /\ specOf[cjob[c]] = cspec[c]
        /\ proc[cjob[c]] # "none" \/ state[cjob[c]] = "unknown"

(***************************************************************************)
(* When CancelAll has returned without an error, no job process of this    *)
(* Node runs any more, none is being started and none will be.             *)
(***************************************************************************)
ShutdownIsQuiet ==
    shutdown = "done" =>
        /\ closed
        /\ \A j \in Jobs : ~Alive(proc[j])
        /\ \A c \in Callers : pc[c] \notin {"preparing", "launching",
                                            "recording", "killing"}

(***************************************************************************)
(* While a job is supervised, its process is killed only for a stop reason *)
(* that job.finish will report (a cancellation, shutdown or timeout).      *)
(***************************************************************************)
KilledForAReason ==
    \A j \in Jobs : runner[j] = "running" /\ proc[j] = "dying"
                        => reason[j] # ""

(***************************************************************************)
(* Every reservation ends and wakes the callers that wait for it.          *)
(***************************************************************************)
WaitersWake == \A c \in Callers : pc[c] = "waiting" ~> pc[c] # "waiting"

(***************************************************************************)
(* Every supervised job returns its slot of the semaphore: the timer stops *)
(* a process that does not exit, and a failed save does not keep the slot. *)
(***************************************************************************)
SlotsReturn == \A j \in Jobs : runner[j] # "none" ~> runner[j] = "none"

\* Of stops: a process is killed for a reason that its job reports, and a Node
\* that shuts down leaves none behind.
StopsAreSound == KilledForAReason /\ ShutdownIsQuiet

\* Of reports: a caller gets the job that it asked for, and what it was told
\* stays true.
ReportsAreTrue == AnswerMatchesRequest /\ ReportedIsStable
=============================================================================
