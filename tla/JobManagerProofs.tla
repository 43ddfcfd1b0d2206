--------------------------- MODULE JobManagerProofs ---------------------------
(***************************************************************************)
(* Proofs about JobManager, for every set of keys, specifications and      *)
(* callers, and for every limit and bound.                                 *)
(***************************************************************************)
EXTENDS JobManager, FiniteSetTheorems, TLAPS

-----------------------------------------------------------------------------
(***************************************************************************)
(* The inductive invariant, whatever fails: who holds m.mu, what the       *)
(* holder is doing, and how far the supervisor of a job is.                *)
(***************************************************************************)
LockHolder ==
    /\ \A c \in Callers : pc[c] \in {"launching", "recording"} <=> lock = c
    /\ up # "up" => lock = None /\ \A c \in Callers : pc[c] = "idle"

\* A job that is being started is in nobody's memory and has a "starting"
\* record; it has a process once cmd.Start has returned.
BeingStarted ==
    \A c \in Callers : pc[c] \in {"launching", "recording"} =>
        /\ cjob[c] \in Jobs /\ ckey[c] \in Keys
        /\ keyOf[cjob[c]] = ckey[c]
        /\ state[cjob[c]] = "none" /\ dstate[cjob[c]] = "starting"
        /\ runner[cjob[c]] = "none"
        /\ pc[c] = "launching" => proc[cjob[c]] = "none"

\* Ids that were not drawn yet.
FreshIds ==
    \A j \in Jobs : j > lastId => /\ state[j] = "none" /\ dstate[j] = "none"
                                  /\ proc[j] = "none" /\ runner[j] = "none"

Supervised ==
    \A j \in Jobs :
        /\ runner[j] \in {"running", "reaped"} => state[j] = "running"
        /\ state[j] = "running" => runner[j] \in {"running", "reaped"}
        /\ runner[j] = "reaped" => ~Alive(proc[j])
        /\ runner[j] # "none" => up = "up"

StoppedInv ==
    /\ TypeOK /\ LockHolder /\ BeingStarted /\ FreshIds /\ Supervised
    /\ TerminalMeansStopped

-----------------------------------------------------------------------------
(***************************************************************************)
(* The rest of the invariant when the ledger can be read and written.      *)
(***************************************************************************)
\* Before the manager is up nothing is reserved, watched or shut down, and
\* memory comes from the ledger.
NotYetUp ==
    up # "up" => /\ watch = 0 /\ shutdown = "no"
                 /\ \A k \in Keys : starting[k] = None
                 /\ \A j \in Jobs : state[j] # "none" => dstate[j] # "none"

\* A caller between its reservation and the end of it holds the key.
HoldsKey ==
    \A c \in Callers :
        pc[c] \in {"preparing", "launching", "recording"} => starting[ckey[c]] = c

\* No start has to be undone when every save succeeds.
NothingUndone == \A c \in Callers : pc[c] # "killing"

\* m.idempotency finds every job of m.jobs, and no key that is being started.
Indexed ==
    /\ \A j \in Jobs : state[j] # "none" => keyOf[j] \in Keys
                                            /\ idem[keyOf[j]] = j
    /\ \A k \in Keys : starting[k] # None => idem[k] = 0

\* The ledger has one record per key.
OneRecordPerKey ==
    /\ \A j \in Jobs : dstate[j] # "none" => keyOf[j] \in Keys
    /\ \A i, j \in Jobs : /\ dstate[i] # "none" /\ dstate[j] # "none"
                          /\ keyOf[i] = keyOf[j]
                          => i = j

\* A process is forgotten by the ledger, or by a running manager, only when
\* retention removed its job.
Remembered ==
    \A j \in Jobs : proc[j] # "none" /\ j \notin evicted =>
        /\ dstate[j] # "none"
        /\ up = "up" => \/ state[j] # "none"
                        \/ \E c \in Callers : pc[c] = "recording" /\ cjob[c] = j

\* What retention removed was stopped and is nowhere any more.
EvictedStopped ==
    \A j \in evicted : /\ ~Alive(proc[j]) /\ j <= lastId
                       /\ state[j] = "none" /\ dstate[j] = "none"

OnceInv ==
    /\ StoppedInv /\ NotYetUp /\ HoldsKey /\ NothingUndone /\ Indexed
    /\ OneRecordPerKey /\ Remembered /\ EvictedStopped

-----------------------------------------------------------------------------
(***************************************************************************)
(* Type correctness.  Three lemmas say what the shared operators store.    *)
(***************************************************************************)
\* Return leaves a caller with a job, or idle.
LEMMA ReturnTypes ==
    ASSUME CallTypes, NEW c \in Callers, NEW r \in Jobs \cup {0},
           pc[c] # "idle", Return(c, r)
    PROVE  CallTypes'
  BY DEF CallTypes, Return, Goto, PCs

\* A save stores a state for every job.
LEMMA PersistTypes ==
    ASSUME DiskTypes, NEW st \in [Jobs -> States \cup {"none", "starting"}],
           Persist(st)
    PROVE  DiskTypes'
  BY DEF DiskTypes, Persist, Write, WriteFails, Idents, diskVars

\* Retention keeps the types of m.jobs and m.idempotency.
LEMMA CleanupTypes ==
    ASSUME JobTypes, IndexTypes, IdTypes, NEW gone \in SUBSET Removable,
           Cleanup(gone)
    PROVE  /\ Without(gone) \in [Jobs -> States \cup {"none"}]
           /\ state' \in [Jobs -> States \cup {"none"}]
           /\ idem' \in [Keys -> Jobs \cup {0}]
           /\ evicted' \in SUBSET Jobs
  BY DEF JobTypes, IndexTypes, IdTypes, Cleanup, Without, Removable

\* Every step keeps the types.
LEMMA TypeStep == TypeOK /\ [Next]_vars => TypeOK'
<1> SUFFICES ASSUME NodeTypes, JobTypes, IndexTypes, CallTypes, DiskTypes,
                    IdTypes, [Next]_vars
             PROVE  NodeTypes' /\ JobTypes' /\ IndexTypes' /\ CallTypes'
                    /\ DiskTypes' /\ IdTypes'
    BY DEF TypeOK
<1> USE DEF nodeVars, closeVars, jobVars, indexVars, callVars, diskVars,
            idVars, histVars
<1> DEFINE Goal == NodeTypes' /\ JobTypes' /\ IndexTypes' /\ CallTypes'
                    /\ DiskTypes' /\ IdTypes'
<1>1. ASSUME NEW c \in Callers, NEW k \in Keys, NEW s \in Specs, Call(c, k, s)
      PROVE  Goal
  <2>1. CallTypes'
    BY <1>1 DEF Call, Goto, CallTypes, PCs
  <2> QED
    BY <1>1, <2>1 DEF Call, NodeTypes, JobTypes, IndexTypes, DiskTypes, IdTypes
<1>2. ASSUME NEW c \in Callers, Refuse(c) PROVE Goal
  <2>1. CallTypes'
    BY <1>2, ReturnTypes DEF Refuse, AtEntry
  <2> QED
    BY <1>2, <2>1 DEF Refuse, NodeTypes, JobTypes, IndexTypes, DiskTypes,
                      IdTypes
<1>3. ASSUME NEW c \in Callers, Replay(c) PROVE Goal
  <2>1. idem[ckey[c]] \in Jobs \cup {0}
    BY <1>3 DEF Replay, AtEntry, IndexTypes, CallTypes
  <2>2. PICK r \in Jobs \cup {0} : Return(c, r)
    BY <1>3, <2>1 DEF Replay
  <2>3. CallTypes'
    BY <1>3, <2>2, ReturnTypes DEF Replay, AtEntry
  <2> QED
    BY <1>3, <2>3 DEF Replay, NodeTypes, JobTypes, IndexTypes, DiskTypes,
                      IdTypes
<1>4. ASSUME NEW c \in Callers, Await(c) PROVE Goal
  <2>1. CASE Goto(c, "waiting") /\ UNCHANGED <<ckey, cspec, cjob>>
    <3>1. CallTypes'
      BY <1>4, <2>1 DEF Await, AtEntry, Goto, CallTypes, PCs
    <3> QED
      BY <1>4, <3>1 DEF Await, NodeTypes, JobTypes, IndexTypes, DiskTypes,
                        IdTypes
  <2>2. CASE Return(c, 0)
    <3>1. CallTypes'
      BY <1>4, <2>2, ReturnTypes DEF Await, AtEntry
    <3> QED
      BY <1>4, <3>1 DEF Await, NodeTypes, JobTypes, IndexTypes, DiskTypes,
                        IdTypes
  <2> QED
    BY <1>4, <2>1, <2>2 DEF Await
<1>5. ASSUME NEW c \in Callers, Reserve(c) PROVE Goal
  <2> DEFINE k == ckey[c]
  <2>1. PICK gone \in SUBSET Removable :
          /\ Cleanup(gone)
          /\ \/ /\ Write(Without(gone))
                /\ IF HasRoom(gone)
                   THEN /\ sem' = sem + 1
                        /\ starting' = [starting EXCEPT ![k] = c]
                        /\ Goto(c, "preparing")
                        /\ UNCHANGED <<ckey, cspec, cjob>>
                   ELSE /\ Return(c, 0)
                        /\ UNCHANGED <<sem, starting>>
             \/ /\ WriteFails
                /\ Return(c, 0)
                /\ UNCHANGED <<sem, starting>>
    BY <1>5 DEF Reserve
  <2>2. JobTypes'
    BY <1>5, <2>1, CleanupTypes DEF Reserve, JobTypes
  <2>3. IdTypes'
    BY <1>5, <2>1, CleanupTypes DEF Reserve, IdTypes
  <2>4. DiskTypes'
    BY <2>1, PersistTypes, CleanupTypes DEF Persist
  <2>5. pc[c] # "idle"
    BY <1>5 DEF Reserve, AtEntry
  <2>6. CASE Return(c, 0) /\ UNCHANGED <<sem, starting>>
    <3>1. CallTypes'
      BY <2>5, <2>6, ReturnTypes
    <3>2. IndexTypes'
      BY <2>1, <2>6, CleanupTypes DEF IndexTypes
    <3> QED
      BY <1>5, <2>2, <2>3, <2>4, <2>6, <3>1, <3>2 DEF Reserve, NodeTypes
  <2>7. CASE /\ sem' = sem + 1
             /\ starting' = [starting EXCEPT ![k] = c]
             /\ Goto(c, "preparing")
             /\ UNCHANGED <<ckey, cspec, cjob>>
    <3>1. CallTypes'
      BY <2>5, <2>7 DEF CallTypes, Goto, PCs
    <3>2. IndexTypes'
      BY <2>1, <2>7, CleanupTypes DEF IndexTypes
    <3>3. NodeTypes'
      BY <1>5, <2>7 DEF Reserve, NodeTypes
    <3> QED
      BY <2>2, <2>3, <2>4, <3>1, <3>2, <3>3
  <2> QED
    BY <2>1, <2>6, <2>7
<1>6. ASSUME NEW c \in Callers, PrepareFails(c) PROVE Goal
  <2>1. CallTypes'
    BY <1>6 DEF PrepareFails, Goto, PCs, CallTypes
  <2> QED
    BY <1>6, <2>1 DEF PrepareFails, NodeTypes, JobTypes, IndexTypes, DiskTypes,
                      IdTypes
<1>7. ASSUME NEW c \in Callers, PersistStarting(c) PROVE Goal
  <2>1. lastId + 1 \in Jobs /\ lastId' = lastId + 1
    BY <1>7 DEF PersistStarting
  <2>2. WithStarting(lastId + 1) \in [Jobs -> States \cup {"none", "starting"}]
    BY <2>1 DEF WithStarting, JobTypes
  <2>3. DiskTypes'
    BY <1>7, <2>2, PersistTypes DEF PersistStarting, Persist
  <2>4. CallTypes'
    BY <1>7, <2>1 DEF PersistStarting, Goto, CallTypes, PCs
  <2>5. IdTypes'
    BY <1>7, <2>1 DEF PersistStarting, IdTypes, CallTypes
  <2>6. NodeTypes'
    BY <1>7 DEF PersistStarting, NodeTypes
  <2> QED
    BY <1>7, <2>3, <2>4, <2>5, <2>6 DEF PersistStarting, JobTypes, IndexTypes
<1>8. ASSUME NEW c \in Callers, Launch(c) PROVE Goal
  <2>1. JobTypes'
    BY <1>8 DEF Launch, Procs, JobTypes
  <2>2. CallTypes'
    BY <1>8 DEF Launch, Goto, PCs, CallTypes
  <2> QED
    BY <1>8, <2>1, <2>2 DEF Launch, NodeTypes, IndexTypes, DiskTypes, IdTypes
<1>9. ASSUME NEW c \in Callers, LaunchFails(c) PROVE Goal
  <2>1. DiskTypes'
    BY <1>9, PersistTypes DEF LaunchFails, JobTypes
  <2>2. CallTypes'
    BY <1>9 DEF LaunchFails, Goto, CallTypes, PCs
  <2>3. NodeTypes'
    BY <1>9 DEF LaunchFails, NodeTypes
  <2> QED
    BY <1>9, <2>1, <2>2, <2>3 DEF LaunchFails, JobTypes, IndexTypes, IdTypes
<1>10. ASSUME NEW c \in Callers, Record(c) PROVE Goal
  <2>1. ckey[c] \in Keys
    BY <1>10 DEF Record, CallTypes
  <2>2. JobTypes'
    BY <1>10 DEF Record, JobTypes, States, Runners
  <2>3. DiskTypes'
    BY <1>10, <2>2, PersistTypes DEF Record, Persist, JobTypes
  <2>4. CallTypes'
    BY <1>10, <2>1 DEF Record, EndReservation, CallTypes, PCs
  <2>5. IndexTypes'
    BY <1>10, <2>1 DEF Record, EndReservation, IndexTypes, CallTypes
  <2>6. NodeTypes'
    BY <1>10 DEF Record, NodeTypes
  <2> QED
    BY <1>10, <2>2, <2>3, <2>4, <2>5, <2>6 DEF Record, IdTypes
<1>11. ASSUME NEW c \in Callers, RecordFails(c) PROVE Goal
  <2>1. NodeTypes'
    BY <1>11 DEF RecordFails, NodeTypes
  <2>2. CallTypes'
    BY <1>11 DEF RecordFails, Goto, PCs, CallTypes
  <2>3. DiskTypes'
    BY <1>11 DEF RecordFails, WriteFails, DiskTypes
  <2> QED
    BY <1>11, <2>1, <2>2, <2>3 DEF RecordFails, JobTypes, IndexTypes, IdTypes
<1>12. ASSUME NEW c \in Callers, KillUnrecorded(c) PROVE Goal
  <2>1. JobTypes'
    BY <1>12 DEF KillUnrecorded, Killed, Procs, JobTypes
  <2>2. CallTypes'
    BY <1>12 DEF KillUnrecorded, Goto, PCs, CallTypes
  <2> QED
    BY <1>12, <2>1, <2>2 DEF KillUnrecorded, NodeTypes, IndexTypes, DiskTypes,
                             IdTypes
<1>13. ASSUME NEW c \in Callers, Abort(c) PROVE Goal
  <2>1. IndexTypes'
    BY <1>13 DEF Abort, EndReservation, IndexTypes
  <2>2. CallTypes'
    BY <1>13 DEF Abort, EndReservation, Goto, PCs, CallTypes
  <2> QED
    BY <1>13, <2>1, <2>2 DEF Abort, NodeTypes, JobTypes, DiskTypes, IdTypes
<1>14. ASSUME NEW c \in Callers, Release(c) PROVE Goal
  <2>1. NodeTypes'
    BY <1>14 DEF Release, NodeTypes
  <2>2. CallTypes'
    BY <1>14, ReturnTypes DEF Release
  <2> QED
    BY <1>14, <2>1, <2>2 DEF Release, JobTypes, IndexTypes, DiskTypes, IdTypes
<1>15. ASSUME NEW c \in Callers, GiveUp(c) PROVE Goal
  <2>1. CallTypes'
    BY <1>15, ReturnTypes DEF GiveUp
  <2> QED
    BY <1>15, <2>1 DEF GiveUp, NodeTypes, JobTypes, IndexTypes, DiskTypes,
                       IdTypes
<1>16. ASSUME NEW c \in Callers, Answered(c) PROVE Goal
  <2>1. CallTypes'
    BY <1>16, ReturnTypes DEF Answered
  <2> QED
    BY <1>16, <2>1 DEF Answered, NodeTypes, JobTypes, IndexTypes, DiskTypes,
                       IdTypes
<1>17. ASSUME NEW j \in Jobs, Exit(j) PROVE Goal
  <2>1. JobTypes'
    BY <1>17 DEF Exit, Procs, JobTypes
  <2> QED
    BY <1>17, <2>1 DEF Exit, NodeTypes, IndexTypes, CallTypes, DiskTypes,
                       IdTypes
<1>18. ASSUME NEW j \in Jobs, TakeStop(j) PROVE Goal
  <2>1. JobTypes'
    BY <1>18 DEF TakeStop, SetStopReason, Killed, Procs, Reasons, JobTypes
  <2> QED
    BY <1>18, <2>1 DEF TakeStop, NodeTypes, IndexTypes, CallTypes, DiskTypes,
                       IdTypes
<1>19. ASSUME NEW j \in Jobs, TimeOut(j) PROVE Goal
  <2>1. JobTypes'
    BY <1>19 DEF TimeOut, SetStopReason, Killed, Procs, Reasons, JobTypes
  <2> QED
    BY <1>19, <2>1 DEF TimeOut, NodeTypes, IndexTypes, CallTypes, DiskTypes,
                       IdTypes
<1>20. ASSUME NEW j \in Jobs, Reap(j) PROVE Goal
  <2>1. JobTypes'
    BY <1>20 DEF Reap, Runners, JobTypes
  <2> QED
    BY <1>20, <2>1 DEF Reap, NodeTypes, IndexTypes, CallTypes, DiskTypes,
                       IdTypes
<1>21. ASSUME NEW j \in Jobs, Finish(j) PROVE Goal
  <2>1. JobTypes'
    BY <1>21 DEF Finish, Outcome, States, Terminal, Reasons, Runners, JobTypes
  <2> QED
    BY <1>21, <2>1 DEF Finish, NodeTypes, IndexTypes, CallTypes, DiskTypes,
                       IdTypes
<1>22. ASSUME NEW j \in Jobs, PersistFinished(j) PROVE Goal
  <2>1. JobTypes'
    BY <1>22 DEF PersistFinished, Runners, JobTypes
  <2>2. DiskTypes'
    BY <1>22, PersistTypes DEF PersistFinished, JobTypes
  <2> QED
    BY <1>22, <2>1, <2>2 DEF PersistFinished, NodeTypes, IndexTypes, CallTypes,
                             IdTypes
<1>23. ASSUME NEW j \in Jobs, FreeSlot(j) PROVE Goal
  <2>1. NodeTypes'
    BY <1>23 DEF FreeSlot, NodeTypes
  <2>2. JobTypes'
    BY <1>23 DEF FreeSlot, Runners, JobTypes
  <2> QED
    BY <1>23, <2>1, <2>2 DEF FreeSlot, IndexTypes, CallTypes, DiskTypes,
                             IdTypes
<1>24. ASSUME NEW j \in Jobs, RecoverUnknown(j) PROVE Goal
  <2>1. NodeTypes'
    BY <1>24 DEF RecoverUnknown, NodeTypes
  <2>2. JobTypes'
    BY <1>24 DEF RecoverUnknown, ConfirmStopped, NotConfirmed, Procs, States,
                 Terminal, JobTypes
  <2> QED
    BY <1>24, <2>1, <2>2 DEF RecoverUnknown, IndexTypes, CallTypes, DiskTypes,
                             IdTypes
<1>25. ASSUME NEW j \in Jobs, WatchTerminal(j) PROVE Goal
  <2>1. NodeTypes'
    BY <1>25 DEF WatchTerminal, NodeTypes
  <2> QED
    BY <1>25, <2>1 DEF WatchTerminal, JobTypes, IndexTypes, CallTypes,
                       DiskTypes, IdTypes
<1>26. ASSUME NEW j \in Jobs, Cancel(j) PROVE Goal
  <2>1. JobTypes'
    BY <1>26 DEF Cancel, Stopped, Reasons, JobTypes
  <2> QED
    BY <1>26, <2>1 DEF Cancel, NodeTypes, IndexTypes, CallTypes, DiskTypes,
                       IdTypes
<1>27. ASSUME NEW j \in Jobs, RestoreRecord(j) PROVE Goal
  <2>1. state[j] = "none" /\ dstate[j] # "none"
    BY <1>27 DEF RestoreRecord
  <2>2. proc' \in [Jobs -> Procs]
    BY <1>27 DEF RestoreRecord, ConfirmStopped, NotConfirmed, JobTypes, Procs
  <2>3. state' \in [Jobs -> States \cup {"none"}]
    BY <1>27 DEF RestoreRecord, JobTypes, DiskTypes, States, Terminal
  <2>4. JobTypes'
    BY <1>27, <2>2, <2>3 DEF RestoreRecord, JobTypes, DiskTypes
  <2>5. IndexTypes'
    BY <1>27 DEF RestoreRecord, IndexTypes
  <2>6. IdTypes'
    BY <1>27 DEF RestoreRecord, IdTypes
  <2> QED
    BY <1>27, <2>4, <2>5, <2>6 DEF RestoreRecord, NodeTypes, CallTypes,
                                   DiskTypes
<1>28. CASE WatchReturn
  <2>1. DiskTypes'
    BY <1>28, PersistTypes DEF WatchReturn, JobTypes, Persist
  <2>2. NodeTypes'
    BY <1>28 DEF WatchReturn, NodeTypes
  <2>3. watch \in Jobs
    BY <1>28 DEF WatchReturn, NodeTypes
  <2>4. IdTypes'
    BY <1>28, <2>3 DEF WatchReturn, IdTypes, JobTypes
  <2> QED
    BY <1>28, <2>1, <2>2, <2>4 DEF WatchReturn, JobTypes, IndexTypes, CallTypes
<1>29. CASE CancelAll
  <2>1. NodeTypes'
    BY <1>29 DEF CancelAll, InMemory, NodeTypes
  <2>2. JobTypes'
    BY <1>29 DEF CancelAll, Stopped, Reasons, JobTypes
  <2> QED
    BY <1>29, <2>1, <2>2 DEF CancelAll, IndexTypes, CallTypes, DiskTypes,
                             IdTypes
<1>30. CASE CancelAllReturns
  <2>1. NodeTypes'
    BY <1>30 DEF CancelAllReturns, NodeTypes
  <2>2. DiskTypes'
    BY <1>30, PersistTypes DEF CancelAllReturns, JobTypes, Persist
  <2> QED
    BY <1>30, <2>1, <2>2 DEF CancelAllReturns, JobTypes, IndexTypes, CallTypes,
                             IdTypes
<1>31. CASE CancelAllTimesOut
  <2>1. NodeTypes'
    BY <1>31 DEF CancelAllTimesOut, NodeTypes
  <2> QED
    BY <1>31, <2>1 DEF CancelAllTimesOut, JobTypes, IndexTypes, CallTypes,
                       DiskTypes, IdTypes
<1>32. CASE Maintenance
  <2>1. PICK gone \in SUBSET Removable :
          Cleanup(gone) /\ Persist(Without(gone))
    BY <1>32 DEF Maintenance
  <2>2. JobTypes'
    BY <1>32, <2>1, CleanupTypes DEF Maintenance, JobTypes
  <2>3. IdTypes'
    BY <1>32, <2>1, CleanupTypes DEF Maintenance, IdTypes
  <2>4. DiskTypes'
    BY <2>1, PersistTypes, CleanupTypes
  <2>5. IndexTypes'
    BY <1>32, <2>1, CleanupTypes DEF Maintenance, IndexTypes
  <2> QED
    BY <1>32, <2>2, <2>3, <2>4, <2>5 DEF Maintenance, NodeTypes, CallTypes
<1>33. CASE Crash
  <2>1. restarts \in 0..MaxRestarts /\ restarts < MaxRestarts
        /\ restarts' = restarts + 1
    BY <1>33 DEF Crash, NodeTypes
  <2>2. restarts' \in 0..MaxRestarts
    BY <2>1, BoundsAssumption
  <2>3. NodeTypes'
    <3>1. up' = "down" /\ shutdown' = "no" /\ lock' = None
      BY <1>33 DEF Crash
    <3>2. closed' \in BOOLEAN
      BY <1>33 DEF Crash
    <3>3. sem' \in Int /\ watch' \in Jobs \cup {0}
      <4>1. sem' = 0 /\ watch' = 0
        BY <1>33 DEF Crash
      <4> QED
        BY <4>1
    <3>4. shutJobs' \in SUBSET Jobs
      BY <1>33 DEF Crash
    <3> QED
      BY <2>2, <3>1, <3>2, <3>3, <3>4 DEF NodeTypes
  <2>4. JobTypes'
    BY <1>33 DEF Crash, JobTypes, Reasons, Idents, Runners
  <2>5. IndexTypes'
    BY <1>33 DEF Crash, IndexTypes
  <2>6. CallTypes'
    BY <1>33 DEF Crash, CallTypes, PCs
  <2>7. DiskTypes'
    BY <1>33 DEF Crash, DiskTypes
  <2> QED
    BY <1>33, <2>3, <2>4, <2>5, <2>6, <2>7 DEF Crash, IdTypes
<1>34. CASE Load
  <2>1. NodeTypes'
    BY <1>34 DEF Load, NodeTypes
  <2>2. DiskTypes'
    BY <1>34 DEF Load, DiskTypes
  <2> QED
    BY <1>34, <2>1, <2>2 DEF Load, JobTypes, IndexTypes, CallTypes, IdTypes
<1>35. CASE Restored
  <2>1. NodeTypes'
    BY <1>35 DEF Restored, NodeTypes
  <2>2. DiskTypes'
    BY <1>35, PersistTypes DEF Restored, JobTypes, DiskTypes
  <2> QED
    BY <1>35, <2>1, <2>2 DEF Restored, JobTypes, IndexTypes, CallTypes, IdTypes
<1>36. CASE UNCHANGED vars
  BY <1>36 DEF vars, NodeTypes, JobTypes, IndexTypes, CallTypes, DiskTypes,
             IdTypes
<1> QED
  BY <1>1, <1>2, <1>3, <1>4, <1>5, <1>6, <1>7, <1>8, <1>9, <1>10, <1>11, <1>12,
     <1>13, <1>14, <1>15, <1>16, <1>17, <1>18, <1>19, <1>20, <1>21, <1>22,
     <1>23, <1>24, <1>25, <1>26, <1>27, <1>28, <1>29, <1>30, <1>31, <1>32,
     <1>33, <1>34, <1>35, <1>36
     DEF Next, CallerStep, RunnerStep, RestoreStep
-----------------------------------------------------------------------------
(***************************************************************************)
(* How every step preserves the parts of the invariant.                    *)
(***************************************************************************)

(***************************************************************************)
(* m.mu is held across steps exactly by a caller between                   *)
(* persistStartingLocked and the end of its commit section.                *)
(***************************************************************************)
LEMMA LockStep ==
    ASSUME CallTypes, LockHolder, [Next]_vars
    PROVE  LockHolder'
<1> USE DEF nodeVars, closeVars, jobVars, indexVars, callVars, diskVars,
            idVars, histVars
<1>1. ASSUME NEW c \in Callers, NEW k \in Keys, NEW s \in Specs, Call(c, k, s)
     PROVE  LockHolder'
  BY <1>1 DEF Call, Goto, CallTypes, LockHolder
<1>2. ASSUME NEW c \in Callers, Refuse(c) PROVE LockHolder'
  BY <1>2 DEF Refuse, Return, Goto, CallTypes, AtEntry, LockHolder
<1>3. ASSUME NEW c \in Callers, Replay(c) PROVE LockHolder'
  BY <1>3 DEF Replay, Return, Goto, CallTypes, AtEntry, LockHolder
<1>4. ASSUME NEW c \in Callers, Await(c) PROVE LockHolder'
  BY <1>4 DEF Await, Return, Goto, CallTypes, AtEntry, LockHolder
<1>5. ASSUME NEW c \in Callers, Reserve(c) PROVE LockHolder'
  BY <1>5 DEF Reserve, Return, Goto, CallTypes, AtEntry, LockHolder
<1>6. ASSUME NEW c \in Callers, PrepareFails(c) PROVE LockHolder'
  BY <1>6 DEF PrepareFails, Goto, CallTypes, AtEntry, LockHolder
<1>7. ASSUME NEW c \in Callers, PersistStarting(c) PROVE LockHolder'
  BY <1>7, NoneAssumption DEF PersistStarting, Goto, CallTypes, AtEntry,
                              LockHolder
<1>8. ASSUME NEW c \in Callers, Launch(c) PROVE LockHolder'
  BY <1>8 DEF Launch, Goto, CallTypes, AtEntry, LockHolder
<1>9. ASSUME NEW c \in Callers, LaunchFails(c) PROVE LockHolder'
  BY <1>9, NoneAssumption DEF LaunchFails, Goto, CallTypes, AtEntry, LockHolder
<1>10. ASSUME NEW c \in Callers, Record(c) PROVE LockHolder'
  BY <1>10, NoneAssumption DEF Record, EndReservation, CallTypes, AtEntry,
                              LockHolder
<1>11. ASSUME NEW c \in Callers, RecordFails(c) PROVE LockHolder'
  BY <1>11, NoneAssumption DEF RecordFails, Goto, CallTypes, AtEntry, LockHolder
<1>12. ASSUME NEW c \in Callers, KillUnrecorded(c) PROVE LockHolder'
  BY <1>12 DEF KillUnrecorded, Goto, CallTypes, AtEntry, LockHolder
<1>13. ASSUME NEW c \in Callers, Abort(c) PROVE LockHolder'
  BY <1>13 DEF Abort, Goto, EndReservation, CallTypes, AtEntry, LockHolder
<1>14. ASSUME NEW c \in Callers, Release(c) PROVE LockHolder'
  BY <1>14 DEF Release, Return, Goto, CallTypes, AtEntry, LockHolder
<1>15. ASSUME NEW c \in Callers, GiveUp(c) PROVE LockHolder'
  BY <1>15 DEF GiveUp, Return, Goto, CallTypes, AtEntry, LockHolder
<1>16. ASSUME NEW c \in Callers, Answered(c) PROVE LockHolder'
  BY <1>16 DEF Answered, Return, Goto, CallTypes, AtEntry, LockHolder
<1>17. ASSUME NEW j \in Jobs,
        \/ Exit(j) \/ TakeStop(j) \/ TimeOut(j) \/ Reap(j) \/ Finish(j)
        \/ PersistFinished(j) \/ FreeSlot(j) \/ RecoverUnknown(j)
        \/ WatchTerminal(j) \/ Cancel(j) \/ RestoreRecord(j)
     PROVE  LockHolder'
  BY <1>17 DEF Exit, TakeStop, TimeOut, Reap, Finish, PersistFinished, FreeSlot,
              RecoverUnknown, WatchTerminal, Cancel, RestoreRecord, LockHolder
<1>18. CASE Crash
  BY <1>18, NoneAssumption DEF Crash, LockHolder
<1>19. CASE Load
  BY <1>19 DEF Load, LockHolder
<1>20. CASE Restored
  BY <1>20 DEF Restored, LockHolder
<1>21. CASE
        \/ WatchReturn \/ CancelAll \/ CancelAllReturns \/ CancelAllTimesOut
        \/ Maintenance
  BY <1>21 DEF WatchReturn, CancelAll, CancelAllReturns, CancelAllTimesOut,
              Maintenance, LockHolder
<1>22. CASE UNCHANGED vars
  BY <1>22 DEF vars, LockHolder
<1> QED
  BY <1>1, <1>2, <1>3, <1>4, <1>5, <1>6, <1>7, <1>8, <1>9, <1>10, <1>11, <1>12,
     <1>13, <1>14, <1>15, <1>16, <1>17, <1>18, <1>19, <1>20, <1>21, <1>22
     DEF Next, CallerStep, RunnerStep, RestoreStep

(***************************************************************************)
(* A job in the commit section has its "starting" record, is in nobody's   *)
(* memory, and has a process only after cmd.Start.                         *)
(***************************************************************************)
LEMMA BeingStartedStep ==
    ASSUME CallTypes, JobTypes, IdTypes, LockHolder, BeingStarted, FreshIds,
           Supervised, [Next]_vars
    PROVE  BeingStarted'
<1> USE DEF nodeVars, closeVars, jobVars, indexVars, callVars, diskVars,
            idVars, histVars
<1>1. ASSUME NEW c \in Callers, NEW k \in Keys, NEW s \in Specs, Call(c, k, s)
     PROVE  BeingStarted'
  BY <1>1 DEF Call, Goto, BeingStarted, LockHolder, CallTypes
<1>2. ASSUME NEW c \in Callers, Refuse(c) PROVE BeingStarted'
  BY <1>2, NoneAssumption DEF Refuse, Return, Goto, AtEntry, BeingStarted,
                              LockHolder, CallTypes
<1>3. ASSUME NEW c \in Callers, Replay(c) PROVE BeingStarted'
  BY <1>3, NoneAssumption DEF Replay, Return, Goto, AtEntry, BeingStarted,
                              LockHolder, CallTypes
<1>4. ASSUME NEW c \in Callers, Await(c) PROVE BeingStarted'
  BY <1>4, NoneAssumption DEF Await, Return, Goto, AtEntry, BeingStarted,
                              LockHolder, CallTypes
<1>5. ASSUME NEW c \in Callers, Reserve(c) PROVE BeingStarted'
  BY <1>5, NoneAssumption DEF Reserve, Return, Goto, Cleanup, Without, Write,
                              WriteFails, AtEntry, BeingStarted, LockHolder,
                              CallTypes
<1>6. ASSUME NEW c \in Callers, PrepareFails(c) PROVE BeingStarted'
  BY <1>6, NoneAssumption DEF PrepareFails, Goto, AtEntry, BeingStarted,
                              LockHolder, CallTypes
<1>7. ASSUME NEW c \in Callers, PersistStarting(c) PROVE BeingStarted'
  <2>1. CASE Write(WithStarting(lastId + 1))
    <3> DEFINE j == lastId + 1
    <3>1. /\ j \in Jobs /\ state[j] = "none" /\ proc[j] = "none"
          /\ runner[j] = "none"
      BY <1>7 DEF PersistStarting, FreshIds, IdTypes, Jobs
    <3>2. dstate'[j] = "starting"
      BY <2>1, <3>1 DEF Write, WithStarting, JobTypes
    <3>3. keyOf'[j] = ckey[c] /\ ckey[c] \in Keys
      BY <1>7, <3>1 DEF PersistStarting, IdTypes, CallTypes
    <3>4. \A d \in Callers : pc'[d] \in {"launching", "recording"} => d = c
      BY <1>7, NoneAssumption DEF PersistStarting, Goto, LockHolder, CallTypes
    <3>5. pc'[c] # "aborting" => pc'[c] = "launching" /\ cjob'[c] = j
      BY <1>7 DEF PersistStarting, Goto, CallTypes
    <3> QED
      BY <1>7, <3>1, <3>2, <3>3, <3>4, <3>5
         DEF PersistStarting, Goto, CallTypes, BeingStarted
  <2>2. CASE WriteFails /\ Goto(c, "aborting")
    <3>1. \A d \in Callers : pc'[d] \notin {"launching", "recording"}
      BY <1>7, <2>2, NoneAssumption
         DEF PersistStarting, Goto, LockHolder, CallTypes
    <3> QED
      BY <3>1 DEF BeingStarted
  <2> QED
    BY <1>7, <2>1, <2>2 DEF PersistStarting
<1>8. ASSUME NEW c \in Callers, Launch(c) PROVE BeingStarted'
  BY <1>8, NoneAssumption DEF Launch, Goto, AtEntry, BeingStarted, LockHolder,
                              CallTypes
<1>9. ASSUME NEW c \in Callers, LaunchFails(c) PROVE BeingStarted'
  BY <1>9, NoneAssumption DEF LaunchFails, Goto, Persist, Write, WriteFails,
                              AtEntry, BeingStarted, LockHolder, CallTypes
<1>10. ASSUME NEW c \in Callers, Record(c) PROVE BeingStarted'
  BY <1>10, NoneAssumption DEF Record, EndReservation, Write, AtEntry,
                              BeingStarted, LockHolder, CallTypes
<1>11. ASSUME NEW c \in Callers, RecordFails(c) PROVE BeingStarted'
  BY <1>11, NoneAssumption DEF RecordFails, Goto, WriteFails, AtEntry,
                              BeingStarted, LockHolder, CallTypes
<1>12. ASSUME NEW c \in Callers, KillUnrecorded(c) PROVE BeingStarted'
  BY <1>12, NoneAssumption DEF KillUnrecorded, Goto, Killed, AtEntry,
                              BeingStarted, LockHolder, CallTypes
<1>13. ASSUME NEW c \in Callers, Abort(c) PROVE BeingStarted'
  BY <1>13, NoneAssumption DEF Abort, Goto, EndReservation, AtEntry,
                              BeingStarted, LockHolder, CallTypes
<1>14. ASSUME NEW c \in Callers, Release(c) PROVE BeingStarted'
  BY <1>14, NoneAssumption DEF Release, Return, Goto, AtEntry, BeingStarted,
                              LockHolder, CallTypes
<1>15. ASSUME NEW c \in Callers, GiveUp(c) PROVE BeingStarted'
  BY <1>15, NoneAssumption DEF GiveUp, Return, Goto, AtEntry, BeingStarted,
                              LockHolder, CallTypes
<1>16. ASSUME NEW c \in Callers, Answered(c) PROVE BeingStarted'
  BY <1>16, NoneAssumption DEF Answered, Return, Goto, AtEntry, BeingStarted,
                              LockHolder, CallTypes
<1>17. ASSUME NEW j \in Jobs, Exit(j) PROVE BeingStarted'
  BY <1>17, NoneAssumption DEF Exit, Alive, BeingStarted, LockHolder, CallTypes
<1>18. ASSUME NEW j \in Jobs, TakeStop(j) PROVE BeingStarted'
  BY <1>18, NoneAssumption DEF TakeStop, SetStopReason, Killed, JobTypes,
                              BeingStarted, LockHolder, CallTypes
<1>19. ASSUME NEW j \in Jobs, TimeOut(j) PROVE BeingStarted'
  BY <1>19, NoneAssumption DEF TimeOut, SetStopReason, Killed, JobTypes,
                              BeingStarted, LockHolder, CallTypes
<1>20. ASSUME NEW j \in Jobs, Reap(j) PROVE BeingStarted'
  BY <1>20, NoneAssumption DEF Reap, BeingStarted, LockHolder, CallTypes
<1>21. ASSUME NEW j \in Jobs, Finish(j) PROVE BeingStarted'
  BY <1>21, NoneAssumption DEF Finish, Outcome, JobTypes, BeingStarted,
                              LockHolder, CallTypes
<1>22. ASSUME NEW j \in Jobs, PersistFinished(j) PROVE BeingStarted'
  BY <1>22, NoneAssumption DEF PersistFinished, Persist, Write, WriteFails,
                              BeingStarted, LockHolder, CallTypes
<1>23. ASSUME NEW j \in Jobs, FreeSlot(j) PROVE BeingStarted'
  BY <1>23, NoneAssumption DEF FreeSlot, BeingStarted, LockHolder, CallTypes
<1>24. ASSUME NEW j \in Jobs, RecoverUnknown(j) PROVE BeingStarted'
  BY <1>24, NoneAssumption DEF RecoverUnknown, ConfirmStopped, NotConfirmed,
                              JobTypes, BeingStarted, LockHolder, CallTypes
<1>25. ASSUME NEW j \in Jobs, RestoreRecord(j) PROVE BeingStarted'
  BY <1>25, NoneAssumption DEF RestoreRecord, ConfirmStopped, NotConfirmed,
                              BeingStarted, LockHolder, CallTypes
<1>26. ASSUME NEW j \in Jobs,
        \/ WatchTerminal(j) \/ Cancel(j)
     PROVE  BeingStarted'
  BY <1>26 DEF WatchTerminal, Cancel, BeingStarted, LockHolder, CallTypes
<1>27. CASE WatchReturn
  BY <1>27, NoneAssumption DEF WatchReturn, Write, WriteFails, BeingStarted,
                              LockHolder, CallTypes
<1>28. CASE CancelAllReturns
  BY <1>28, NoneAssumption DEF CancelAllReturns, Write, WriteFails,
                              BeingStarted, LockHolder, CallTypes
<1>29. CASE Maintenance
  BY <1>29, NoneAssumption DEF Maintenance, Cleanup, Without, Persist, Write,
                              WriteFails, BeingStarted, LockHolder, CallTypes
<1>30. CASE Crash
  BY <1>30, NoneAssumption DEF Crash, BeingStarted, LockHolder, CallTypes
<1>31. CASE Restored
  BY <1>31, NoneAssumption DEF Restored, Persist, Write, WriteFails,
                              BeingStarted, LockHolder, CallTypes
<1>32. CASE
        \/ CancelAll \/ CancelAllTimesOut \/ Load
  BY <1>32 DEF CancelAll, CancelAllTimesOut, Load, BeingStarted, LockHolder,
              CallTypes
<1>33. CASE UNCHANGED vars
  BY <1>33 DEF vars, BeingStarted, LockHolder, CallTypes
<1> QED
  BY <1>1, <1>2, <1>3, <1>4, <1>5, <1>6, <1>7, <1>8, <1>9, <1>10, <1>11, <1>12,
     <1>13, <1>14, <1>15, <1>16, <1>17, <1>18, <1>19, <1>20, <1>21, <1>22,
     <1>23, <1>24, <1>25, <1>26, <1>27, <1>28, <1>29, <1>30, <1>31, <1>32,
     <1>33
     DEF Next, CallerStep, RunnerStep, RestoreStep

(***************************************************************************)
(* A job id that was not drawn yet has left no trace in memory, in the     *)
(* ledger or in the operating system.                                      *)
(***************************************************************************)
LEMMA FreshIdsStep ==
    ASSUME CallTypes, JobTypes, IdTypes, LockHolder, BeingStarted, FreshIds,
           Supervised, [Next]_vars
    PROVE  FreshIds'
<1> USE DEF nodeVars, closeVars, jobVars, indexVars, callVars, diskVars,
            idVars, histVars
<1>1. ASSUME NEW c \in Callers, Reserve(c) PROVE FreshIds'
  BY <1>1 DEF Reserve, Return, Goto, Cleanup, Without, Write, WriteFails,
              FreshIds
<1>2. ASSUME NEW c \in Callers, PersistStarting(c) PROVE FreshIds'
  <2>1. /\ lastId \in Int /\ lastId' = lastId + 1 /\ lastId + 1 \in Jobs
        /\ UNCHANGED <<state, proc, runner>>
    BY <1>2 DEF PersistStarting, IdTypes, Jobs
  <2>2. \A j \in Jobs : j > lastId + 1 => dstate'[j] = "none"
    <3> SUFFICES ASSUME NEW j \in Jobs, j > lastId + 1
                 PROVE  dstate'[j] = "none"
      OBVIOUS
    <3>1. j # lastId + 1 /\ state[j] = "none" /\ dstate[j] = "none"
      BY <2>1 DEF FreshIds, Jobs
    <3>2. CASE Write(WithStarting(lastId + 1))
      BY <3>1, <3>2 DEF Write, WithStarting, JobTypes
    <3>3. CASE WriteFails
      BY <3>1, <3>3 DEF WriteFails
    <3> QED
      BY <1>2, <3>2, <3>3 DEF PersistStarting
  <2>3. \A j \in Jobs : j > lastId + 1 => j > lastId
    BY <2>1 DEF Jobs
  <2> QED
    BY <2>1, <2>2, <2>3 DEF FreshIds
<1>3. ASSUME NEW c \in Callers, Launch(c) PROVE FreshIds'
  BY <1>3 DEF Launch, Goto, JobTypes, BeingStarted, CallTypes, FreshIds
<1>4. ASSUME NEW c \in Callers, LaunchFails(c) PROVE FreshIds'
  BY <1>4 DEF LaunchFails, Goto, Persist, Write, WriteFails, JobTypes,
              BeingStarted, CallTypes, FreshIds
<1>5. ASSUME NEW c \in Callers, Record(c) PROVE FreshIds'
  BY <1>5 DEF Record, EndReservation, Write, JobTypes, BeingStarted, CallTypes,
              FreshIds
<1>6. ASSUME NEW c \in Callers, RecordFails(c) PROVE FreshIds'
  BY <1>6 DEF RecordFails, Goto, WriteFails, JobTypes, BeingStarted, CallTypes,
              FreshIds
<1>7. ASSUME NEW c \in Callers, KillUnrecorded(c) PROVE FreshIds'
  BY <1>7 DEF KillUnrecorded, Goto, Killed, JobTypes, BeingStarted, CallTypes,
              FreshIds
<1>8. ASSUME NEW c \in Callers, NEW k \in Keys, NEW s \in Specs, Call(c, k, s)
     PROVE  FreshIds'
  BY <1>8 DEF Call, FreshIds
<1>9. ASSUME NEW c \in Callers,
        \/ Refuse(c) \/ Replay(c) \/ Await(c) \/ PrepareFails(c) \/ Abort(c)
        \/ Release(c) \/ GiveUp(c) \/ Answered(c)
     PROVE  FreshIds'
  BY <1>9 DEF Refuse, Replay, Await, PrepareFails, Abort, Release, GiveUp,
              Answered, FreshIds
<1>10. ASSUME NEW j \in Jobs, Exit(j) PROVE FreshIds'
  BY <1>10 DEF Exit, Alive, JobTypes, FreshIds
<1>11. ASSUME NEW j \in Jobs, TakeStop(j) PROVE FreshIds'
  BY <1>11 DEF TakeStop, SetStopReason, Killed, JobTypes, FreshIds
<1>12. ASSUME NEW j \in Jobs, TimeOut(j) PROVE FreshIds'
  BY <1>12 DEF TimeOut, SetStopReason, Killed, JobTypes, FreshIds
<1>13. ASSUME NEW j \in Jobs, Reap(j) PROVE FreshIds'
  BY <1>13 DEF Reap, JobTypes, FreshIds
<1>14. ASSUME NEW j \in Jobs, Finish(j) PROVE FreshIds'
  BY <1>14 DEF Finish, Outcome, JobTypes, FreshIds
<1>15. ASSUME NEW j \in Jobs, PersistFinished(j) PROVE FreshIds'
  BY <1>15 DEF PersistFinished, Persist, Write, WriteFails, JobTypes, FreshIds
<1>16. ASSUME NEW j \in Jobs, FreeSlot(j) PROVE FreshIds'
  BY <1>16 DEF FreeSlot, JobTypes, FreshIds
<1>17. ASSUME NEW j \in Jobs, RecoverUnknown(j) PROVE FreshIds'
  BY <1>17 DEF RecoverUnknown, ConfirmStopped, NotConfirmed, JobTypes, FreshIds
<1>18. ASSUME NEW j \in Jobs, RestoreRecord(j) PROVE FreshIds'
  BY <1>18 DEF RestoreRecord, ConfirmStopped, NotConfirmed, JobTypes, FreshIds
<1>19. ASSUME NEW j \in Jobs,
        \/ WatchTerminal(j) \/ Cancel(j)
     PROVE  FreshIds'
  BY <1>19 DEF WatchTerminal, Cancel, FreshIds
<1>20. CASE WatchReturn
  BY <1>20 DEF WatchReturn, Write, WriteFails, FreshIds
<1>21. CASE CancelAllReturns
  BY <1>21 DEF CancelAllReturns, Write, WriteFails, FreshIds
<1>22. CASE Maintenance
  BY <1>22 DEF Maintenance, Cleanup, Without, Persist, Write, WriteFails,
              FreshIds
<1>23. CASE Crash
  BY <1>23 DEF Crash, FreshIds
<1>24. CASE Restored
  BY <1>24 DEF Restored, Persist, Write, WriteFails, FreshIds
<1>25. CASE
        \/ CancelAll \/ CancelAllTimesOut \/ Load
  BY <1>25 DEF CancelAll, CancelAllTimesOut, Load, FreshIds
<1>26. CASE UNCHANGED vars
  BY <1>26 DEF vars, FreshIds
<1> QED
  BY <1>1, <1>2, <1>3, <1>4, <1>5, <1>6, <1>7, <1>8, <1>9, <1>10, <1>11, <1>12,
     <1>13, <1>14, <1>15, <1>16, <1>17, <1>18, <1>19, <1>20, <1>21, <1>22,
     <1>23, <1>24, <1>25, <1>26
     DEF Next, CallerStep, RunnerStep, RestoreStep

(***************************************************************************)
(* A running job has a supervisor and a supervised job is running; the     *)
(* supervisor goes on after cmd.Wait only when the process is gone.        *)
(***************************************************************************)
LEMMA SupervisedStep ==
    ASSUME NodeTypes, CallTypes, JobTypes, DiskTypes, LockHolder, BeingStarted,
           Supervised, [Next]_vars
    PROVE  Supervised'
<1> USE DEF nodeVars, closeVars, jobVars, indexVars, callVars, diskVars,
            idVars, histVars
<1>1. ASSUME NEW c \in Callers, Reserve(c) PROVE Supervised'
  BY <1>1 DEF Reserve, Return, Goto, Cleanup, Without, Write, WriteFails,
              JobTypes, Removable, Terminal, Supervised
<1>2. ASSUME NEW c \in Callers, Launch(c) PROVE Supervised'
  BY <1>2 DEF Launch, Goto, JobTypes, BeingStarted, CallTypes, Supervised
<1>3. ASSUME NEW c \in Callers, Record(c) PROVE Supervised'
  BY <1>3, NoneAssumption DEF Record, EndReservation, Write, JobTypes,
                              BeingStarted, CallTypes, LockHolder, Alive,
                              Supervised
<1>4. ASSUME NEW c \in Callers, KillUnrecorded(c) PROVE Supervised'
  BY <1>4 DEF KillUnrecorded, Goto, Killed, JobTypes, Alive, Supervised
<1>5. ASSUME NEW c \in Callers, NEW k \in Keys, NEW s \in Specs, Call(c, k, s)
     PROVE  Supervised'
  BY <1>5 DEF Call, Supervised
<1>6. ASSUME NEW c \in Callers,
        \/ Refuse(c) \/ Replay(c) \/ Await(c) \/ PrepareFails(c)
        \/ PersistStarting(c) \/ LaunchFails(c) \/ RecordFails(c) \/ Abort(c)
        \/ Release(c) \/ GiveUp(c) \/ Answered(c)
     PROVE  Supervised'
  BY <1>6 DEF Refuse, Replay, Await, PrepareFails, PersistStarting,
              LaunchFails, RecordFails, Abort, Release, GiveUp, Answered,
              Supervised
<1>7. ASSUME NEW j \in Jobs, Exit(j) PROVE Supervised'
  BY <1>7 DEF Exit, Alive, JobTypes, DiskTypes, Alive, States, Terminal,
              Supervised
<1>8. ASSUME NEW j \in Jobs, TakeStop(j) PROVE Supervised'
  BY <1>8 DEF TakeStop, SetStopReason, Killed, JobTypes, DiskTypes, Alive,
              States, Terminal, Supervised
<1>9. ASSUME NEW j \in Jobs, TimeOut(j) PROVE Supervised'
  BY <1>9 DEF TimeOut, SetStopReason, Killed, JobTypes, DiskTypes, Alive,
              States, Terminal, Supervised
<1>10. ASSUME NEW j \in Jobs, Reap(j) PROVE Supervised'
  BY <1>10 DEF Reap, JobTypes, DiskTypes, Alive, States, Terminal, Supervised
<1>11. ASSUME NEW j \in Jobs, Finish(j) PROVE Supervised'
  BY <1>11 DEF Finish, Outcome, JobTypes, DiskTypes, Alive, States, Terminal,
              Supervised
<1>12. ASSUME NEW j \in Jobs, PersistFinished(j) PROVE Supervised'
  BY <1>12 DEF PersistFinished, Persist, Write, WriteFails, JobTypes, DiskTypes,
              Alive, States, Terminal, Supervised
<1>13. ASSUME NEW j \in Jobs, FreeSlot(j) PROVE Supervised'
  BY <1>13 DEF FreeSlot, JobTypes, DiskTypes, Alive, States, Terminal,
              Supervised
<1>14. ASSUME NEW j \in Jobs, RecoverUnknown(j) PROVE Supervised'
  BY <1>14 DEF RecoverUnknown, ConfirmStopped, NotConfirmed, JobTypes,
              DiskTypes, Alive, States, Terminal, Supervised
<1>15. ASSUME NEW j \in Jobs, RestoreRecord(j) PROVE Supervised'
  BY <1>15 DEF RestoreRecord, ConfirmStopped, NotConfirmed, JobTypes, DiskTypes,
              Alive, States, Terminal, Supervised
<1>16. ASSUME NEW j \in Jobs,
        \/ WatchTerminal(j) \/ Cancel(j)
     PROVE  Supervised'
  BY <1>16 DEF WatchTerminal, Cancel, Supervised
<1>17. CASE Maintenance
  BY <1>17 DEF Maintenance, Cleanup, Without, Persist, Write, WriteFails,
              JobTypes, Removable, Terminal, NodeTypes, Supervised
<1>18. CASE Crash
  BY <1>18 DEF Crash, JobTypes, Removable, Terminal, NodeTypes, Supervised
<1>19. CASE Load
  BY <1>19 DEF Load, JobTypes, Removable, Terminal, NodeTypes, Supervised
<1>20. CASE Restored
  BY <1>20 DEF Restored, Persist, Write, WriteFails, JobTypes, Removable,
              Terminal, NodeTypes, Supervised
<1>21. CASE
        \/ WatchReturn \/ CancelAll \/ CancelAllReturns \/ CancelAllTimesOut
  BY <1>21 DEF WatchReturn, CancelAll, CancelAllReturns, CancelAllTimesOut,
              Supervised
<1>22. CASE UNCHANGED vars
  BY <1>22 DEF vars, Supervised
<1> QED
  BY <1>1, <1>2, <1>3, <1>4, <1>5, <1>6, <1>7, <1>8, <1>9, <1>10, <1>11, <1>12,
     <1>13, <1>14, <1>15, <1>16, <1>17, <1>18, <1>19, <1>20, <1>21, <1>22
     DEF Next, CallerStep, RunnerStep, RestoreStep

(***************************************************************************)
(* A job becomes terminal only when its process is gone, and no process is *)
(* started for a terminal job.                                             *)
(***************************************************************************)
LEMMA TerminalStep ==
    ASSUME CallTypes, JobTypes, DiskTypes, IdTypes, BeingStarted, FreshIds,
           Supervised, TerminalMeansStopped, [Next]_vars
    PROVE  TerminalMeansStopped'
<1> USE DEF nodeVars, closeVars, jobVars, indexVars, callVars, diskVars,
            idVars, histVars
<1>1. ASSUME NEW c \in Callers, Reserve(c) PROVE TerminalMeansStopped'
  BY <1>1 DEF Reserve, Return, Goto, Cleanup, Without, Write, WriteFails,
              JobTypes, BeingStarted, CallTypes, Terminal, Alive,
              TerminalMeansStopped
<1>2. ASSUME NEW c \in Callers, PersistStarting(c) PROVE TerminalMeansStopped'
  BY <1>2 DEF PersistStarting, Goto, Write, WriteFails, WithStarting, JobTypes,
              BeingStarted, CallTypes, Terminal, Alive, TerminalMeansStopped
<1>3. ASSUME NEW c \in Callers, Launch(c) PROVE TerminalMeansStopped'
  BY <1>3 DEF Launch, Goto, JobTypes, BeingStarted, CallTypes, Terminal, Alive,
              TerminalMeansStopped
<1>4. ASSUME NEW c \in Callers, LaunchFails(c) PROVE TerminalMeansStopped'
  BY <1>4 DEF LaunchFails, Goto, Persist, Write, WriteFails, JobTypes,
              BeingStarted, CallTypes, Terminal, Alive, TerminalMeansStopped
<1>5. ASSUME NEW c \in Callers, Record(c) PROVE TerminalMeansStopped'
  BY <1>5 DEF Record, EndReservation, Write, JobTypes, BeingStarted, CallTypes,
              Terminal, Alive, TerminalMeansStopped
<1>6. ASSUME NEW c \in Callers, RecordFails(c) PROVE TerminalMeansStopped'
  BY <1>6 DEF RecordFails, Goto, WriteFails, JobTypes, BeingStarted, CallTypes,
              Terminal, Alive, TerminalMeansStopped
<1>7. ASSUME NEW c \in Callers, KillUnrecorded(c) PROVE TerminalMeansStopped'
  BY <1>7 DEF KillUnrecorded, Goto, Killed, JobTypes, BeingStarted, CallTypes,
              Terminal, Alive, TerminalMeansStopped
<1>8. ASSUME NEW c \in Callers, NEW k \in Keys, NEW s \in Specs, Call(c, k, s)
     PROVE  TerminalMeansStopped'
  BY <1>8 DEF Call, TerminalMeansStopped
<1>9. ASSUME NEW c \in Callers,
        \/ Refuse(c) \/ Replay(c) \/ Await(c) \/ PrepareFails(c) \/ Abort(c)
        \/ Release(c) \/ GiveUp(c) \/ Answered(c)
     PROVE  TerminalMeansStopped'
  BY <1>9 DEF Refuse, Replay, Await, PrepareFails, Abort, Release, GiveUp,
              Answered, TerminalMeansStopped
<1>10. ASSUME NEW j \in Jobs, Exit(j) PROVE TerminalMeansStopped'
  BY <1>10 DEF Exit, Alive, JobTypes, DiskTypes, Alive, Terminal,
              TerminalMeansStopped
<1>11. ASSUME NEW j \in Jobs, TakeStop(j) PROVE TerminalMeansStopped'
  BY <1>11 DEF TakeStop, SetStopReason, Killed, JobTypes, DiskTypes, Alive,
              Terminal, TerminalMeansStopped
<1>12. ASSUME NEW j \in Jobs, TimeOut(j) PROVE TerminalMeansStopped'
  BY <1>12 DEF TimeOut, SetStopReason, Killed, JobTypes, DiskTypes, Alive,
              Terminal, TerminalMeansStopped
<1>13. ASSUME NEW j \in Jobs, Finish(j) PROVE TerminalMeansStopped'
  BY <1>13 DEF Finish, Outcome, JobTypes, Supervised, TerminalMeansStopped
<1>14. ASSUME NEW j \in Jobs, PersistFinished(j) PROVE TerminalMeansStopped'
  BY <1>14 DEF PersistFinished, Persist, Write, WriteFails, JobTypes, DiskTypes,
              Alive, Terminal, TerminalMeansStopped
<1>15. ASSUME NEW j \in Jobs, RecoverUnknown(j) PROVE TerminalMeansStopped'
  BY <1>15 DEF RecoverUnknown, ConfirmStopped, NotConfirmed, JobTypes,
              DiskTypes, Alive, Terminal, TerminalMeansStopped
<1>16. ASSUME NEW j \in Jobs, RestoreRecord(j) PROVE TerminalMeansStopped'
  BY <1>16 DEF RestoreRecord, ConfirmStopped, NotConfirmed, JobTypes, DiskTypes,
              Alive, Terminal, TerminalMeansStopped
<1>17. ASSUME NEW j \in Jobs,
        \/ Reap(j) \/ FreeSlot(j) \/ WatchTerminal(j) \/ Cancel(j)
     PROVE  TerminalMeansStopped'
  BY <1>17 DEF Reap, FreeSlot, WatchTerminal, Cancel, TerminalMeansStopped
<1>18. CASE WatchReturn
  BY <1>18 DEF WatchReturn, Write, WriteFails, TerminalMeansStopped
<1>19. CASE CancelAllReturns
  BY <1>19 DEF CancelAllReturns, Write, WriteFails, TerminalMeansStopped
<1>20. CASE Maintenance
  BY <1>20 DEF Maintenance, Cleanup, Without, Persist, Write, WriteFails,
              Terminal, TerminalMeansStopped
<1>21. CASE Crash
  BY <1>21 DEF Crash, Terminal, TerminalMeansStopped
<1>22. CASE Restored
  BY <1>22 DEF Restored, Persist, Write, WriteFails, TerminalMeansStopped
<1>23. CASE
        \/ CancelAll \/ CancelAllTimesOut \/ Load
  BY <1>23 DEF CancelAll, CancelAllTimesOut, Load, TerminalMeansStopped
<1>24. CASE UNCHANGED vars
  BY <1>24 DEF vars, TerminalMeansStopped
<1> QED
  BY <1>1, <1>2, <1>3, <1>4, <1>5, <1>6, <1>7, <1>8, <1>9, <1>10, <1>11, <1>12,
     <1>13, <1>14, <1>15, <1>16, <1>17, <1>18, <1>19, <1>20, <1>21, <1>22,
     <1>23, <1>24
     DEF Next, CallerStep, RunnerStep, RestoreStep

(***************************************************************************)
(* The initial state satisfies the invariant.                              *)
(***************************************************************************)
LEMMA StoppedInit == Init => StoppedInv
<1> SUFFICES ASSUME Init PROVE StoppedInv
  OBVIOUS
<1>1. NodeTypes /\ DiskTypes /\ IndexTypes
  <2>1. /\ up = "up" /\ closed = FALSE /\ lock = None /\ sem = 0
        /\ shutdown = "no" /\ shutJobs = {} /\ watch = 0 /\ restarts = 0
    BY DEF Init
  <2>2. restarts \in 0..MaxRestarts /\ sem \in Int
    <3>1. restarts = 0 /\ sem = 0
      BY <2>1
    <3> QED
      BY <3>1, BoundsAssumption
  <2>3. NodeTypes
    BY <2>1, <2>2 DEF NodeTypes
  <2> QED
    BY <2>3 DEF Init, DiskTypes, IndexTypes, Idents
<1>2. JobTypes
  BY DEF Init, JobTypes, States, Reasons, Idents, Runners, Procs
<1>3. CallTypes /\ IdTypes
  BY DEF Init, CallTypes, IdTypes, PCs
<1>4. LockHolder /\ BeingStarted /\ FreshIds /\ Supervised
  BY NoneAssumption
     DEF Init, LockHolder, BeingStarted, FreshIds, Supervised, Alive
<1>5. TerminalMeansStopped
  BY DEF Init, TerminalMeansStopped, Terminal, Alive
<1> QED
  BY <1>1, <1>2, <1>3, <1>4, <1>5 DEF StoppedInv, TypeOK

(***************************************************************************)
(* Every step keeps the invariant.                                         *)
(***************************************************************************)
LEMMA StoppedStep == StoppedInv /\ [Next]_vars => StoppedInv'
<1> SUFFICES ASSUME StoppedInv, [Next]_vars PROVE StoppedInv'
  OBVIOUS
<1>1. /\ NodeTypes /\ JobTypes /\ IndexTypes /\ CallTypes /\ DiskTypes
      /\ IdTypes /\ LockHolder /\ BeingStarted /\ FreshIds /\ Supervised
      /\ TerminalMeansStopped /\ TypeOK
  BY DEF StoppedInv, TypeOK
<1>2. TypeOK'
  BY <1>1, TypeStep
<1>3. LockHolder' /\ BeingStarted' /\ FreshIds'
  BY <1>1, LockStep, BeingStartedStep, FreshIdsStep
<1>4. Supervised' /\ TerminalMeansStopped'
  BY <1>1, SupervisedStep, TerminalStep
<1> QED
  BY <1>2, <1>3, <1>4 DEF StoppedInv

(***************************************************************************)
(* The specification keeps its types: no step of the JobManager leaves the *)
(* values that the Go types allow, whatever the limits are and whatever    *)
(* fails.                                                                  *)
(***************************************************************************)
THEOREM TypeCorrect == Spec => []TypeOK
<1>1. Init => StoppedInv
  BY StoppedInit
<1>2. StoppedInv /\ [Next]_vars => StoppedInv'
  BY StoppedStep
<1>3. StoppedInv => TypeOK
  BY DEF StoppedInv
<1> QED
  BY <1>1, <1>2, <1>3, PTL DEF Spec

(***************************************************************************)
(* A terminal job has no live process, over any number of keys, callers,   *)
(* jobs and restarts, and also when the ledger can be neither read nor     *)
(* written.                                                                *)
(***************************************************************************)
THEOREM TerminalIsStopped == Spec => []TerminalMeansStopped
<1>1. Init => StoppedInv
  BY StoppedInit
<1>2. StoppedInv /\ [Next]_vars => StoppedInv'
  BY StoppedStep
<1>3. StoppedInv => TerminalMeansStopped
  BY DEF StoppedInv
<1> QED
  BY <1>1, <1>2, <1>3, PTL DEF Spec

-----------------------------------------------------------------------------
(***************************************************************************)
(* At most one process per key, when the ledger can be read and written.   *)
(***************************************************************************)

(***************************************************************************)
(* Until the restored manager is up nothing but the restore changes it:    *)
(* the callers, supervisors, watchers and CancelAll of the old process are *)
(* gone.                                                                   *)
(***************************************************************************)
LEMMA NotYetUpStep ==
    ASSUME CallTypes, JobTypes, LockHolder, Supervised, NotYetUp, [Next]_vars
    PROVE  NotYetUp'
<1> USE DEF nodeVars, closeVars, jobVars, indexVars, callVars, diskVars,
            idVars, histVars
<1>1. ASSUME NEW c \in Callers, Refuse(c) PROVE NotYetUp'
  BY <1>1, NoneAssumption DEF Refuse, LockHolder, AtEntry, NotYetUp
<1>2. ASSUME NEW c \in Callers, Replay(c) PROVE NotYetUp'
  BY <1>2, NoneAssumption DEF Replay, LockHolder, AtEntry, NotYetUp
<1>3. ASSUME NEW c \in Callers, Await(c) PROVE NotYetUp'
  BY <1>3, NoneAssumption DEF Await, LockHolder, AtEntry, NotYetUp
<1>4. ASSUME NEW c \in Callers, Reserve(c) PROVE NotYetUp'
  BY <1>4, NoneAssumption DEF Reserve, LockHolder, AtEntry, NotYetUp
<1>5. ASSUME NEW c \in Callers, PrepareFails(c) PROVE NotYetUp'
  BY <1>5, NoneAssumption DEF PrepareFails, LockHolder, AtEntry, NotYetUp
<1>6. ASSUME NEW c \in Callers, PersistStarting(c) PROVE NotYetUp'
  BY <1>6, NoneAssumption DEF PersistStarting, LockHolder, AtEntry, NotYetUp
<1>7. ASSUME NEW c \in Callers, Launch(c) PROVE NotYetUp'
  BY <1>7, NoneAssumption DEF Launch, LockHolder, AtEntry, NotYetUp
<1>8. ASSUME NEW c \in Callers, LaunchFails(c) PROVE NotYetUp'
  BY <1>8, NoneAssumption DEF LaunchFails, LockHolder, AtEntry, NotYetUp
<1>9. ASSUME NEW c \in Callers, Record(c) PROVE NotYetUp'
  BY <1>9, NoneAssumption DEF Record, LockHolder, NotYetUp
<1>10. ASSUME NEW c \in Callers, RecordFails(c) PROVE NotYetUp'
  BY <1>10, NoneAssumption DEF RecordFails, LockHolder, AtEntry, NotYetUp
<1>11. ASSUME NEW c \in Callers, KillUnrecorded(c) PROVE NotYetUp'
  BY <1>11, NoneAssumption DEF KillUnrecorded, LockHolder, AtEntry, NotYetUp
<1>12. ASSUME NEW c \in Callers, Abort(c) PROVE NotYetUp'
  BY <1>12, NoneAssumption DEF Abort, LockHolder, AtEntry, NotYetUp
<1>13. ASSUME NEW c \in Callers, Release(c) PROVE NotYetUp'
  BY <1>13, NoneAssumption DEF Release, LockHolder, AtEntry, NotYetUp
<1>14. ASSUME NEW c \in Callers, NEW k \in Keys, NEW s \in Specs, Call(c, k, s)
     PROVE  NotYetUp'
  BY <1>14 DEF Call, NotYetUp
<1>15. ASSUME NEW c \in Callers,
        \/ GiveUp(c) \/ Answered(c)
     PROVE  NotYetUp'
  BY <1>15 DEF GiveUp, Answered, NotYetUp
<1>16. ASSUME NEW j \in Jobs, Finish(j) PROVE NotYetUp'
  BY <1>16 DEF Finish, Supervised, NotYetUp
<1>17. ASSUME NEW j \in Jobs, PersistFinished(j) PROVE NotYetUp'
  BY <1>17 DEF PersistFinished, Supervised, NotYetUp
<1>18. ASSUME NEW j \in Jobs, RecoverUnknown(j) PROVE NotYetUp'
  BY <1>18 DEF RecoverUnknown, NotYetUp
<1>19. ASSUME NEW j \in Jobs, WatchTerminal(j) PROVE NotYetUp'
  BY <1>19 DEF WatchTerminal, NotYetUp
<1>20. ASSUME NEW j \in Jobs, RestoreRecord(j) PROVE NotYetUp'
  BY <1>20 DEF RestoreRecord, ConfirmStopped, NotConfirmed, JobTypes, NotYetUp
<1>21. ASSUME NEW j \in Jobs,
        \/ Exit(j) \/ TakeStop(j) \/ TimeOut(j) \/ Reap(j) \/ FreeSlot(j)
        \/ Cancel(j)
     PROVE  NotYetUp'
  BY <1>21 DEF Exit, TakeStop, TimeOut, Reap, FreeSlot, Cancel, NotYetUp
<1>22. CASE WatchReturn
  BY <1>22 DEF WatchReturn, Write, WriteFails, NotYetUp
<1>23. CASE CancelAll
  BY <1>23 DEF CancelAll, NotYetUp
<1>24. CASE CancelAllReturns
  BY <1>24 DEF CancelAllReturns, Write, WriteFails, NotYetUp
<1>25. CASE CancelAllTimesOut
  BY <1>25 DEF CancelAllTimesOut, NotYetUp
<1>26. CASE Maintenance
  BY <1>26 DEF Maintenance, NotYetUp
<1>27. CASE Crash
  BY <1>27 DEF Crash, NotYetUp
<1>28. CASE Load
  BY <1>28 DEF Load, NotYetUp
<1>29. CASE Restored
  BY <1>29 DEF Restored, NotYetUp
<1>30. CASE UNCHANGED vars
  BY <1>30 DEF vars, NotYetUp
<1> QED
  BY <1>1, <1>2, <1>3, <1>4, <1>5, <1>6, <1>7, <1>8, <1>9, <1>10, <1>11, <1>12,
     <1>13, <1>14, <1>15, <1>16, <1>17, <1>18, <1>19, <1>20, <1>21, <1>22,
     <1>23, <1>24, <1>25, <1>26, <1>27, <1>28, <1>29, <1>30
     DEF Next, CallerStep, RunnerStep, RestoreStep

(***************************************************************************)
(* A reservation is given to one caller and ended only by it.              *)
(***************************************************************************)
LEMMA HoldsKeyStep ==
    ASSUME CallTypes, IndexTypes, HoldsKey, [Next]_vars
    PROVE  HoldsKey'
<1> USE DEF nodeVars, closeVars, jobVars, indexVars, callVars, diskVars,
            idVars, histVars
<1>1. ASSUME NEW c \in Callers, NEW k \in Keys, NEW s \in Specs, Call(c, k, s)
     PROVE  HoldsKey'
  BY <1>1 DEF Call, Goto, CallTypes, HoldsKey
<1>2. ASSUME NEW c \in Callers, Refuse(c) PROVE HoldsKey'
  BY <1>2, NoneAssumption DEF Refuse, Return, Goto, CallTypes, AtEntry,
                              IndexTypes, HoldsKey
<1>3. ASSUME NEW c \in Callers, Replay(c) PROVE HoldsKey'
  BY <1>3, NoneAssumption DEF Replay, Return, Goto, CallTypes, AtEntry,
                              IndexTypes, HoldsKey
<1>4. ASSUME NEW c \in Callers, Await(c) PROVE HoldsKey'
  BY <1>4, NoneAssumption DEF Await, Return, Goto, CallTypes, AtEntry,
                              IndexTypes, HoldsKey
<1>5. ASSUME NEW c \in Callers, Reserve(c) PROVE HoldsKey'
  BY <1>5, NoneAssumption DEF Reserve, Return, Goto, CallTypes, AtEntry,
                              IndexTypes, WriteFails, HoldsKey
<1>6. ASSUME NEW c \in Callers, PrepareFails(c) PROVE HoldsKey'
  BY <1>6, NoneAssumption DEF PrepareFails, Goto, CallTypes, AtEntry,
                              IndexTypes, HoldsKey
<1>7. ASSUME NEW c \in Callers, PersistStarting(c) PROVE HoldsKey'
  BY <1>7, NoneAssumption DEF PersistStarting, Goto, CallTypes, AtEntry,
                              IndexTypes, HoldsKey
<1>8. ASSUME NEW c \in Callers, Launch(c) PROVE HoldsKey'
  BY <1>8, NoneAssumption DEF Launch, Goto, CallTypes, AtEntry, IndexTypes,
                              HoldsKey
<1>9. ASSUME NEW c \in Callers, LaunchFails(c) PROVE HoldsKey'
  BY <1>9, NoneAssumption DEF LaunchFails, Goto, CallTypes, AtEntry,
                              IndexTypes, HoldsKey
<1>10. ASSUME NEW c \in Callers, Record(c) PROVE HoldsKey'
  BY <1>10, NoneAssumption DEF Record, EndReservation, CallTypes, AtEntry,
                              IndexTypes, HoldsKey
<1>11. ASSUME NEW c \in Callers, RecordFails(c) PROVE HoldsKey'
  BY <1>11, NoneAssumption DEF RecordFails, Goto, CallTypes, AtEntry,
                              IndexTypes, HoldsKey
<1>12. ASSUME NEW c \in Callers, KillUnrecorded(c) PROVE HoldsKey'
  BY <1>12, NoneAssumption DEF KillUnrecorded, Goto, CallTypes, AtEntry,
                              IndexTypes, HoldsKey
<1>13. ASSUME NEW c \in Callers, Abort(c) PROVE HoldsKey'
  BY <1>13, NoneAssumption DEF Abort, Goto, EndReservation, CallTypes, AtEntry,
                              IndexTypes, HoldsKey
<1>14. ASSUME NEW c \in Callers, Release(c) PROVE HoldsKey'
  BY <1>14, NoneAssumption DEF Release, Return, Goto, CallTypes, AtEntry,
                              IndexTypes, HoldsKey
<1>15. ASSUME NEW c \in Callers, GiveUp(c) PROVE HoldsKey'
  BY <1>15, NoneAssumption DEF GiveUp, Return, Goto, CallTypes, AtEntry,
                              IndexTypes, HoldsKey
<1>16. ASSUME NEW c \in Callers, Answered(c) PROVE HoldsKey'
  BY <1>16, NoneAssumption DEF Answered, Return, Goto, CallTypes, AtEntry,
                              IndexTypes, HoldsKey
<1>17. ASSUME NEW j \in Jobs, RestoreRecord(j) PROVE HoldsKey'
  BY <1>17 DEF RestoreRecord, HoldsKey
<1>18. ASSUME NEW j \in Jobs,
        \/ Exit(j) \/ TakeStop(j) \/ TimeOut(j) \/ Reap(j) \/ Finish(j)
        \/ PersistFinished(j) \/ FreeSlot(j) \/ RecoverUnknown(j)
        \/ WatchTerminal(j) \/ Cancel(j)
     PROVE  HoldsKey'
  BY <1>18 DEF Exit, TakeStop, TimeOut, Reap, Finish, PersistFinished, FreeSlot,
              RecoverUnknown, WatchTerminal, Cancel, HoldsKey
<1>19. CASE Crash
  BY <1>19 DEF Crash, HoldsKey
<1>20. CASE
        \/ WatchReturn \/ CancelAll \/ CancelAllReturns \/ CancelAllTimesOut
        \/ Maintenance \/ Load \/ Restored
  BY <1>20 DEF WatchReturn, CancelAll, CancelAllReturns, CancelAllTimesOut,
              Maintenance, Load, Restored, HoldsKey
<1>21. CASE UNCHANGED vars
  BY <1>21 DEF vars, HoldsKey
<1> QED
  BY <1>1, <1>2, <1>3, <1>4, <1>5, <1>6, <1>7, <1>8, <1>9, <1>10, <1>11, <1>12,
     <1>13, <1>14, <1>15, <1>16, <1>17, <1>18, <1>19, <1>20, <1>21
     DEF Next, CallerStep, RunnerStep, RestoreStep

(***************************************************************************)
(* A start is undone only after a failed save.                             *)
(***************************************************************************)
LEMMA NothingUndoneStep ==
    ASSUME Faults = {}, CallTypes, NothingUndone, [Next]_vars
    PROVE  NothingUndone'
<1> USE DEF nodeVars, closeVars, jobVars, indexVars, callVars, diskVars,
            idVars, histVars
<1>1. ASSUME NEW c \in Callers, Reserve(c) \/ PersistStarting(c) \/ Record(c) \/ Abort(c)
      PROVE  NothingUndone'
  BY <1>1 DEF Reserve, PersistStarting, Record, Abort, EndReservation, Return,
              Goto, CallTypes, NothingUndone
<1>2. ASSUME NEW c \in Callers, RecordFails(c) PROVE NothingUndone'
  BY <1>2 DEF RecordFails, WriteFails
<1>3. ASSUME NEW c \in Callers,
             \/ \E k \in Keys, s \in Specs : Call(c, k, s)
             \/ Refuse(c) \/ Replay(c) \/ Await(c) \/ PrepareFails(c) \/ Launch(c)
             \/ LaunchFails(c) \/ KillUnrecorded(c) \/ Release(c) \/ GiveUp(c)
             \/ Answered(c)
      PROVE  NothingUndone'
  BY <1>3 DEF Call, Refuse, Replay, Await, PrepareFails, Launch, LaunchFails,
              KillUnrecorded, Release, GiveUp, Answered, Return, Goto, CallTypes,
              NothingUndone
<1>4. ASSUME NEW j \in Jobs,
        \/ Exit(j) \/ TakeStop(j) \/ TimeOut(j) \/ Reap(j) \/ Finish(j)
        \/ PersistFinished(j) \/ FreeSlot(j) \/ RecoverUnknown(j)
        \/ WatchTerminal(j) \/ Cancel(j) \/ RestoreRecord(j)
      PROVE  NothingUndone'
  BY <1>4 DEF Exit, TakeStop, TimeOut, Reap, Finish, PersistFinished, FreeSlot,
              RecoverUnknown, WatchTerminal, Cancel, RestoreRecord, NothingUndone
<1>5. CASE
        \/ WatchReturn \/ CancelAll \/ CancelAllReturns \/ CancelAllTimesOut
        \/ Maintenance \/ Crash \/ Load \/ Restored \/ UNCHANGED vars
  BY <1>5 DEF WatchReturn, CancelAll, CancelAllReturns, CancelAllTimesOut,
              Maintenance, Crash, Load, Restored, vars, NothingUndone
<1> QED
  BY <1>1, <1>2, <1>3, <1>4, <1>5
     DEF Next, CallerStep, RunnerStep, RestoreStep

(***************************************************************************)
(* Every job of m.jobs is the one that m.idempotency finds for its key: a  *)
(* start takes a key without a job, retention deletes the entry with the   *)
(* job, and the restore finds one record per key.                          *)
(***************************************************************************)
LEMMA IndexedStep ==
    ASSUME Faults = {}, JobTypes, IndexTypes, CallTypes, IdTypes, BeingStarted,
           FreshIds, Supervised, NotYetUp, HoldsKey, OneRecordPerKey, Indexed,
           [Next]_vars
    PROVE  Indexed'
<1> USE DEF nodeVars, closeVars, jobVars, indexVars, callVars, diskVars,
            idVars, histVars
<1>1. ASSUME NEW c \in Callers, Reserve(c) PROVE Indexed'
  <2>1. PICK gone \in SUBSET Removable : Cleanup(gone)
    BY <1>1 DEF Reserve
  <2>2. \A j \in Jobs : state'[j] # "none" => state[j] # "none" /\ j \notin gone
    BY <2>1 DEF Cleanup, Without
  <2>3. \A g \in gone : g \in Jobs /\ state[g] # "none"
    BY DEF Removable, Terminal
  <2>4. \A k \in Keys : idem'[k] = 0 \/ idem'[k] = idem[k]
    BY <2>1 DEF Cleanup
  <2>5. \A j \in Jobs : state'[j] # "none" => idem'[keyOf[j]] = j
    BY <2>1, <2>2, <2>3 DEF Cleanup, Indexed
  <2>6. \A k \in Keys : starting'[k] # None => idem'[k] = 0
    BY <1>1, <2>4 DEF Reserve, Indexed, IndexTypes
  <2> QED
    BY <1>1, <2>2, <2>5, <2>6 DEF Reserve, Indexed
<1>2. ASSUME NEW c \in Callers, PersistStarting(c) PROVE Indexed'
  BY <1>2 DEF PersistStarting, FreshIds, IdTypes, Jobs, Indexed
<1>3. ASSUME NEW c \in Callers, Record(c) PROVE Indexed'
  <2> DEFINE j == cjob[c]
  <2>1. /\ j \in Jobs /\ j # 0 /\ ckey[c] \in Keys /\ keyOf[j] = ckey[c]
        /\ c # None /\ starting[ckey[c]] = c
    BY <1>3, NoneAssumption DEF Record, BeingStarted, HoldsKey, Jobs
  <2>2. \A i \in Jobs : state[i] # "none" => keyOf[i] # ckey[c] /\ i # j
    <3>1. idem[ckey[c]] = 0
      BY <2>1 DEF Indexed
    <3>2. \A i \in Jobs : i # 0
      BY DEF Jobs
    <3> QED
      BY <1>3, <3>1, <3>2 DEF Record, BeingStarted, Indexed
  <2>3. /\ \A i \in Jobs : i # j => state'[i] = state[i]
        /\ idem'[ckey[c]] = j
        /\ \A k \in Keys : k # ckey[c] => /\ idem'[k] = idem[k]
                                          /\ starting'[k] = starting[k]
        /\ starting'[ckey[c]] = None /\ keyOf' = keyOf
    BY <1>3, <2>1 DEF Record, EndReservation, JobTypes, IndexTypes
  <2> QED
    BY <2>1, <2>2, <2>3 DEF Indexed
<1>4. ASSUME NEW c \in Callers, Abort(c) PROVE Indexed'
  BY <1>4 DEF Abort, Goto, EndReservation, IndexTypes, Indexed
<1>5. ASSUME NEW c \in Callers, NEW k \in Keys, NEW s \in Specs, Call(c, k, s)
     PROVE  Indexed'
  BY <1>5 DEF Call, Indexed
<1>6. ASSUME NEW c \in Callers,
        \/ Refuse(c) \/ Replay(c) \/ Await(c) \/ PrepareFails(c) \/ Launch(c)
        \/ LaunchFails(c) \/ RecordFails(c) \/ KillUnrecorded(c)
        \/ Release(c) \/ GiveUp(c) \/ Answered(c)
     PROVE  Indexed'
  BY <1>6 DEF Refuse, Replay, Await, PrepareFails, Launch, LaunchFails,
              RecordFails, KillUnrecorded, Release, GiveUp, Answered, Indexed
<1>7. ASSUME NEW j \in Jobs, Finish(j) PROVE Indexed'
  BY <1>7 DEF Finish, Supervised, JobTypes, Indexed
<1>8. ASSUME NEW j \in Jobs, RecoverUnknown(j) PROVE Indexed'
  BY <1>8 DEF RecoverUnknown, JobTypes, Indexed
<1>9. ASSUME NEW j \in Jobs, RestoreRecord(j) PROVE Indexed'
  <2>1. /\ dstate[j] # "none" /\ keyOf[j] \in Keys
        /\ \A k \in Keys : starting'[k] = None
        /\ keyOf' = keyOf
    BY <1>9 DEF RestoreRecord, NotYetUp, OneRecordPerKey
  <2>2. \A i \in Jobs : i # j /\ state'[i] # "none" =>
            /\ state[i] # "none" /\ dstate[i] # "none"
            /\ keyOf[i] # keyOf[j]
    BY <1>9, <2>1 DEF RestoreRecord, NotYetUp, OneRecordPerKey, JobTypes
  <2>3. /\ idem'[keyOf[j]] = j
        /\ \A k \in Keys : k # keyOf[j] => idem'[k] = idem[k]
    BY <1>9, <2>1 DEF RestoreRecord, IndexTypes
  <2> QED
    BY <2>1, <2>2, <2>3 DEF Indexed
<1>10. ASSUME NEW j \in Jobs,
        \/ Exit(j) \/ TakeStop(j) \/ TimeOut(j) \/ Reap(j)
        \/ PersistFinished(j) \/ FreeSlot(j) \/ WatchTerminal(j) \/ Cancel(j)
     PROVE  Indexed'
  BY <1>10 DEF Exit, TakeStop, TimeOut, Reap, PersistFinished, FreeSlot,
              WatchTerminal, Cancel, Indexed
<1>11. CASE Maintenance
  <2>1. PICK gone \in SUBSET Removable : Cleanup(gone)
    BY <1>11 DEF Maintenance
  <2>2. \A j \in Jobs : state'[j] # "none" => state[j] # "none" /\ j \notin gone
    BY <2>1 DEF Cleanup, Without
  <2>3. \A g \in gone : g \in Jobs /\ state[g] # "none"
    BY DEF Removable, Terminal
  <2>4. \A k \in Keys : idem'[k] = 0 \/ idem'[k] = idem[k]
    BY <2>1 DEF Cleanup
  <2>5. \A j \in Jobs : state'[j] # "none" => idem'[keyOf[j]] = j
    BY <2>1, <2>2, <2>3 DEF Cleanup, Indexed
  <2>6. \A k \in Keys : starting'[k] # None => idem'[k] = 0
    BY <1>11, <2>4 DEF Maintenance, Indexed
  <2> QED
    BY <1>11, <2>2, <2>5, <2>6 DEF Maintenance, Indexed
<1>12. CASE Crash
  BY <1>12 DEF Crash, Indexed
<1>13. CASE
        \/ WatchReturn \/ CancelAll \/ CancelAllReturns \/ CancelAllTimesOut
        \/ Load \/ Restored
  BY <1>13 DEF WatchReturn, CancelAll, CancelAllReturns, CancelAllTimesOut,
              Load, Restored, Indexed
<1>14. CASE UNCHANGED vars
  BY <1>14 DEF vars, Indexed
<1> QED
  BY <1>1, <1>2, <1>3, <1>4, <1>5, <1>6, <1>7, <1>8, <1>9, <1>10, <1>11, <1>12,
     <1>13, <1>14
     DEF Next, CallerStep, RunnerStep, RestoreStep

(***************************************************************************)
(* What is saved is m.jobs and at most the job of the reservation, so the  *)
(* ledger has one record per key.                                          *)
(***************************************************************************)
LEMMA OneRecordStep ==
    ASSUME Faults = {}, JobTypes, CallTypes, IdTypes, BeingStarted, FreshIds,
           HoldsKey, Indexed, OneRecordPerKey, [Next]_vars
    PROVE  OneRecordPerKey'
<1> USE DEF nodeVars, closeVars, jobVars, indexVars, callVars, diskVars,
            idVars, histVars
<1>1. ASSUME NEW c \in Callers, Reserve(c) PROVE OneRecordPerKey'
  BY <1>1 DEF Reserve, Cleanup, Without, Write, WriteFails, Indexed,
              OneRecordPerKey
<1>2. ASSUME NEW c \in Callers, PersistStarting(c) PROVE OneRecordPerKey'
  <2> DEFINE j == lastId + 1
  <2>1. /\ j \in Jobs /\ state[j] = "none" /\ ckey[c] \in Keys
        /\ starting[ckey[c]] = c /\ c # None /\ pc[c] # "idle"
    BY <1>2, NoneAssumption
       DEF PersistStarting, FreshIds, IdTypes, Jobs, CallTypes, HoldsKey
  <2>2. /\ keyOf'[j] = ckey[c]
        /\ \A i \in Jobs : i # j => keyOf'[i] = keyOf[i]
    BY <1>2, <2>1 DEF PersistStarting, IdTypes
  <2>3. \A i \in Jobs : i # j /\ dstate'[i] # "none" => state[i] # "none"
    BY <1>2, <2>1 DEF PersistStarting, Write, WriteFails, WithStarting, JobTypes
  <2>4. \A i \in Jobs : state[i] # "none" => keyOf[i] # ckey[c]
    <3>1. idem[ckey[c]] = 0 /\ \A i \in Jobs : i # 0
      BY <2>1 DEF Indexed, Jobs
    <3> QED
      BY <3>1 DEF Indexed
  <2> QED
    BY <2>1, <2>2, <2>3, <2>4 DEF OneRecordPerKey, Indexed
<1>3. ASSUME NEW c \in Callers, LaunchFails(c) PROVE OneRecordPerKey'
  BY <1>3 DEF LaunchFails, Persist, Write, WriteFails, Indexed, OneRecordPerKey
<1>4. ASSUME NEW c \in Callers, Record(c) PROVE OneRecordPerKey'
  <2> DEFINE j == cjob[c]
  <2>1. /\ j \in Jobs /\ ckey[c] \in Keys /\ keyOf[j] = ckey[c]
        /\ starting[ckey[c]] = c /\ c # None
    BY <1>4, NoneAssumption DEF Record, BeingStarted, HoldsKey
  <2>2. \A i \in Jobs : i # j /\ dstate'[i] # "none" => state[i] # "none"
    BY <1>4, <2>1 DEF Record, Write, JobTypes
  <2>3. \A i \in Jobs : state[i] # "none" => keyOf[i] # ckey[c]
    <3>1. idem[ckey[c]] = 0 /\ \A i \in Jobs : i # 0
      BY <2>1 DEF Indexed, Jobs
    <3> QED
      BY <3>1 DEF Indexed
  <2>4. keyOf' = keyOf
    BY <1>4 DEF Record
  <2> QED
    BY <2>1, <2>2, <2>3, <2>4 DEF OneRecordPerKey, Indexed
<1>5. ASSUME NEW c \in Callers, RecordFails(c) PROVE OneRecordPerKey'
  BY <1>5 DEF RecordFails, WriteFails, OneRecordPerKey
<1>6. ASSUME NEW c \in Callers, NEW k \in Keys, NEW s \in Specs, Call(c, k, s)
     PROVE  OneRecordPerKey'
  BY <1>6 DEF Call, OneRecordPerKey
<1>7. ASSUME NEW c \in Callers,
        \/ Refuse(c) \/ Replay(c) \/ Await(c) \/ PrepareFails(c) \/ Launch(c)
        \/ KillUnrecorded(c) \/ Abort(c) \/ Release(c) \/ GiveUp(c)
        \/ Answered(c)
     PROVE  OneRecordPerKey'
  BY <1>7 DEF Refuse, Replay, Await, PrepareFails, Launch, KillUnrecorded,
              Abort, Release, GiveUp, Answered, OneRecordPerKey
<1>8. ASSUME NEW j \in Jobs, PersistFinished(j) PROVE OneRecordPerKey'
  BY <1>8 DEF PersistFinished, Persist, Write, WriteFails, Indexed,
              OneRecordPerKey
<1>9. ASSUME NEW j \in Jobs,
        \/ Exit(j) \/ TakeStop(j) \/ TimeOut(j) \/ Reap(j) \/ Finish(j)
        \/ FreeSlot(j) \/ RecoverUnknown(j) \/ WatchTerminal(j) \/ Cancel(j)
        \/ RestoreRecord(j)
     PROVE  OneRecordPerKey'
  BY <1>9 DEF Exit, TakeStop, TimeOut, Reap, Finish, FreeSlot, RecoverUnknown,
              WatchTerminal, Cancel, RestoreRecord, OneRecordPerKey
<1>10. CASE WatchReturn
  BY <1>10 DEF WatchReturn, Persist, Write, WriteFails, Indexed, OneRecordPerKey
<1>11. CASE CancelAllReturns
  BY <1>11 DEF CancelAllReturns, Persist, Write, WriteFails, Indexed,
              OneRecordPerKey
<1>12. CASE Maintenance
  BY <1>12 DEF Maintenance, Cleanup, Without, Persist, Write, WriteFails,
              Indexed, OneRecordPerKey
<1>13. CASE Restored
  BY <1>13 DEF Restored, Persist, Write, WriteFails, Indexed, OneRecordPerKey
<1>14. CASE
        \/ CancelAll \/ CancelAllTimesOut \/ Crash \/ Load
  BY <1>14 DEF CancelAll, CancelAllTimesOut, Crash, Load, OneRecordPerKey
<1>15. CASE UNCHANGED vars
  BY <1>15 DEF vars, OneRecordPerKey
<1> QED
  BY <1>1, <1>2, <1>3, <1>4, <1>5, <1>6, <1>7, <1>8, <1>9, <1>10, <1>11, <1>12,
     <1>13, <1>14, <1>15
     DEF Next, CallerStep, RunnerStep, RestoreStep

(***************************************************************************)
(* A process is in the ledger before it exists, and no save drops it       *)
(* unless retention removed its job.                                       *)
(***************************************************************************)
LEMMA RememberedStep ==
    ASSUME Faults = {}, JobTypes, CallTypes, LockHolder, BeingStarted,
           Supervised, NotYetUp, HoldsKey, NothingUndone,
           Remembered, [Next]_vars
    PROVE  Remembered'
<1> USE DEF nodeVars, closeVars, jobVars, indexVars, callVars, diskVars,
            idVars, histVars
<1>1. ASSUME NEW c \in Callers, NEW k \in Keys, NEW s \in Specs, Call(c, k, s)
     PROVE  Remembered'
  BY <1>1 DEF Call, Goto, CallTypes, Remembered
<1>2. ASSUME NEW c \in Callers, Refuse(c) PROVE Remembered'
  BY <1>2 DEF Refuse, Return, Goto, CallTypes, AtEntry, Remembered
<1>3. ASSUME NEW c \in Callers, Replay(c) PROVE Remembered'
  BY <1>3 DEF Replay, Return, Goto, CallTypes, AtEntry, Remembered
<1>4. ASSUME NEW c \in Callers, Await(c) PROVE Remembered'
  BY <1>4 DEF Await, Return, Goto, CallTypes, AtEntry, Remembered
<1>5. ASSUME NEW c \in Callers, Reserve(c) PROVE Remembered'
  <2>1. up = "up" /\ lock = None
    BY <1>5, NoneAssumption DEF Reserve, AtEntry
  <2>2. \A i \in Jobs : proc[i] # "none" /\ i \notin evicted
            => state[i] # "none" /\ dstate[i] # "none"
    BY <2>1, NoneAssumption DEF Remembered, LockHolder
  <2>3. PICK gone \in SUBSET Removable : Cleanup(gone) /\ Write(Without(gone))
    BY <1>5 DEF Reserve, Persist, WriteFails
  <2>4. \A i \in Jobs : proc'[i] # "none" /\ i \notin evicted'
            => state'[i] # "none" /\ dstate'[i] # "none"
    BY <1>5, <2>2, <2>3 DEF Reserve, Cleanup, Without, Write
  <2> QED
    BY <2>4 DEF Remembered
<1>6. ASSUME NEW c \in Callers, PrepareFails(c) PROVE Remembered'
  BY <1>6 DEF PrepareFails, Goto, CallTypes, AtEntry, Remembered
<1>7. ASSUME NEW c \in Callers, PersistStarting(c) PROVE Remembered'
  <2>1. up = "up" /\ lock = None
    BY <1>7, NoneAssumption DEF PersistStarting, LockHolder
  <2>2. \A i \in Jobs : proc[i] # "none" /\ i \notin evicted
            => state[i] # "none" /\ dstate[i] # "none"
    BY <2>1, NoneAssumption DEF Remembered, LockHolder
  <2>3. \A i \in Jobs : proc'[i] # "none" /\ i \notin evicted'
            => state'[i] # "none" /\ dstate'[i] # "none"
    BY <1>7, <2>2 DEF PersistStarting, Write, WriteFails, WithStarting, JobTypes
  <2> QED
    BY <2>3 DEF Remembered
<1>8. ASSUME NEW c \in Callers, Launch(c) PROVE Remembered'
  BY <1>8 DEF Launch, Goto, BeingStarted, JobTypes, CallTypes, Remembered
<1>9. ASSUME NEW c \in Callers, LaunchFails(c) PROVE Remembered'
  <2>1. up = "up" /\ \A d \in Callers : pc[d] # "recording"
    BY <1>9, NoneAssumption DEF LaunchFails, LockHolder
  <2> QED
    BY <1>9, <2>1 DEF LaunchFails, Persist, Write, WriteFails, Remembered
<1>10. ASSUME NEW c \in Callers, Record(c) PROVE Remembered'
  <2>1. /\ up = "up" /\ cjob[c] \in Jobs
        /\ \A d \in Callers : pc[d] = "recording" => d = c
    BY <1>10, NoneAssumption DEF Record, LockHolder, BeingStarted
  <2>2. \A i \in Jobs : proc'[i] # "none" /\ i \notin evicted'
            => state'[i] # "none" /\ dstate'[i] # "none"
    BY <1>10, <2>1 DEF Record, Write, JobTypes, Remembered
  <2> QED
    BY <2>2 DEF Remembered
<1>11. ASSUME NEW c \in Callers, RecordFails(c) PROVE Remembered'
  BY <1>11 DEF RecordFails, WriteFails, Remembered
<1>12. ASSUME NEW c \in Callers, KillUnrecorded(c) PROVE Remembered'
  BY <1>12 DEF KillUnrecorded, NothingUndone, Remembered
<1>13. ASSUME NEW c \in Callers, Abort(c) PROVE Remembered'
  BY <1>13 DEF Abort, Goto, EndReservation, CallTypes, AtEntry, Remembered
<1>14. ASSUME NEW c \in Callers, Release(c) PROVE Remembered'
  BY <1>14 DEF Release, Return, Goto, CallTypes, AtEntry, Remembered
<1>15. ASSUME NEW c \in Callers, GiveUp(c) PROVE Remembered'
  BY <1>15 DEF GiveUp, Return, Goto, CallTypes, AtEntry, Remembered
<1>16. ASSUME NEW c \in Callers, Answered(c) PROVE Remembered'
  BY <1>16 DEF Answered, Return, Goto, CallTypes, AtEntry, Remembered
<1>17. ASSUME NEW j \in Jobs, Exit(j) PROVE Remembered'
  BY <1>17 DEF Exit, Alive, JobTypes, Alive, Remembered
<1>18. ASSUME NEW j \in Jobs, TakeStop(j) PROVE Remembered'
  <2>1. \A i \in Jobs : proc'[i] # "none" => proc[i] # "none"
    BY <1>18 DEF TakeStop, Killed, JobTypes
  <2> QED
    BY <1>18, <2>1 DEF TakeStop, Remembered
<1>19. ASSUME NEW j \in Jobs, TimeOut(j) PROVE Remembered'
  BY <1>19 DEF TimeOut, SetStopReason, Killed, JobTypes, Alive, Remembered
<1>20. ASSUME NEW j \in Jobs, Reap(j) PROVE Remembered'
  BY <1>20 DEF Reap, Remembered
<1>21. ASSUME NEW j \in Jobs, Finish(j) PROVE Remembered'
  BY <1>21 DEF Finish, JobTypes, Supervised, Outcome, Remembered
<1>22. ASSUME NEW j \in Jobs, PersistFinished(j) PROVE Remembered'
  <2>1. up = "up" /\ lock = None
    BY <1>22, NoneAssumption DEF PersistFinished, Supervised
  <2>2. \A i \in Jobs : proc[i] # "none" /\ i \notin evicted
            => state[i] # "none" /\ dstate[i] # "none"
    BY <2>1, NoneAssumption DEF Remembered, LockHolder
  <2>3. \A i \in Jobs : proc'[i] # "none" /\ i \notin evicted'
            => state'[i] # "none" /\ dstate'[i] # "none"
    BY <1>22, <2>2 DEF PersistFinished, Persist, Write, WriteFails
  <2> QED
    BY <2>3 DEF Remembered
<1>23. ASSUME NEW j \in Jobs, FreeSlot(j) PROVE Remembered'
  BY <1>23 DEF FreeSlot, Remembered
<1>24. ASSUME NEW j \in Jobs, RecoverUnknown(j) PROVE Remembered'
  BY <1>24 DEF RecoverUnknown, ConfirmStopped, NotConfirmed, JobTypes, Alive,
              Remembered
<1>25. ASSUME NEW j \in Jobs, WatchTerminal(j) PROVE Remembered'
  BY <1>25 DEF WatchTerminal, Remembered
<1>26. ASSUME NEW j \in Jobs, Cancel(j) PROVE Remembered'
  BY <1>26 DEF Cancel, Remembered
<1>27. ASSUME NEW j \in Jobs, RestoreRecord(j) PROVE Remembered'
  BY <1>27 DEF RestoreRecord, ConfirmStopped, NotConfirmed, JobTypes, Alive,
              Remembered
<1>28. CASE WatchReturn
  <2>1. up = "up" /\ lock = None
    BY <1>28, NoneAssumption DEF WatchReturn, NotYetUp
  <2>2. \A i \in Jobs : proc[i] # "none" /\ i \notin evicted
            => state[i] # "none" /\ dstate[i] # "none"
    BY <2>1, NoneAssumption DEF Remembered, LockHolder
  <2>3. \A i \in Jobs : proc'[i] # "none" /\ i \notin evicted'
            => state'[i] # "none" /\ dstate'[i] # "none"
    BY <1>28, <2>2 DEF WatchReturn, Persist, Write, WriteFails
  <2> QED
    BY <2>3 DEF Remembered
<1>29. CASE CancelAllReturns
  <2>1. up = "up" /\ lock = None
    BY <1>29, NoneAssumption DEF CancelAllReturns, NotYetUp
  <2>2. \A i \in Jobs : proc[i] # "none" /\ i \notin evicted
            => state[i] # "none" /\ dstate[i] # "none"
    BY <2>1, NoneAssumption DEF Remembered, LockHolder
  <2>3. \A i \in Jobs : proc'[i] # "none" /\ i \notin evicted'
            => state'[i] # "none" /\ dstate'[i] # "none"
    BY <1>29, <2>2 DEF CancelAllReturns, Persist, Write, WriteFails
  <2> QED
    BY <2>3 DEF Remembered
<1>30. CASE Maintenance
  <2>1. up = "up" /\ lock = None
    BY <1>30, NoneAssumption DEF Maintenance
  <2>2. \A i \in Jobs : proc[i] # "none" /\ i \notin evicted
            => state[i] # "none" /\ dstate[i] # "none"
    BY <2>1, NoneAssumption DEF Remembered, LockHolder
  <2>3. PICK gone \in SUBSET Removable : Cleanup(gone) /\ Write(Without(gone))
    BY <1>30 DEF Maintenance, Persist, WriteFails
  <2>4. \A i \in Jobs : proc'[i] # "none" /\ i \notin evicted'
            => state'[i] # "none" /\ dstate'[i] # "none"
    BY <1>30, <2>2, <2>3 DEF Maintenance, Cleanup, Without, Write
  <2> QED
    BY <2>4 DEF Remembered
<1>31. CASE Crash
  BY <1>31 DEF Crash, Remembered
<1>32. CASE Load
  BY <1>32 DEF Load, Remembered
<1>33. CASE Restored
  <2>1. \A i \in Jobs : proc[i] # "none" /\ i \notin evicted
            => state[i] # "none" /\ dstate[i] # "none"
    BY <1>33 DEF Restored, Remembered
  <2>2. \A i \in Jobs : proc'[i] # "none" /\ i \notin evicted'
            => state'[i] # "none" /\ dstate'[i] # "none"
    BY <1>33, <2>1 DEF Restored, Persist, Write, WriteFails
  <2> QED
    BY <2>2 DEF Remembered
<1>34. CASE
        \/ CancelAll \/ CancelAllTimesOut
  BY <1>34 DEF CancelAll, CancelAllTimesOut, Remembered
<1>35. CASE UNCHANGED vars
  BY <1>35 DEF vars, Remembered
<1> QED
  BY <1>1, <1>2, <1>3, <1>4, <1>5, <1>6, <1>7, <1>8, <1>9, <1>10, <1>11, <1>12,
     <1>13, <1>14, <1>15, <1>16, <1>17, <1>18, <1>19, <1>20, <1>21, <1>22,
     <1>23, <1>24, <1>25, <1>26, <1>27, <1>28, <1>29, <1>30, <1>31, <1>32,
     <1>33, <1>34, <1>35
     DEF Next, CallerStep, RunnerStep, RestoreStep

(***************************************************************************)
(* Retention removes finished jobs only, in memory and in the ledger.      *)
(***************************************************************************)
LEMMA EvictedStep ==
    ASSUME Faults = {}, JobTypes, CallTypes, IdTypes, BeingStarted, FreshIds,
           Supervised, NothingUndone, TerminalMeansStopped, EvictedStopped,
           [Next]_vars
    PROVE  EvictedStopped'
<1> USE DEF nodeVars, closeVars, jobVars, indexVars, callVars, diskVars,
            idVars, histVars
<1>1. ASSUME NEW c \in Callers, Reserve(c) PROVE EvictedStopped'
  <2>1. PICK gone \in SUBSET Removable : Cleanup(gone) /\ Write(Without(gone))
    BY <1>1 DEF Reserve, Persist, WriteFails
  <2>2. \A j \in gone : /\ j \in Jobs /\ ~Alive(proc[j])
                        /\ state'[j] = "none" /\ dstate'[j] = "none"
    BY <2>1 DEF Removable, TerminalMeansStopped, Cleanup, Without, Write
  <2>3. \A j \in gone : j <= lastId
    BY DEF Removable, Terminal, FreshIds, Jobs, IdTypes
  <2>4. \A j \in evicted : state'[j] = "none" /\ dstate'[j] = "none"
    BY <2>1 DEF EvictedStopped, Cleanup, Without, Write, IdTypes
  <2>5. evicted' = evicted \cup gone /\ proc' = proc /\ lastId' = lastId
    BY <1>1, <2>1 DEF Reserve, Cleanup
  <2> QED
    BY <2>2, <2>3, <2>4, <2>5 DEF EvictedStopped, Alive
<1>2. ASSUME NEW c \in Callers, PersistStarting(c) PROVE EvictedStopped'
  <2>1. /\ lastId \in Int /\ lastId' = lastId + 1
        /\ evicted' = evicted /\ proc' = proc /\ state' = state
    BY <1>2 DEF PersistStarting, IdTypes, Jobs
  <2>2. \A j \in evicted : j \in Jobs /\ j <= lastId' /\ j # lastId + 1
    BY <2>1 DEF EvictedStopped, IdTypes, Jobs
  <2>3. \A j \in evicted : dstate'[j] = "none"
    BY <1>2, <2>2 DEF PersistStarting, EvictedStopped, Write, WriteFails,
                      WithStarting, JobTypes
  <2> QED
    BY <2>1, <2>2, <2>3 DEF EvictedStopped, Alive
<1>3. ASSUME NEW c \in Callers, Launch(c) PROVE EvictedStopped'
  BY <1>3 DEF Launch, BeingStarted, JobTypes, IdTypes, Alive, EvictedStopped
<1>4. ASSUME NEW c \in Callers, LaunchFails(c) PROVE EvictedStopped'
  BY <1>4 DEF LaunchFails, Persist, Write, WriteFails, IdTypes, Alive,
              EvictedStopped
<1>5. ASSUME NEW c \in Callers, Record(c) PROVE EvictedStopped'
  BY <1>5 DEF Record, Write, BeingStarted, JobTypes, IdTypes, Alive,
              EvictedStopped
<1>6. ASSUME NEW c \in Callers, RecordFails(c) PROVE EvictedStopped'
  BY <1>6 DEF RecordFails, WriteFails, EvictedStopped
<1>7. ASSUME NEW c \in Callers, KillUnrecorded(c) PROVE EvictedStopped'
  BY <1>7 DEF KillUnrecorded, NothingUndone, EvictedStopped
<1>8. ASSUME NEW c \in Callers, NEW k \in Keys, NEW s \in Specs, Call(c, k, s)
     PROVE  EvictedStopped'
  BY <1>8 DEF Call, EvictedStopped
<1>9. ASSUME NEW c \in Callers,
        \/ Refuse(c) \/ Replay(c) \/ Await(c) \/ PrepareFails(c) \/ Abort(c)
        \/ Release(c) \/ GiveUp(c) \/ Answered(c)
     PROVE  EvictedStopped'
  BY <1>9 DEF Refuse, Replay, Await, PrepareFails, Abort, Release, GiveUp,
              Answered, EvictedStopped
<1>10. ASSUME NEW j \in Jobs, Exit(j) PROVE EvictedStopped'
  BY <1>10 DEF Exit, Alive, JobTypes, IdTypes, Alive, Supervised, EvictedStopped
<1>11. ASSUME NEW j \in Jobs, TakeStop(j) PROVE EvictedStopped'
  BY <1>11 DEF TakeStop, SetStopReason, Killed, JobTypes, IdTypes, Alive,
              Supervised, EvictedStopped
<1>12. ASSUME NEW j \in Jobs, TimeOut(j) PROVE EvictedStopped'
  BY <1>12 DEF TimeOut, SetStopReason, Killed, JobTypes, IdTypes, Alive,
              Supervised, EvictedStopped
<1>13. ASSUME NEW j \in Jobs, Finish(j) PROVE EvictedStopped'
  BY <1>13 DEF Finish, Outcome, JobTypes, IdTypes, Alive, Supervised,
              EvictedStopped
<1>14. ASSUME NEW j \in Jobs, PersistFinished(j) PROVE EvictedStopped'
  BY <1>14 DEF PersistFinished, Persist, Write, WriteFails, IdTypes, Alive,
              EvictedStopped
<1>15. ASSUME NEW j \in Jobs, RecoverUnknown(j) PROVE EvictedStopped'
  BY <1>15 DEF RecoverUnknown, ConfirmStopped, NotConfirmed, JobTypes, IdTypes,
              Alive, EvictedStopped
<1>16. ASSUME NEW j \in Jobs, RestoreRecord(j) PROVE EvictedStopped'
  BY <1>16 DEF RestoreRecord, ConfirmStopped, NotConfirmed, JobTypes, IdTypes,
              Alive, EvictedStopped
<1>17. ASSUME NEW j \in Jobs,
        \/ Reap(j) \/ FreeSlot(j) \/ WatchTerminal(j) \/ Cancel(j)
     PROVE  EvictedStopped'
  BY <1>17 DEF Reap, FreeSlot, WatchTerminal, Cancel, EvictedStopped
<1>18. CASE WatchReturn
  BY <1>18 DEF WatchReturn, Persist, Write, WriteFails, IdTypes, Alive,
              EvictedStopped
<1>19. CASE CancelAllReturns
  BY <1>19 DEF CancelAllReturns, Persist, Write, WriteFails, IdTypes, Alive,
              EvictedStopped
<1>20. CASE Maintenance
  <2>1. PICK gone \in SUBSET Removable : Cleanup(gone) /\ Write(Without(gone))
    BY <1>20 DEF Maintenance, Persist, WriteFails
  <2>2. \A j \in gone : /\ j \in Jobs /\ ~Alive(proc[j])
                        /\ state'[j] = "none" /\ dstate'[j] = "none"
    BY <2>1 DEF Removable, TerminalMeansStopped, Cleanup, Without, Write
  <2>3. \A j \in gone : j <= lastId
    BY DEF Removable, Terminal, FreshIds, Jobs, IdTypes
  <2>4. \A j \in evicted : state'[j] = "none" /\ dstate'[j] = "none"
    BY <2>1 DEF EvictedStopped, Cleanup, Without, Write, IdTypes
  <2>5. evicted' = evicted \cup gone /\ proc' = proc /\ lastId' = lastId
    BY <1>20, <2>1 DEF Maintenance, Cleanup
  <2> QED
    BY <2>2, <2>3, <2>4, <2>5 DEF EvictedStopped, Alive
<1>21. CASE Crash
  BY <1>21 DEF Crash, IdTypes, Alive, EvictedStopped
<1>22. CASE Restored
  BY <1>22 DEF Restored, Persist, Write, WriteFails, IdTypes, Alive,
              EvictedStopped
<1>23. CASE
        \/ CancelAll \/ CancelAllTimesOut \/ Load
  BY <1>23 DEF CancelAll, CancelAllTimesOut, Load, EvictedStopped
<1>24. CASE UNCHANGED vars
  BY <1>24 DEF vars, EvictedStopped
<1> QED
  BY <1>1, <1>2, <1>3, <1>4, <1>5, <1>6, <1>7, <1>8, <1>9, <1>10, <1>11, <1>12,
     <1>13, <1>14, <1>15, <1>16, <1>17, <1>18, <1>19, <1>20, <1>21, <1>22,
     <1>23, <1>24
     DEF Next, CallerStep, RunnerStep, RestoreStep

(***************************************************************************)
(* The initial state satisfies the invariant.                              *)
(***************************************************************************)
LEMMA OnceInit == Init => OnceInv
<1> SUFFICES ASSUME Init PROVE OnceInv
  OBVIOUS
<1>1. StoppedInv
  BY StoppedInit
<1>2. /\ NotYetUp /\ HoldsKey /\ NothingUndone /\ Indexed
      /\ OneRecordPerKey /\ Remembered
  BY DEF Init, NotYetUp, HoldsKey, NothingUndone, Indexed, OneRecordPerKey, Remembered
<1>3. EvictedStopped
  BY DEF Init, EvictedStopped
<1> QED
  BY <1>1, <1>2, <1>3 DEF OnceInv

(***************************************************************************)
(* Every step keeps the invariant, when no access to the ledger fails.     *)
(***************************************************************************)
LEMMA OnceStep ==
    ASSUME Faults = {}, OnceInv, [Next]_vars
    PROVE  OnceInv'
<1>1. /\ NodeTypes /\ JobTypes /\ IndexTypes /\ CallTypes /\ DiskTypes
      /\ IdTypes /\ LockHolder /\ BeingStarted /\ FreshIds /\ Supervised
      /\ TerminalMeansStopped /\ StoppedInv
      /\ NotYetUp /\ HoldsKey /\ NothingUndone /\ Indexed
      /\ OneRecordPerKey /\ Remembered /\ EvictedStopped
  BY DEF OnceInv, StoppedInv, TypeOK
<1>2. StoppedInv'
  BY <1>1, StoppedStep
<1>3. NotYetUp' /\ HoldsKey' /\ NothingUndone' /\ Indexed'
  BY <1>1, NotYetUpStep, HoldsKeyStep, NothingUndoneStep, IndexedStep
<1>4. OneRecordPerKey' /\ Remembered' /\ EvictedStopped'
  BY <1>1, OneRecordStep, RememberedStep, EvictedStep
<1> QED
  BY <1>2, <1>3, <1>4 DEF OnceInv

(***************************************************************************)
(* Two processes of one key, none of them evicted, would have two records  *)
(* of one key in the ledger; and a live process is not evicted.            *)
(***************************************************************************)
LEMMA OnceInvGives == OnceInv => AtMostOnce /\ OneLiveProcessPerKey
<1> SUFFICES ASSUME OnceInv PROVE AtMostOnce /\ OneLiveProcessPerKey
  OBVIOUS
<1>1. AtMostOnce
  BY DEF OnceInv, Remembered, OneRecordPerKey, AtMostOnce
<1>2. \A j \in Jobs : Alive(proc[j]) => proc[j] # "none" /\ j \notin evicted
  BY DEF OnceInv, EvictedStopped, Alive
<1>3. OneLiveProcessPerKey
  BY <1>1, <1>2 DEF AtMostOnce, OneLiveProcessPerKey
<1> QED
  BY <1>1, <1>3

(***************************************************************************)
(* When the ledger can be read and written, an idempotency key creates one *)
(* process for as long as its job is retained, over any number of racing   *)
(* callers, evictions, crashes and restarts (StartExecution with           *)
(* restorePersistedJobs).                                                  *)
(***************************************************************************)
THEOREM StartsAtMostOnce ==
    ASSUME Faults = {}
    PROVE  Spec => []AtMostOnce
<1>1. Init => OnceInv
  BY OnceInit
<1>2. OnceInv /\ [Next]_vars => OnceInv'
  BY OnceStep
<1>3. OnceInv => AtMostOnce
  BY OnceInvGives
<1> QED
  BY <1>1, <1>2, <1>3, PTL DEF Spec

(***************************************************************************)
(* Under the same assumption a key never has two live processes.           *)
(***************************************************************************)
THEOREM OneLiveProcess ==
    ASSUME Faults = {}
    PROVE  Spec => []OneLiveProcessPerKey
<1>1. Init => OnceInv
  BY OnceInit
<1>2. OnceInv /\ [Next]_vars => OnceInv'
  BY OnceStep
<1>3. OnceInv => OneLiveProcessPerKey
  BY OnceInvGives
<1> QED
  BY <1>1, <1>2, <1>3, PTL DEF Spec

-----------------------------------------------------------------------------
(***************************************************************************)
(* Stops.  The processes that are killed without a stop reason are those   *)
(* of jobs that could not be recorded, and no supervisor ever gets them.   *)
(***************************************************************************)
StartsAreApart ==
    /\ \A c \in Callers : pc[c] = "recording" =>
          proc[cjob[c]] \notin {"none", "dying"}
    /\ \A c \in Callers : pc[c] = "killing" =>
          /\ cjob[c] \in Jobs /\ cjob[c] <= lastId /\ runner[cjob[c]] = "none"
          /\ \A d \in Callers : pc[d] \in {"launching", "recording"} =>
                cjob[d] # cjob[c]

\* Most steps leave the callers alone that start a job or undo a start.
Calm ==
    /\ lastId' = lastId
    /\ \A c \in Callers : pc'[c] \in {"launching", "recording", "killing"} =>
          pc'[c] = pc[c] /\ cjob'[c] = cjob[c]
    /\ \A j \in Jobs : runner[j] = "none" => runner'[j] = "none"
    /\ \A c \in Callers : pc[c] = "recording" =>
          \/ proc'[cjob[c]] = proc[cjob[c]]
          \/ proc'[cjob[c]] \in {"ok", "err"}

\* They keep what is known of those callers.
LEMMA CalmKeeps ==
    ASSUME StartsAreApart, Calm
    PROVE  StartsAreApart'
<1>1. ASSUME NEW c \in Callers, pc'[c] = "recording"
      PROVE  proc'[cjob'[c]] \notin {"none", "dying"}
  BY <1>1 DEF Calm, StartsAreApart
<1>2. ASSUME NEW c \in Callers, pc'[c] = "killing"
      PROVE  /\ cjob'[c] \in Jobs /\ cjob'[c] <= lastId' /\ runner'[cjob'[c]] = "none"
             /\ \A d \in Callers : pc'[d] \in {"launching", "recording"} =>
                   cjob'[d] # cjob'[c]
  <2>1. pc[c] = "killing" /\ cjob'[c] = cjob[c] /\ lastId' = lastId
    BY <1>2 DEF Calm
  <2>2. /\ cjob[c] \in Jobs /\ cjob[c] <= lastId /\ runner[cjob[c]] = "none"
        /\ \A d \in Callers : pc[d] \in {"launching", "recording"} =>
              cjob[d] # cjob[c]
    BY <2>1 DEF StartsAreApart
  <2>3. \A d \in Callers : pc'[d] \in {"launching", "recording"} =>
           pc[d] \in {"launching", "recording"} /\ cjob'[d] = cjob[d]
    BY DEF Calm
  <2>4. runner'[cjob[c]] = "none"
    BY <2>2 DEF Calm
  <2> QED
    BY <2>1, <2>2, <2>3, <2>4
<1> QED
  BY <1>1, <1>2 DEF StartsAreApart

\* A job is recorded with a process that nobody has killed.
LEMMA StartsAreApartStep ==
    ASSUME NodeTypes, CallTypes, JobTypes, IdTypes, LockHolder, BeingStarted,
           FreshIds, Supervised, StartsAreApart, [Next]_vars
    PROVE  StartsAreApart'
<1> USE DEF nodeVars, closeVars, jobVars, indexVars, callVars, diskVars,
            idVars, histVars
<1>1. ASSUME NEW c \in Callers, PersistStarting(c) PROVE StartsAreApart'
  <2>1. lastId \in Int /\ lastId' = lastId + 1
    BY <1>1 DEF PersistStarting, IdTypes, Jobs
  <2>2. /\ UNCHANGED <<proc, runner>>
        /\ \A d \in Callers : d # c => pc'[d] = pc[d] /\ cjob'[d] = cjob[d]
        /\ \/ pc'[c] = "launching" /\ cjob'[c] = lastId + 1
           \/ pc'[c] = "aborting"
    BY <1>1 DEF PersistStarting, Goto, CallTypes
  <2>3. \A d \in Callers : pc[d] = "killing" =>
           cjob[d] \in Jobs /\ cjob[d] <= lastId /\ cjob[d] # lastId + 1 /\ cjob[d] <= lastId'
    BY <2>1 DEF StartsAreApart, Jobs
  <2>4. ASSUME NEW d \in Callers, pc'[d] = "recording"
        PROVE  proc'[cjob'[d]] \notin {"none", "dying"}
    BY <2>2, <2>4 DEF StartsAreApart
  <2>5. ASSUME NEW d \in Callers, pc'[d] = "killing"
        PROVE  /\ cjob'[d] \in Jobs /\ cjob'[d] <= lastId' /\ runner'[cjob'[d]] = "none"
               /\ \A e \in Callers : pc'[e] \in {"launching", "recording"} =>
                     cjob'[e] # cjob'[d]
    <3>1. pc[d] = "killing" /\ cjob'[d] = cjob[d] /\ d # c
      BY <2>2, <2>5
    <3>2. ASSUME NEW e \in Callers, pc'[e] \in {"launching", "recording"}
          PROVE  cjob'[e] # cjob'[d]
      BY <2>2, <2>3, <3>1, <3>2 DEF StartsAreApart
    <3>3. cjob[d] \in Jobs /\ cjob[d] <= lastId' /\ runner[cjob[d]] = "none"
      BY <2>3, <3>1 DEF StartsAreApart
    <3> QED
      BY <2>2, <3>1, <3>2, <3>3
  <2> QED
    BY <2>4, <2>5 DEF StartsAreApart
<1>2. ASSUME NEW c \in Callers, Launch(c) PROVE StartsAreApart'
  <2>1. /\ \A d \in Callers : pc[d] \in {"launching", "recording"} => d = c
        /\ pc[c] = "launching" /\ cjob[c] \in Jobs
    BY <1>2 DEF Launch, LockHolder, BeingStarted
  <2>2. /\ proc'[cjob[c]] = "running" /\ UNCHANGED <<runner, cjob, lastId>>
        /\ pc'[c] = "recording" /\ \A d \in Callers : d # c => pc'[d] = pc[d]
    BY <1>2, <2>1 DEF Launch, Goto, JobTypes, CallTypes
  <2>3. \A d \in Callers : pc'[d] = "killing" => pc[d] = "killing"
    BY <2>2
  <2>4. \A d \in Callers : pc'[d] \in {"launching", "recording"} => d = c
    BY <2>1, <2>2
  <2> QED
    BY <2>1, <2>2, <2>3, <2>4 DEF StartsAreApart
<1>3. ASSUME NEW c \in Callers, Record(c) PROVE StartsAreApart'
  <2>1. /\ cjob[c] \in Jobs /\ proc' = proc
        /\ runner' = [runner EXCEPT ![cjob[c]] = "running"]
        /\ cjob' = cjob /\ lastId' = lastId /\ pc[c] = "recording"
    BY <1>3 DEF Record, BeingStarted
  <2>2. \A d \in Callers : pc'[d] \in {"launching", "recording", "killing"} =>
           pc[d] = pc'[d] /\ d # c
    BY <1>3 DEF Record, EndReservation, CallTypes
  <2> QED
    BY <2>1, <2>2 DEF StartsAreApart, JobTypes
<1>4. ASSUME NEW c \in Callers, RecordFails(c) PROVE StartsAreApart'
  <2>1. /\ cjob[c] \in Jobs /\ runner[cjob[c]] = "none" /\ dstate[cjob[c]] = "starting"
        /\ pc[c] = "recording"
    BY <1>4 DEF RecordFails, BeingStarted
  <2>2. cjob[c] <= lastId
    BY <2>1 DEF FreshIds, IdTypes, Jobs
  <2>3. \A d \in Callers : pc'[d] \notin {"launching", "recording"}
                           /\ (d # c => pc'[d] = pc[d])
    BY <1>4 DEF RecordFails, Goto, CallTypes, LockHolder
  <2>4. UNCHANGED <<proc, runner, cjob, lastId>>
    BY <1>4 DEF RecordFails
  <2> QED
    BY <2>1, <2>2, <2>3, <2>4 DEF StartsAreApart
<1>5. ASSUME NEW c \in Callers, KillUnrecorded(c) PROVE Calm
  BY <1>5 DEF KillUnrecorded, Goto, Killed, JobTypes, CallTypes, StartsAreApart,
              Calm
<1>6. ASSUME NEW c \in Callers, Reserve(c) PROVE Calm
  BY <1>6 DEF Reserve, Return, Goto, CallTypes, Calm
<1>7. ASSUME NEW c \in Callers, LaunchFails(c) PROVE Calm
  BY <1>7 DEF LaunchFails, Goto, CallTypes, Calm
<1>8. ASSUME NEW c \in Callers, NEW k \in Keys, NEW s \in Specs, Call(c, k, s)
      PROVE  Calm
  BY <1>8 DEF Call, Goto, CallTypes, Calm
<1>9. ASSUME NEW c \in Callers,
        \/ Refuse(c) \/ Replay(c) \/ Await(c) \/ PrepareFails(c) \/ Release(c)
        \/ GiveUp(c) \/ Answered(c)
      PROVE  Calm
  BY <1>9 DEF Refuse, Replay, Await, PrepareFails, Release, GiveUp, Answered,
              Return, Goto, CallTypes, Calm
<1>10. ASSUME NEW c \in Callers, Abort(c) PROVE Calm
  BY <1>10 DEF Abort, EndReservation, Goto, CallTypes, Calm
<1>11. ASSUME NEW j \in Jobs, Exit(j) PROVE Calm
  BY <1>11 DEF Exit, JobTypes, Calm
<1>12. ASSUME NEW j \in Jobs, TakeStop(j) \/ TimeOut(j) PROVE Calm
  BY <1>12 DEF TakeStop, TimeOut, JobTypes, BeingStarted, Calm
<1>13. ASSUME NEW j \in Jobs,
         \/ Reap(j) \/ FreeSlot(j) \/ Finish(j) \/ PersistFinished(j)
       PROVE  Calm
  BY <1>13 DEF Reap, FreeSlot, Finish, PersistFinished, JobTypes, Calm
<1>14. ASSUME NEW j \in Jobs, RecoverUnknown(j) PROVE Calm
  BY <1>14 DEF RecoverUnknown, ConfirmStopped, NotConfirmed, JobTypes,
               BeingStarted, Calm
<1>15. ASSUME NEW j \in Jobs, RestoreRecord(j) PROVE Calm
  BY <1>15 DEF RestoreRecord, LockHolder, Calm
<1>16. ASSUME NEW j \in Jobs, WatchTerminal(j) \/ Cancel(j) PROVE Calm
  BY <1>16 DEF WatchTerminal, Cancel, Calm
<1>17. CASE Maintenance
  <2>1. Calm
    BY <1>17 DEF Maintenance, Calm
  <2> QED
    BY <2>1, CalmKeeps
<1>18. CASE Crash
  BY <1>18 DEF Crash, StartsAreApart
<1>19. CASE \/ Load \/ Restored \/ WatchReturn \/ CancelAll \/ CancelAllReturns
            \/ CancelAllTimesOut \/ UNCHANGED vars
  <2>1. Calm
    BY <1>19 DEF Load, Restored, WatchReturn, CancelAll, CancelAllReturns,
                 CancelAllTimesOut, vars, Calm
  <2> QED
    BY <2>1, CalmKeeps
<1> QED
  BY <1>1, <1>2, <1>3, <1>4, <1>5, <1>6, <1>7, <1>8, <1>9, <1>10, <1>11, <1>12,
     <1>13, <1>14, <1>15, <1>16, <1>17, <1>18, <1>19, CalmKeeps
     DEF Next, CallerStep, RunnerStep, RestoreStep

\* A supervisor kills with a reason, and nobody else kills what it supervises.
LEMMA ReasonStep ==
    ASSUME NodeTypes, CallTypes, JobTypes, BeingStarted, LockHolder,
           Supervised, StartsAreApart, KilledForAReason, [Next]_vars
    PROVE  KilledForAReason'
<1> USE DEF nodeVars, closeVars, jobVars, indexVars, callVars, diskVars,
            idVars, histVars
<1>1. ASSUME NEW c \in Callers, Launch(c) PROVE KilledForAReason'
  BY <1>1 DEF Launch, BeingStarted, JobTypes, KilledForAReason
<1>2. ASSUME NEW c \in Callers, Record(c) PROVE KilledForAReason'
  BY <1>2 DEF Record, BeingStarted, StartsAreApart, JobTypes, KilledForAReason
<1>3. ASSUME NEW c \in Callers, KillUnrecorded(c) PROVE KilledForAReason'
  BY <1>3 DEF KillUnrecorded, StartsAreApart, JobTypes, KilledForAReason
<1>4. ASSUME NEW c \in Callers, NEW k \in Keys, NEW s \in Specs, Call(c, k, s)
      PROVE  KilledForAReason'
  BY <1>4 DEF Call, KilledForAReason
<1>5. ASSUME NEW c \in Callers,
        \/ Refuse(c) \/ Replay(c) \/ Await(c) \/ PrepareFails(c) \/ Release(c)
        \/ GiveUp(c) \/ Answered(c) \/ Reserve(c) \/ PersistStarting(c)
        \/ LaunchFails(c) \/ RecordFails(c) \/ Abort(c)
      PROVE  KilledForAReason'
  BY <1>5 DEF Refuse, Replay, Await, PrepareFails, Release, GiveUp, Answered,
              Reserve, PersistStarting, LaunchFails, RecordFails, Abort,
              KilledForAReason
<1>6. ASSUME NEW j \in Jobs, Exit(j) PROVE KilledForAReason'
  BY <1>6 DEF Exit, JobTypes, KilledForAReason
<1>7. ASSUME NEW j \in Jobs, TakeStop(j) PROVE KilledForAReason'
  BY <1>7 DEF TakeStop, SetStopReason, JobTypes, KilledForAReason
<1>8. ASSUME NEW j \in Jobs, TimeOut(j) PROVE KilledForAReason'
  BY <1>8 DEF TimeOut, SetStopReason, JobTypes, KilledForAReason
<1>9. ASSUME NEW j \in Jobs,
        \/ Reap(j) \/ FreeSlot(j) \/ Finish(j) \/ PersistFinished(j)
      PROVE  KilledForAReason'
  BY <1>9 DEF Reap, FreeSlot, Finish, PersistFinished, JobTypes,
              KilledForAReason
<1>10. ASSUME NEW j \in Jobs, RecoverUnknown(j) PROVE KilledForAReason'
  BY <1>10 DEF RecoverUnknown, ConfirmStopped, NotConfirmed, JobTypes,
               Supervised, KilledForAReason
<1>11. ASSUME NEW j \in Jobs, RestoreRecord(j) PROVE KilledForAReason'
  BY <1>11 DEF RestoreRecord, Supervised, KilledForAReason
<1>12. ASSUME NEW j \in Jobs, WatchTerminal(j) \/ Cancel(j)
       PROVE  KilledForAReason'
  BY <1>12 DEF WatchTerminal, Cancel, KilledForAReason
<1>13. CASE Crash
  BY <1>13 DEF Crash, KilledForAReason
<1>14. CASE \/ Load \/ Restored \/ WatchReturn \/ CancelAll \/ CancelAllReturns
            \/ CancelAllTimesOut \/ Maintenance \/ UNCHANGED vars
  BY <1>14 DEF Load, Restored, WatchReturn, CancelAll, CancelAllReturns,
               CancelAllTimesOut, Maintenance, vars, KilledForAReason
<1> QED
  BY <1>1, <1>2, <1>3, <1>4, <1>5, <1>6, <1>7, <1>8, <1>9, <1>10, <1>11, <1>12,
     <1>13, <1>14
     DEF Next, CallerStep, RunnerStep, RestoreStep

(***************************************************************************)
(* A supervised process is killed only for a reason that its job will      *)
(* report, also when saves and reads of the ledger fail: the process that  *)
(* a failed save kills never gets a supervisor.                            *)
(***************************************************************************)
THEOREM KilledWithReason == Spec => []KilledForAReason
<1> DEFINE Inv == StoppedInv /\ StartsAreApart /\ KilledForAReason
<1>1. Init => Inv
  BY StoppedInit DEF Init, StartsAreApart, KilledForAReason
<1>2. Inv /\ [Next]_vars => Inv'
  BY StoppedStep, StartsAreApartStep, ReasonStep DEF StoppedInv, TypeOK
<1>3. Inv => KilledForAReason
  OBVIOUS
<1> QED
  BY <1>1, <1>2, <1>3, PTL DEF Spec

(***************************************************************************)
(* A manager that shuts down starts nothing more and knows all of its      *)
(* jobs; one that has shut down has no reservation and no job that is not  *)
(* terminal.                                                               *)
(***************************************************************************)
QuietInv ==
    shutdown # "no" =>
        /\ closed
        /\ \A c \in Callers : pc[c] \notin {"launching", "recording"}
        /\ \A j \in Jobs : state[j] # "none" => j \in shutJobs
        /\ shutdown = "done" =>
              /\ \A k \in Keys : starting[k] = None
              /\ \A j \in Jobs : state[j] \in Terminal \cup {"none"}

\* Nothing joins a manager that is closed.
LEMMA QuietStep ==
    ASSUME Faults = {}, NodeTypes, CallTypes, JobTypes, IndexTypes, LockHolder,
           Supervised, NotYetUp, HoldsKey, QuietInv, [Next]_vars
    PROVE  QuietInv'
<1> USE DEF nodeVars, closeVars, jobVars, indexVars, callVars, diskVars,
            idVars, histVars
<1>1. ASSUME NEW c \in Callers, PersistStarting(c) \/ Record(c) \/ Launch(c)
      PROVE  QuietInv'
  BY <1>1 DEF PersistStarting, Record, Launch, StillReserved, QuietInv
<1>2. ASSUME NEW c \in Callers, Reserve(c) PROVE QuietInv'
  BY <1>2 DEF Reserve, AtEntry, QuietInv
<1>3. ASSUME NEW c \in Callers, Abort(c) PROVE QuietInv'
  <2>1. UNCHANGED <<shutdown, closed, shutJobs, state>>
    BY <1>3 DEF Abort
  <2>2. \A d \in Callers : pc'[d] \in {"launching", "recording"} => pc'[d] = pc[d]
    BY <1>3 DEF Abort, EndReservation, Goto, CallTypes
  <2>3. \A k \in Keys : starting[k] = None => starting'[k] = None
    BY <1>3 DEF Abort, EndReservation, IndexTypes
  <2> QED
    BY <2>1, <2>2, <2>3 DEF QuietInv
<1>4. ASSUME NEW c \in Callers,
        \/ Refuse(c) \/ Replay(c) \/ Await(c) \/ PrepareFails(c) \/ Release(c)
        \/ GiveUp(c) \/ Answered(c) \/ LaunchFails(c) \/ RecordFails(c)
        \/ KillUnrecorded(c)
      PROVE  QuietInv'
  BY <1>4 DEF Refuse, Replay, Await, PrepareFails, Release, GiveUp, Answered,
              LaunchFails, RecordFails, KillUnrecorded,
              Return, Goto, CallTypes, QuietInv
<1>5. ASSUME NEW c \in Callers, NEW k \in Keys, NEW s \in Specs, Call(c, k, s)
      PROVE  QuietInv'
  BY <1>5 DEF Call, Goto, CallTypes, QuietInv
<1>6. ASSUME NEW j \in Jobs, Finish(j) PROVE QuietInv'
  BY <1>6 DEF Finish, Outcome, Terminal, JobTypes, Supervised, QuietInv
<1>7. ASSUME NEW j \in Jobs, RecoverUnknown(j) PROVE QuietInv'
  BY <1>7 DEF RecoverUnknown, Terminal, JobTypes, QuietInv
<1>8. ASSUME NEW j \in Jobs, RestoreRecord(j) PROVE QuietInv'
  BY <1>8 DEF RestoreRecord, NotYetUp, QuietInv
<1>9. ASSUME NEW j \in Jobs,
        \/ Exit(j) \/ TakeStop(j) \/ TimeOut(j) \/ Reap(j) \/ PersistFinished(j)
        \/ FreeSlot(j) \/ WatchTerminal(j) \/ Cancel(j)
      PROVE  QuietInv'
  BY <1>9 DEF Exit, TakeStop, TimeOut, Reap, PersistFinished, FreeSlot,
              WatchTerminal, Cancel, QuietInv
<1>10. CASE WatchReturn
  BY <1>10 DEF WatchReturn, QuietInv
<1>11. CASE CancelAll
  BY <1>11, NoneAssumption DEF CancelAll, InMemory, LockHolder, QuietInv
<1>12. CASE CancelAllReturns
  BY <1>12 DEF CancelAllReturns, QuietInv, JobTypes
<1>13. CASE CancelAllTimesOut
  BY <1>13 DEF CancelAllTimesOut, QuietInv
<1>14. CASE Maintenance
  BY <1>14 DEF Maintenance, Cleanup, Without, JobTypes, QuietInv
<1>15. CASE Crash
  BY <1>15 DEF Crash, QuietInv
<1>16. CASE Load \/ Restored
  BY <1>16 DEF Load, Restored, QuietInv
<1>17. CASE UNCHANGED vars
  BY <1>17 DEF vars, QuietInv
<1> QED
  BY <1>1, <1>2, <1>3, <1>4, <1>5, <1>6, <1>7, <1>8, <1>9, <1>10, <1>11, <1>12,
     <1>13, <1>14, <1>15, <1>16, <1>17
     DEF Next, CallerStep, RunnerStep, RestoreStep

\* A process that lives has a job in memory that is not terminal, or a caller
\* that holds a reservation.
LEMMA QuietGives ==
    ASSUME OnceInv, QuietInv
    PROVE  ShutdownIsQuiet
<1> SUFFICES ASSUME shutdown = "done" PROVE ShutdownIsQuiet
  BY DEF ShutdownIsQuiet
<1>1. /\ closed /\ \A c \in Callers : pc[c] \notin {"launching", "recording"}
      /\ \A k \in Keys : starting[k] = None
      /\ \A j \in Jobs : state[j] \in Terminal \cup {"none"}
  BY DEF QuietInv
<1>2. up = "up"
  BY DEF OnceInv, NotYetUp
<1>3. \A j \in Jobs : ~Alive(proc[j])
  BY <1>1, <1>2 DEF OnceInv, StoppedInv, TerminalMeansStopped, Remembered,
                    EvictedStopped, Alive
<1>4. \A c \in Callers : pc[c] \notin {"preparing", "launching", "recording", "killing"}
  BY <1>1, NoneAssumption DEF OnceInv, StoppedInv, TypeOK, CallTypes,
                              HoldsKey, NothingUndone
<1> QED
  BY <1>1, <1>3, <1>4 DEF ShutdownIsQuiet

(***************************************************************************)
(* A Node whose ledger can be read and written and that has shut down      *)
(* leaves no process behind and will start none, and what it kills it      *)
(* kills for a reason.                                                     *)
(***************************************************************************)
THEOREM StopsStaySound ==
    ASSUME Faults = {}
    PROVE  Spec => []StopsAreSound
<1> DEFINE Inv == OnceInv /\ StartsAreApart /\ KilledForAReason /\ QuietInv
<1>1. Init => Inv
  BY OnceInit DEF Init, StartsAreApart, KilledForAReason, QuietInv
<1>2. Inv /\ [Next]_vars => Inv'
  BY OnceStep, StartsAreApartStep, ReasonStep, QuietStep
     DEF OnceInv, StoppedInv, TypeOK
<1>3. Inv => StopsAreSound
  BY QuietGives DEF StopsAreSound
<1> QED
  BY <1>1, <1>2, <1>3, PTL DEF Spec

-----------------------------------------------------------------------------
(***************************************************************************)
(* Reports.  A job without a process is one that a crash left at           *)
(* "starting": nothing is known of its process, and it stays unknown.      *)
(***************************************************************************)
NoProcess ==
    \A j \in Jobs : proc[j] = "none" =>
        /\ state[j] \in {"none", "unknown"}
        /\ dstate[j] \in {"none", "unknown", "starting"}
        /\ dident[j] = "none"
        /\ state[j] = "unknown" => recov[j] = "none"

\* Without an identity nothing is confirmed.
LEMMA NoProcessStep ==
    ASSUME NodeTypes, CallTypes, JobTypes, DiskTypes, BeingStarted, Supervised,
           StartsAreApart, NoProcess, [Next]_vars
    PROVE  NoProcess'
<1> USE DEF nodeVars, closeVars, jobVars, indexVars, callVars, diskVars,
            idVars, histVars
<1>1. ASSUME NEW c \in Callers, Reserve(c) PROVE NoProcess'
  BY <1>1 DEF Reserve, Cleanup, Without, Write, WriteFails, JobTypes, NoProcess
<1>2. ASSUME NEW c \in Callers, PersistStarting(c) PROVE NoProcess'
  BY <1>2 DEF PersistStarting, WithStarting, Write, WriteFails, JobTypes,
              NoProcess
<1>3. ASSUME NEW c \in Callers, Launch(c) PROVE NoProcess'
  BY <1>3 DEF Launch, JobTypes, BeingStarted, NoProcess
<1>4. ASSUME NEW c \in Callers, LaunchFails(c) PROVE NoProcess'
  BY <1>4 DEF LaunchFails, Persist, Write, WriteFails, JobTypes, NoProcess
<1>5. ASSUME NEW c \in Callers, Record(c) PROVE NoProcess'
  BY <1>5 DEF Record, Write, JobTypes, BeingStarted, StartsAreApart, NoProcess
<1>6. ASSUME NEW c \in Callers, RecordFails(c) PROVE NoProcess'
  BY <1>6 DEF RecordFails, WriteFails, NoProcess
<1>7. ASSUME NEW c \in Callers, KillUnrecorded(c) PROVE NoProcess'
  BY <1>7 DEF KillUnrecorded, Killed, JobTypes, StartsAreApart, NoProcess
<1>8. ASSUME NEW c \in Callers, NEW k \in Keys, NEW s \in Specs, Call(c, k, s)
      PROVE  NoProcess'
  BY <1>8 DEF Call, NoProcess
<1>9. ASSUME NEW c \in Callers,
        \/ Refuse(c) \/ Replay(c) \/ Await(c) \/ PrepareFails(c) \/ Abort(c)
        \/ Release(c) \/ GiveUp(c) \/ Answered(c)
      PROVE  NoProcess'
  BY <1>9 DEF Refuse, Replay, Await, PrepareFails, Abort, Release, GiveUp,
              Answered, NoProcess
<1>10. ASSUME NEW j \in Jobs, Exit(j) PROVE NoProcess'
  BY <1>10 DEF Exit, JobTypes, NoProcess
<1>11. ASSUME NEW j \in Jobs, TakeStop(j) \/ TimeOut(j) PROVE NoProcess'
  BY <1>11 DEF TakeStop, TimeOut, Killed, JobTypes, NoProcess
<1>12. ASSUME NEW j \in Jobs, Finish(j) PROVE NoProcess'
  BY <1>12 DEF Finish, JobTypes, Supervised, NoProcess
<1>13. ASSUME NEW j \in Jobs, PersistFinished(j) PROVE NoProcess'
  BY <1>13 DEF PersistFinished, Persist, Write, WriteFails, JobTypes, NoProcess
<1>14. ASSUME NEW j \in Jobs,
         \/ Reap(j) \/ FreeSlot(j) \/ WatchTerminal(j) \/ Cancel(j)
       PROVE  NoProcess'
  BY <1>14 DEF Reap, FreeSlot, WatchTerminal, Cancel, NoProcess
<1>15. ASSUME NEW j \in Jobs, RecoverUnknown(j) PROVE NoProcess'
  BY <1>15 DEF RecoverUnknown, ConfirmStopped, NotConfirmed, Alive, JobTypes,
               NoProcess
<1>16. ASSUME NEW j \in Jobs, RestoreRecord(j) PROVE NoProcess'
  BY <1>16 DEF RestoreRecord, ConfirmStopped, NotConfirmed, Alive, JobTypes,
               NoProcess
<1>17. CASE WatchReturn
  BY <1>17 DEF WatchReturn, Write, WriteFails, JobTypes, NoProcess
<1>18. CASE CancelAllReturns
  BY <1>18 DEF CancelAllReturns, Write, WriteFails, JobTypes, NoProcess
<1>19. CASE Maintenance
  BY <1>19 DEF Maintenance, Cleanup, Without, Persist, Write, WriteFails,
               JobTypes, NoProcess
<1>20. CASE Crash
  BY <1>20 DEF Crash, NoProcess
<1>21. CASE Restored
  BY <1>21 DEF Restored, Persist, Write, WriteFails, JobTypes, NoProcess
<1>22. CASE CancelAll \/ CancelAllTimesOut \/ Load \/ UNCHANGED vars
  BY <1>22 DEF CancelAll, CancelAllTimesOut, Load, vars, NoProcess
<1> QED
  BY <1>1, <1>2, <1>3, <1>4, <1>5, <1>6, <1>7, <1>8, <1>9, <1>10, <1>11, <1>12,
     <1>13, <1>14, <1>15, <1>16, <1>17, <1>18, <1>19, <1>20, <1>21, <1>22
     DEF Next, CallerStep, RunnerStep, RestoreStep

(***************************************************************************)
(* m.idempotency finds a job of its key, and a job is made for what its    *)
(* caller asked.                                                           *)
(***************************************************************************)
KeysFindTheirs ==
    \A k \in Keys : idem[k] # 0 => keyOf[idem[k]] = k /\ idem[k] <= lastId

MadeAsAsked ==
    \A c \in Callers : pc[c] \in {"launching", "recording"} =>
        specOf[cjob[c]] = cspec[c] /\ cjob[c] <= lastId

AnsweredRight ==
    \A c \in Callers : pc[c] = "returned" =>
        /\ cjob[c] \in Jobs /\ cjob[c] <= lastId
        /\ keyOf[cjob[c]] = ckey[c] /\ specOf[cjob[c]] = cspec[c]
        /\ proc[cjob[c]] # "none" \/ state[cjob[c]] = "unknown"

Answers == KeysFindTheirs /\ MadeAsAsked /\ AnsweredRight

\* Most steps answer nobody, create nothing and forget no process.
AnswersStay ==
    /\ UNCHANGED <<keyOf, specOf, lastId>>
    /\ \A k \in Keys : idem'[k] \in {0, idem[k]}
    /\ \A c \in Callers :
          /\ pc'[c] \in {"launching", "recording"} =>
                pc[c] \in {"launching", "recording"}
          /\ pc'[c] = "returned" => pc[c] = "returned"
          /\ pc'[c] \in {"launching", "recording", "returned"} =>
                cjob'[c] = cjob[c] /\ ckey'[c] = ckey[c] /\ cspec'[c] = cspec[c]
    /\ \A j \in Jobs : proc[j] # "none" => proc'[j] # "none"
    /\ \A j \in Jobs : proc[j] = "none" /\ state[j] = "unknown"
                         => state'[j] = "unknown"

\* They keep the answers right.
LEMMA AnswersKeep ==
    ASSUME Answers, AnswersStay
    PROVE  Answers'
<1>1. KeysFindTheirs'
  BY DEF Answers, AnswersStay, KeysFindTheirs
<1>2. MadeAsAsked'
  BY DEF Answers, AnswersStay, MadeAsAsked
<1>3. AnsweredRight'
  <2> SUFFICES ASSUME NEW c \in Callers, pc'[c] = "returned"
               PROVE  /\ cjob'[c] \in Jobs /\ cjob'[c] <= lastId'
                      /\ keyOf'[cjob'[c]] = ckey'[c] /\ specOf'[cjob'[c]] = cspec'[c]
                      /\ proc'[cjob'[c]] # "none" \/ state'[cjob'[c]] = "unknown"
    BY DEF AnsweredRight
  <2>1. /\ pc[c] = "returned" /\ cjob'[c] = cjob[c]
        /\ ckey'[c] = ckey[c] /\ cspec'[c] = cspec[c]
    BY DEF AnswersStay
  <2>2. /\ cjob[c] \in Jobs /\ cjob[c] <= lastId
        /\ keyOf[cjob[c]] = ckey[c] /\ specOf[cjob[c]] = cspec[c]
        /\ proc[cjob[c]] # "none" \/ state[cjob[c]] = "unknown"
    BY <2>1 DEF Answers, AnsweredRight
  <2> QED
    BY <2>1, <2>2 DEF AnswersStay
<1> QED
  BY <1>1, <1>2, <1>3 DEF Answers

\* Every step does.
LEMMA AnswersStep ==
    ASSUME TypeOK, LockHolder, BeingStarted, FreshIds, Supervised,
           StartsAreApart, NoProcess, Answers, [Next]_vars
    PROVE  Answers'
<1> USE DEF nodeVars, closeVars, jobVars, indexVars, callVars, diskVars,
            idVars, histVars
<1>0. /\ CallTypes /\ JobTypes /\ IndexTypes /\ IdTypes /\ NodeTypes
      /\ KeysFindTheirs /\ MadeAsAsked /\ AnsweredRight
  BY DEF TypeOK, Answers
<1>1. ASSUME NEW c \in Callers, Replay(c) PROVE Answers'
  <2>1. /\ UNCHANGED <<keyOf, specOf, lastId, idem, proc, state>>
        /\ pc[c] = "entry" /\ idem[ckey[c]] # 0
        /\ Return(c, IF Found(c, idem[ckey[c]]) THEN idem[ckey[c]] ELSE 0)
    BY <1>1 DEF Replay, AtEntry
  <2>2. ckey[c] \in Keys
    BY <1>0, <2>1 DEF CallTypes
  <2>3. CASE ~Found(c, idem[ckey[c]])
    <3>1. AnswersStay
      BY <1>0, <2>1, <2>3 DEF Return, Goto, CallTypes, AnswersStay
    <3> QED
      BY <3>1, AnswersKeep
  <2>4. CASE Found(c, idem[ckey[c]])
    <3>1. PICK j \in Jobs : j = idem[ckey[c]]
      BY <1>0, <2>1, <2>2 DEF IndexTypes
    <3>2. /\ keyOf[j] = ckey[c] /\ j <= lastId /\ specOf[j] = cspec[c]
          /\ state[j] # "none"
      BY <1>0, <2>1, <2>2, <2>4, <3>1 DEF Found, KeysFindTheirs
    <3>3. proc[j] # "none" \/ state[j] = "unknown"
      BY <3>2 DEF NoProcess
    <3>4. j # 0
      BY <2>1, <3>1
    <3>5. /\ \A d \in Callers : d # c => pc'[d] = pc[d] /\ cjob'[d] = cjob[d]
                                   /\ ckey'[d] = ckey[d] /\ cspec'[d] = cspec[d]
          /\ pc'[c] = "returned" /\ cjob'[c] = j
          /\ ckey'[c] = ckey[c] /\ cspec'[c] = cspec[c]
      BY <1>0, <2>1, <2>4, <3>1, <3>4 DEF Return, Goto, CallTypes
    <3>6. KeysFindTheirs'
      BY <1>0, <2>1 DEF KeysFindTheirs
    <3>7. MadeAsAsked'
      BY <1>0, <2>1, <3>5 DEF MadeAsAsked
    <3>8. AnsweredRight'
      BY <1>0, <2>1, <3>2, <3>3, <3>5 DEF AnsweredRight
    <3> QED
      BY <3>6, <3>7, <3>8 DEF Answers
  <2> QED
    BY <2>3, <2>4
<1>2. ASSUME NEW c \in Callers, PersistStarting(c) PROVE Answers'
  <2>1. /\ lastId \in Int /\ lastId' = lastId + 1 /\ lastId' \in Jobs
        /\ keyOf' = [keyOf EXCEPT ![lastId'] = ckey[c]]
        /\ specOf' = [specOf EXCEPT ![lastId'] = cspec[c]]
        /\ UNCHANGED <<idem, proc, state, ckey, cspec>>
    BY <1>0, <1>2 DEF PersistStarting, IdTypes, Jobs
  <2>2. \A j \in Jobs : j <= lastId =>
           /\ j <= lastId' /\ keyOf'[j] = keyOf[j] /\ specOf'[j] = specOf[j]
    BY <1>0, <2>1 DEF IdTypes, Jobs
  <2>3. /\ \A d \in Callers : d # c => pc'[d] = pc[d] /\ cjob'[d] = cjob[d]
        /\ \/ pc'[c] = "launching" /\ cjob'[c] = lastId'
           \/ pc'[c] = "aborting"
    BY <1>0, <1>2, <2>1 DEF PersistStarting, Goto, CallTypes
  <2>4. KeysFindTheirs'
    BY <1>0, <2>1, <2>2 DEF KeysFindTheirs, IndexTypes
  <2>5. MadeAsAsked'
    <3>1. specOf'[lastId'] = cspec[c] /\ lastId' <= lastId'
      BY <1>0, <2>1 DEF IdTypes
    <3>2. \A d \in Callers : pc[d] \in {"launching", "recording"} =>
             cjob[d] \in Jobs /\ cjob[d] <= lastId
      BY <1>0 DEF BeingStarted, MadeAsAsked
    <3>3. ASSUME NEW d \in Callers, pc'[d] \in {"launching", "recording"}
          PROVE  specOf'[cjob'[d]] = cspec'[d] /\ cjob'[d] <= lastId'
      <4>1. CASE d = c
        BY <2>1, <2>3, <3>1, <3>3, <4>1
      <4>2. CASE d # c
        <5>1. /\ pc[d] \in {"launching", "recording"} /\ cjob'[d] = cjob[d]
              /\ cspec'[d] = cspec[d]
          BY <2>1, <2>3, <3>3, <4>2
        <5>2. specOf[cjob[d]] = cspec[d]
          BY <1>0, <5>1 DEF MadeAsAsked
        <5> QED
          BY <2>2, <3>2, <5>1, <5>2
      <4> QED
        BY <4>1, <4>2
    <3> QED
      BY <3>3 DEF MadeAsAsked
  <2>6. AnsweredRight'
    <3>1. ASSUME NEW d \in Callers, pc'[d] = "returned"
          PROVE  /\ cjob'[d] \in Jobs /\ cjob'[d] <= lastId'
                 /\ keyOf'[cjob'[d]] = ckey'[d] /\ specOf'[cjob'[d]] = cspec'[d]
                 /\ proc'[cjob'[d]] # "none" \/ state'[cjob'[d]] = "unknown"
      <4>1. /\ pc[d] = "returned" /\ cjob'[d] = cjob[d]
            /\ ckey'[d] = ckey[d] /\ cspec'[d] = cspec[d]
        BY <2>1, <2>3, <3>1
      <4>2. /\ cjob[d] \in Jobs /\ cjob[d] <= lastId
            /\ keyOf[cjob[d]] = ckey[d] /\ specOf[cjob[d]] = cspec[d]
            /\ proc[cjob[d]] # "none" \/ state[cjob[d]] = "unknown"
        BY <1>0, <4>1 DEF AnsweredRight
      <4> QED
        BY <2>1, <2>2, <4>1, <4>2
    <3> QED
      BY <3>1 DEF AnsweredRight
  <2> QED
    BY <2>4, <2>5, <2>6 DEF Answers
<1>3. ASSUME NEW c \in Callers, Launch(c) PROVE AnswersStay
  BY <1>0, <1>3 DEF Launch, Goto, CallTypes, JobTypes, BeingStarted, AnswersStay
<1>4. ASSUME NEW c \in Callers, Record(c) PROVE Answers'
  <2>1. /\ cjob[c] \in Jobs /\ ckey[c] \in Keys /\ keyOf[cjob[c]] = ckey[c]
        /\ specOf[cjob[c]] = cspec[c] /\ cjob[c] <= lastId
        /\ proc[cjob[c]] # "none" /\ state[cjob[c]] = "none"
    BY <1>0, <1>4 DEF Record, BeingStarted, MadeAsAsked, StartsAreApart
  <2>2. /\ UNCHANGED <<keyOf, specOf, lastId, proc, ckey, cspec, cjob>>
        /\ idem' = [idem EXCEPT ![ckey[c]] = cjob[c]]
        /\ state' = [state EXCEPT ![cjob[c]] = "running"]
    BY <1>4 DEF Record
  <2>3. /\ \A d \in Callers : pc'[d] \in {"launching", "recording"} => pc'[d] = pc[d]
        /\ \A d \in Callers : pc'[d] = "returned" => d = c \/ pc[d] = "returned"
    BY <1>0, <1>4 DEF Record, EndReservation, CallTypes
  <2>4. KeysFindTheirs'
    BY <1>0, <2>1, <2>2 DEF KeysFindTheirs, IndexTypes
  <2>5. MadeAsAsked'
    BY <1>0, <2>2, <2>3 DEF MadeAsAsked
  <2>6. AnsweredRight'
    <3>1. \A j \in Jobs : state[j] = "unknown" => state'[j] = "unknown"
      BY <1>0, <2>1, <2>2 DEF JobTypes
    <3> QED
      BY <1>0, <2>1, <2>2, <2>3, <3>1 DEF AnsweredRight
  <2> QED
    BY <2>4, <2>5, <2>6 DEF Answers
<1>5. ASSUME NEW c \in Callers, Reserve(c) PROVE AnswersStay
  BY <1>0, <1>5 DEF Reserve, Return, Goto, Cleanup, Without, Removable, Terminal,
                    CallTypes, JobTypes, IndexTypes, AtEntry, AnswersStay
<1>6. ASSUME NEW c \in Callers, LaunchFails(c) \/ RecordFails(c)
      PROVE  AnswersStay
  BY <1>0, <1>6 DEF LaunchFails, RecordFails, Goto, CallTypes, AnswersStay
<1>7. ASSUME NEW c \in Callers, KillUnrecorded(c) PROVE AnswersStay
  BY <1>0, <1>7 DEF KillUnrecorded, Killed, Goto, CallTypes, JobTypes,
                    AnswersStay
<1>8. ASSUME NEW c \in Callers, NEW k \in Keys, NEW s \in Specs, Call(c, k, s)
      PROVE  AnswersStay
  BY <1>0, <1>8 DEF Call, Goto, CallTypes, AnswersStay
<1>9. ASSUME NEW c \in Callers,
        \/ Refuse(c) \/ Await(c) \/ PrepareFails(c) \/ Release(c)
        \/ GiveUp(c) \/ Answered(c)
      PROVE  AnswersStay
  BY <1>0, <1>9 DEF Refuse, Await, PrepareFails, Release, GiveUp, Answered,
                    Return, Goto, CallTypes, AnswersStay
<1>10. ASSUME NEW c \in Callers, Abort(c) PROVE AnswersStay
  BY <1>0, <1>10 DEF Abort, EndReservation, Goto, CallTypes, AnswersStay
<1>11. ASSUME NEW j \in Jobs, Exit(j) \/ TakeStop(j) \/ TimeOut(j)
       PROVE  AnswersStay
  BY <1>0, <1>11 DEF Exit, TakeStop, TimeOut, Killed, JobTypes, AnswersStay
<1>12. ASSUME NEW j \in Jobs, Finish(j) PROVE AnswersStay
  BY <1>0, <1>12 DEF Finish, JobTypes, Supervised, AnswersStay
<1>13. ASSUME NEW j \in Jobs,
         \/ Reap(j) \/ PersistFinished(j) \/ FreeSlot(j) \/ WatchTerminal(j)
         \/ Cancel(j)
       PROVE  AnswersStay
  BY <1>13 DEF Reap, PersistFinished, FreeSlot, WatchTerminal, Cancel,
               AnswersStay
<1>14. ASSUME NEW j \in Jobs, RecoverUnknown(j) PROVE AnswersStay
  BY <1>0, <1>14 DEF RecoverUnknown, ConfirmStopped, NotConfirmed, Alive,
                     JobTypes, NoProcess, AnswersStay
<1>15. ASSUME NEW j \in Jobs, RestoreRecord(j) PROVE Answers'
  <2>1. /\ UNCHANGED <<keyOf, specOf, lastId, pc>>
        /\ idem' = [idem EXCEPT ![keyOf[j]] = j]
        /\ \A c \in Callers : pc[c] = "idle"
        /\ dstate[j] # "none"
    BY <1>15 DEF RestoreRecord, LockHolder
  <2>2. j <= lastId
    BY <1>0, <2>1 DEF FreshIds, IdTypes, Jobs
  <2> QED
    BY <1>0, <2>1, <2>2 DEF Answers, KeysFindTheirs, MadeAsAsked, AnsweredRight,
                            IndexTypes
<1>16. CASE Maintenance
  <2>1. AnswersStay
    BY <1>0, <1>16 DEF Maintenance, Cleanup, Without, Removable, Terminal,
                       JobTypes, IndexTypes, AnswersStay
  <2> QED
    BY <2>1, AnswersKeep
<1>17. CASE Crash
  BY <1>17 DEF Crash, Answers, KeysFindTheirs, MadeAsAsked, AnsweredRight
<1>18. CASE \/ Load \/ Restored \/ WatchReturn \/ CancelAll \/ CancelAllReturns
            \/ CancelAllTimesOut \/ UNCHANGED vars
  <2>1. AnswersStay
    BY <1>18 DEF Load, Restored, WatchReturn, CancelAll, CancelAllReturns,
                 CancelAllTimesOut, vars, AnswersStay
  <2> QED
    BY <2>1, AnswersKeep
<1> QED
  BY <1>1, <1>2, <1>3, <1>4, <1>5, <1>6, <1>7, <1>8, <1>9, <1>10, <1>11, <1>12,
     <1>13, <1>14, <1>15, <1>16, <1>17, <1>18, AnswersKeep
     DEF Next, CallerStep, RunnerStep, RestoreStep

(***************************************************************************)
(* A job whose start is over, one way or the other; and what was reported  *)
(* of a job is in memory and in the ledger, or nowhere any more.           *)
(***************************************************************************)
Begun(j) ==
    /\ j <= lastId
    /\ \A c \in Callers : pc[c] \in {"launching", "recording"} => cjob[c] # j

Watched ==
    /\ watch # 0 => /\ up = "up" /\ Begun(watch)
                    /\ state[watch] \in Terminal \cup {"none"}
    /\ shutdown # "no" => up = "up"

Reported(j) ==
    reported[j] # "none" =>
        /\ reported[j] \in Terminal /\ Begun(j)
        /\ state[j] \in {"none", reported[j]}
        /\ dstate[j] = reported[j] \/ (j \in evicted /\ dstate[j] = "none")
        /\ up = "up" => state[j] = reported[j] \/ j \in evicted

Reports == Watched /\ \A j \in Jobs : Reported(j)

\* Most steps report nothing; what they save is what is in memory.
ReportsStay ==
    /\ UNCHANGED <<watch, reported, up>>
    /\ shutdown' = shutdown \/ up = "up"
    /\ up = "up" \/ UNCHANGED <<state, dstate, evicted>>
    /\ evicted \subseteq evicted'
    /\ \A j \in Jobs : Begun(j) =>
          /\ Begun(j)'
          /\ state[j] = "none" => state'[j] = "none"
          /\ state[j] \in Terminal =>
                state'[j] = state[j] \/ (state'[j] = "none" /\ j \in evicted')
          /\ dstate'[j] = dstate[j] \/ dstate'[j] = state'[j]

\* They keep the reports.
LEMMA ReportsKeep ==
    ASSUME NodeTypes, Reports, ReportsStay
    PROVE  Reports'
<1>1. Watched'
  BY DEF NodeTypes, Reports, Watched, ReportsStay
<1>2. ASSUME NEW j \in Jobs, reported[j] # "none"
      PROVE  /\ reported[j] \in Terminal /\ Begun(j)'
             /\ state'[j] \in {"none", reported[j]}
             /\ dstate'[j] = reported[j] \/ (j \in evicted' /\ dstate'[j] = "none")
             /\ up = "up" => state'[j] = reported[j] \/ j \in evicted'
  <2>1. /\ reported[j] \in Terminal /\ Begun(j)
        /\ state[j] \in {"none", reported[j]}
        /\ dstate[j] = reported[j] \/ (j \in evicted /\ dstate[j] = "none")
        /\ up = "up" => state[j] = reported[j] \/ j \in evicted
    BY <1>2 DEF Reports, Reported
  <2>2. /\ Begun(j)' /\ (j \in evicted => j \in evicted')
        /\ state[j] = "none" => state'[j] = "none"
        /\ state[j] \in Terminal =>
              state'[j] = state[j] \/ (state'[j] = "none" /\ j \in evicted')
        /\ dstate'[j] = dstate[j] \/ dstate'[j] = state'[j]
    BY <2>1 DEF ReportsStay
  <2>3. CASE up = "up"
    BY <2>1, <2>2, <2>3 DEF Terminal
  <2>4. CASE up # "up"
    BY <2>1, <2>2, <2>4 DEF ReportsStay
  <2> QED
    BY <2>3, <2>4
<1>3. up' = up /\ reported' = reported
  BY DEF ReportsStay
<1> QED
  BY <1>1, <1>2, <1>3 DEF Reports, Reported

\* What begins nothing keeps what has begun.
LEMMA BegunStays ==
    ASSUME UNCHANGED lastId,
           \A c \in Callers : pc'[c] \in {"launching", "recording"} =>
              pc[c] \in {"launching", "recording"} /\ cjob'[c] = cjob[c]
    PROVE  \A j \in Jobs : Begun(j) => Begun(j)'
  BY DEF Begun

\* A job that is in memory has begun.
LEMMA InMemoryHasBegun ==
    ASSUME IdTypes, BeingStarted, FreshIds, NEW j \in Jobs, state[j] # "none"
    PROVE  Begun(j)
  BY DEF IdTypes, BeingStarted, FreshIds, Begun, Jobs

\* Every step keeps what was reported, when the ledger can be read.
LEMMA ReportsStep ==
    ASSUME "read" \notin Faults, TypeOK, LockHolder, BeingStarted, FreshIds,
           Supervised, Reports, [Next]_vars
    PROVE  Reports'
<1> USE DEF nodeVars, closeVars, jobVars, indexVars, callVars, diskVars,
            idVars, histVars
<1>0. /\ CallTypes /\ JobTypes /\ IndexTypes /\ IdTypes /\ NodeTypes /\ DiskTypes
      /\ Watched /\ \A j \in Jobs : Reported(j)
  BY DEF TypeOK, Reports
<1>1. ASSUME NEW c \in Callers, Reserve(c) PROVE ReportsStay
  <2>1. \A j \in Jobs : Begun(j) => Begun(j)'
    <3>1. \A d \in Callers : pc'[d] \in {"launching", "recording"} =>
             pc[d] \in {"launching", "recording"} /\ cjob'[d] = cjob[d]
      BY <1>0, <1>1 DEF Reserve, Return, Goto, CallTypes
    <3>2. UNCHANGED lastId
      BY <1>1 DEF Reserve
    <3> QED
      BY <3>1, <3>2, BegunStays
  <2> QED
    BY <1>0, <1>1, <2>1 DEF Reserve, AtEntry, Cleanup, Without, Write, WriteFails,
                            JobTypes, ReportsStay
<1>2. ASSUME NEW c \in Callers, PersistStarting(c) PROVE ReportsStay
  <2>1. /\ lastId \in Int /\ lastId' = lastId + 1 /\ pc[c] = "preparing"
        /\ UNCHANGED <<watch, reported, up, shutdown, state, evicted>>
    BY <1>0, <1>2 DEF PersistStarting, IdTypes, Jobs
  <2>2. up = "up"
    BY <2>1 DEF LockHolder
  <2>3. /\ \A d \in Callers : d # c => pc'[d] = pc[d] /\ cjob'[d] = cjob[d]
        /\ \/ pc'[c] = "launching" /\ cjob'[c] = lastId + 1
           \/ pc'[c] = "aborting"
    BY <1>0, <1>2 DEF PersistStarting, Goto, CallTypes
  <2>4. \A j \in Jobs : Begun(j) => Begun(j)' /\ j # lastId + 1
    BY <2>1, <2>3 DEF Begun, Jobs
  <2>5. \A j \in Jobs : j # lastId + 1 => dstate'[j] \in {dstate[j], state[j]}
    BY <1>0, <1>2 DEF PersistStarting, WithStarting, Write, WriteFails, JobTypes
  <2> QED
    BY <2>1, <2>2, <2>4, <2>5 DEF ReportsStay
<1>3. ASSUME NEW c \in Callers, Launch(c) PROVE ReportsStay
  <2>1. \A j \in Jobs : Begun(j) => Begun(j)'
    BY <1>0, <1>3, BegunStays DEF Launch, Goto, CallTypes
  <2> QED
    BY <1>3, <2>1 DEF Launch, ReportsStay
<1>4. ASSUME NEW c \in Callers, LaunchFails(c) \/ RecordFails(c)
      PROVE  ReportsStay
  <2>1. \A j \in Jobs : Begun(j) => Begun(j)'
    BY <1>0, <1>4, BegunStays DEF LaunchFails, RecordFails, Goto, CallTypes
  <2>2. up = "up"
    BY <1>4 DEF LaunchFails, RecordFails, LockHolder
  <2> QED
    BY <1>4, <2>1, <2>2 DEF LaunchFails, RecordFails, Persist, Write, WriteFails,
                            ReportsStay
<1>5. ASSUME NEW c \in Callers, Record(c) PROVE ReportsStay
  <2>1. \A j \in Jobs : Begun(j) => Begun(j)' /\ j # cjob[c]
    <3>1. /\ UNCHANGED lastId /\ pc[c] = "recording"
          /\ \A d \in Callers : pc'[d] \in {"launching", "recording"} =>
                pc[d] \in {"launching", "recording"} /\ cjob'[d] = cjob[d]
      BY <1>0, <1>5 DEF Record, EndReservation, CallTypes
    <3> QED
      BY <3>1 DEF Begun
  <2>2. up = "up"
    BY <1>5 DEF Record, LockHolder
  <2>3. /\ UNCHANGED <<watch, reported, up, shutdown, evicted>>
        /\ state' = [state EXCEPT ![cjob[c]] = "running"] /\ dstate' = state'
    BY <1>5 DEF Record, Write
  <2> QED
    BY <1>0, <2>1, <2>2, <2>3 DEF ReportsStay, JobTypes
<1>6. ASSUME NEW c \in Callers, NEW k \in Keys, NEW s \in Specs, Call(c, k, s)
      PROVE  ReportsStay
  <2>1. \A j \in Jobs : Begun(j) => Begun(j)'
    BY <1>0, <1>6, BegunStays DEF Call, Goto, CallTypes
  <2> QED
    BY <1>6, <2>1 DEF Call, ReportsStay
<1>7. ASSUME NEW c \in Callers,
        \/ Refuse(c) \/ Replay(c) \/ Await(c) \/ PrepareFails(c) \/ Release(c)
        \/ GiveUp(c) \/ Answered(c) \/ KillUnrecorded(c)
      PROVE  ReportsStay
  <2>1. /\ UNCHANGED lastId
        /\ \A d \in Callers : pc'[d] \in {"launching", "recording"} =>
              pc[d] \in {"launching", "recording"} /\ cjob'[d] = cjob[d]
    BY <1>0, <1>7 DEF Refuse, Replay, Await, PrepareFails, Release, GiveUp,
                      Answered, KillUnrecorded, Return, Goto, CallTypes
  <2>2. \A j \in Jobs : Begun(j) => Begun(j)'
    BY <2>1, BegunStays
  <2>3. UNCHANGED <<watch, reported, up, shutdown, state, dstate, evicted>>
    BY <1>7 DEF Refuse, Replay, Await, PrepareFails, Release, GiveUp, Answered,
                KillUnrecorded
  <2> QED
    BY <2>2, <2>3 DEF ReportsStay
<1>8. ASSUME NEW c \in Callers, Abort(c) PROVE ReportsStay
  <2>1. \A j \in Jobs : Begun(j) => Begun(j)'
    <3>1. \A d \in Callers : pc'[d] \in {"launching", "recording"} =>
             pc[d] \in {"launching", "recording"} /\ cjob'[d] = cjob[d]
      BY <1>0, <1>8 DEF Abort, EndReservation, Goto, CallTypes
    <3> QED
      BY <1>8, <3>1, BegunStays DEF Abort
  <2> QED
    BY <1>8, <2>1 DEF Abort, ReportsStay
<1>9. ASSUME UNCHANGED <<pc, cjob, lastId>>
      PROVE  \A j \in Jobs : Begun(j) => Begun(j)'
  BY <1>9 DEF Begun
<1>10. ASSUME NEW j \in Jobs,
         \/ Exit(j) \/ TakeStop(j) \/ TimeOut(j) \/ Reap(j) \/ FreeSlot(j)
         \/ Cancel(j)
       PROVE  ReportsStay
  BY <1>9, <1>10 DEF Exit, TakeStop, TimeOut, Reap, FreeSlot, Cancel, ReportsStay
<1>11. ASSUME NEW j \in Jobs, Finish(j) PROVE ReportsStay
  BY <1>0, <1>9, <1>11 DEF Finish, Supervised, JobTypes, Terminal, ReportsStay
<1>12. ASSUME NEW j \in Jobs, PersistFinished(j) PROVE ReportsStay
  BY <1>9, <1>12 DEF PersistFinished, Supervised, Persist, Write, WriteFails,
                     ReportsStay
<1>13. ASSUME NEW j \in Jobs, RecoverUnknown(j) PROVE Reports'
  <2>1. /\ up = "up" /\ state[j] = "unknown"
        /\ UNCHANGED <<up, shutdown, reported, dstate, evicted, pc, cjob, lastId>>
        /\ \/ state' = [state EXCEPT ![j] = "interrupted"] /\ watch' = j
           \/ UNCHANGED <<state, watch>>
    BY <1>13 DEF RecoverUnknown
  <2>2. Begun(j)
    BY <1>0, <2>1, InMemoryHasBegun
  <2>3. Watched'
    BY <1>0, <1>9, <2>1, <2>2 DEF Watched, JobTypes, Terminal, NodeTypes
  <2>4. ASSUME NEW i \in Jobs PROVE Reported(i)'
    <3>1. Reported(i) /\ (Begun(i) => Begun(i)')
      BY <1>0, <1>9, <2>1
    <3>2. reported[i] # "none" => state'[i] = state[i]
      BY <1>0, <2>1, <3>1 DEF Reported, JobTypes, Terminal
    <3> QED
      BY <2>1, <3>1, <3>2 DEF Reported
  <2> QED
    BY <2>3, <2>4 DEF Reports
<1>14. ASSUME NEW j \in Jobs, RestoreRecord(j) PROVE Reports'
  <2>1. /\ up = "restoring" /\ dstate[j] # "none"
        /\ UNCHANGED <<up, shutdown, watch, reported, dstate, pc, cjob, lastId>>
        /\ \A i \in Jobs : i # j => state'[i] = state[i]
        /\ dstate[j] \notin {"starting", "running"} => state'[j] = dstate[j]
        /\ evicted' = evicted \ {j}
    BY <1>0, <1>14 DEF RestoreRecord, JobTypes
  <2>2. Watched'
    BY <1>0, <2>1 DEF Watched
  <2>3. ASSUME NEW i \in Jobs PROVE Reported(i)'
    <3>1. Reported(i) /\ (Begun(i) => Begun(i)')
      BY <1>0, <1>9, <2>1
    <3> QED
      BY <2>1, <3>1 DEF Reported, Terminal
  <2> QED
    BY <2>2, <2>3 DEF Reports
<1>15. ASSUME NEW j \in Jobs, WatchTerminal(j) PROVE Reports'
  <2>1. /\ up = "up" /\ state[j] \in Terminal /\ watch' = j
        /\ UNCHANGED <<up, shutdown, reported, state, dstate, evicted, pc, cjob,
                       lastId>>
    BY <1>15 DEF WatchTerminal
  <2>2. Begun(j)
    BY <1>0, <2>1, InMemoryHasBegun DEF Terminal
  <2>3. Watched'
    BY <1>9, <2>1, <2>2 DEF Watched
  <2>4. \A i \in Jobs : Reported(i)'
    BY <1>0, <1>9, <2>1 DEF Reported
  <2> QED
    BY <2>3, <2>4 DEF Reports
<1>16. CASE WatchReturn
  <2>1. /\ watch \in Jobs /\ watch' = 0
        /\ UNCHANGED <<up, shutdown, state, evicted, pc, cjob, lastId>>
        /\ \/ /\ dstate' = state
              /\ reported' = [reported EXCEPT ![watch] =
                                IF state[watch] = "none" THEN @ ELSE state[watch]]
           \/ UNCHANGED <<dstate, reported>>
    BY <1>0, <1>16 DEF WatchReturn, Write, WriteFails, NodeTypes
  <2>2. /\ up = "up" /\ Begun(watch) /\ state[watch] \in Terminal \cup {"none"}
    BY <1>0, <2>1, BoundsAssumption DEF Watched, Jobs
  <2>3. Watched'
    BY <1>0, <2>1, <2>2 DEF Watched
  <2>4. ASSUME NEW i \in Jobs PROVE Reported(i)'
    <3>1. Reported(i) /\ (Begun(i) => Begun(i)')
      BY <1>0, <1>9, <2>1
    <3>2. CASE UNCHANGED <<dstate, reported>>
      BY <2>1, <3>1, <3>2 DEF Reported
    <3>3. CASE /\ dstate' = state
               /\ reported' = [reported EXCEPT ![watch] =
                                 IF state[watch] = "none" THEN @ ELSE state[watch]]
      <4>1. CASE i = watch /\ state[watch] # "none"
        <5>1. reported'[i] = state[i]
          BY <1>0, <3>3, <4>1 DEF IdTypes
        <5> QED
          BY <1>9, <2>1, <2>2, <3>3, <4>1, <5>1 DEF Reported
      <4>2. CASE ~(i = watch /\ state[watch] # "none")
        <5>1. reported'[i] = reported[i]
          BY <1>0, <3>3, <4>2 DEF IdTypes
        <5> QED
          BY <2>1, <2>2, <3>1, <3>3, <5>1 DEF Reported
      <4> QED
        BY <4>1, <4>2
    <3> QED
      BY <2>1, <3>2, <3>3
  <2> QED
    BY <2>3, <2>4 DEF Reports
<1>17. CASE Maintenance
  <2>1. ReportsStay
    BY <1>0, <1>9, <1>17 DEF Maintenance, Cleanup, Without, Persist, Write,
                             WriteFails, JobTypes, ReportsStay
  <2> QED
    BY <1>0, <2>1, ReportsKeep
<1>18. CASE CancelAll \/ CancelAllReturns \/ CancelAllTimesOut
  <2>1. up = "up"
    BY <1>0, <1>18 DEF CancelAll, CancelAllReturns, CancelAllTimesOut, Watched
  <2>2. ReportsStay
    BY <1>9, <1>18, <2>1 DEF CancelAll, CancelAllReturns, CancelAllTimesOut, Write,
                             WriteFails, ReportsStay
  <2> QED
    BY <1>0, <2>2, ReportsKeep
<1>19. CASE Crash
  <2>1. /\ up' = "down" /\ watch' = 0 /\ shutdown' = "no"
        /\ UNCHANGED <<reported, dstate, evicted, lastId>>
        /\ \A j \in Jobs : state'[j] = "none"
        /\ \A c \in Callers : pc'[c] = "idle"
    BY <1>19 DEF Crash
  <2> QED
    BY <1>0, <2>1 DEF Reports, Watched, Reported, Begun
<1>20. CASE Load
  <2>1. /\ up = "down" /\ up' = "restoring"
        /\ UNCHANGED <<watch, shutdown, reported, state, dstate, evicted, pc, cjob,
                       lastId>>
    BY <1>20 DEF Load
  <2>2. Watched'
    BY <1>0, <2>1 DEF Watched
  <2>3. \A j \in Jobs : Reported(j)'
    BY <1>0, <1>9, <2>1 DEF Reported
  <2> QED
    BY <2>2, <2>3 DEF Reports
<1>21. CASE Restored
  <2>1. /\ up = "restoring" /\ up' = "up"
        /\ UNCHANGED <<watch, shutdown, reported, state, evicted, pc, cjob, lastId>>
        /\ dstate' \in {dstate, state}
        /\ \A j \in Jobs : dstate[j] # "none" => state[j] # "none"
    BY <1>21 DEF Restored, Persist, Write, WriteFails
  <2>2. Watched'
    BY <1>0, <2>1 DEF Watched
  <2>3. ASSUME NEW j \in Jobs PROVE Reported(j)'
    <3>1. Reported(j) /\ (Begun(j) => Begun(j)')
      BY <1>0, <1>9, <2>1
    <3>2. dstate'[j] \in {dstate[j], state[j]}
      BY <2>1
    <3> QED
      BY <2>1, <3>1, <3>2 DEF Reported, Terminal
  <2> QED
    BY <2>2, <2>3 DEF Reports
<1>22. CASE UNCHANGED vars
  <2>1. ReportsStay
    BY <1>9, <1>22 DEF vars, ReportsStay
  <2> QED
    BY <1>0, <2>1, ReportsKeep
<1> QED
  BY <1>0, <1>1, <1>2, <1>3, <1>4, <1>5, <1>6, <1>7, <1>8, <1>10, <1>11, <1>12,
     <1>13, <1>14, <1>15, <1>16, <1>17, <1>18, <1>19, <1>20, <1>21, <1>22,
     ReportsKeep
     DEF Next, CallerStep, RunnerStep, RestoreStep

(***************************************************************************)
(* When the ledger can be read, a caller of StartExecution gets the job    *)
(* that it asked for, and a terminal state that Watch has returned stays   *)
(* what memory and the ledger say of the job, over failed saves, evictions,*)
(* crashes and restarts.                                                   *)
(***************************************************************************)
THEOREM ReportsStayTrue ==
    ASSUME "read" \notin Faults
    PROVE  Spec => []ReportsAreTrue
<1> DEFINE Inv == StoppedInv /\ StartsAreApart /\ NoProcess /\ Answers /\ Reports
<1>1. Init => Inv
  <2> SUFFICES ASSUME Init PROVE Inv
    OBVIOUS
  <2>1. StartsAreApart /\ NoProcess /\ Answers
    BY DEF Init, StartsAreApart, NoProcess, Answers, KeysFindTheirs, MadeAsAsked,
           AnsweredRight
  <2>2. Reports
    BY DEF Init, Reports, Watched, Reported
  <2> QED
    BY <2>1, <2>2, StoppedInit
<1>2. Inv /\ [Next]_vars => Inv'
  BY StoppedStep, StartsAreApartStep, NoProcessStep, AnswersStep, ReportsStep
     DEF StoppedInv, TypeOK
<1>3. Inv => ReportsAreTrue
  <2> SUFFICES ASSUME Inv PROVE ReportsAreTrue
    OBVIOUS
  <2>1. AnswerMatchesRequest
    BY DEF Answers, AnsweredRight, AnswerMatchesRequest
  <2>2. ReportedIsStable
    BY DEF Reports, Reported, ReportedIsStable, Terminal
  <2> QED
    BY <2>1, <2>2 DEF ReportsAreTrue
<1> QED
  BY <1>1, <1>2, <1>3, PTL DEF Spec

-----------------------------------------------------------------------------
(***************************************************************************)
(* The slots of m.semaphore: what a step takes or frees is counted once.   *)
(***************************************************************************)
Starts == {c \in Callers : pc[c] \in Reserving}
Supervising == {j \in Jobs : runner[j] # "none"}
Slots == IsFiniteSet(Starts) /\ SlotsAccounted

\* Most steps take no slot and free none.
SlotsStay ==
    /\ sem' = sem
    /\ \A c \in Callers : pc'[c] \in Reserving <=> pc[c] \in Reserving
    /\ \A j \in Jobs : runner'[j] = "none" <=> runner[j] = "none"

\* Every set of jobs is finite.
LEMMA JobsAreFinite ==
    ASSUME NEW S \in SUBSET Jobs
    PROVE  IsFiniteSet(S)
<1>1. IsFiniteSet(1..MaxJobs)
  <2> MaxJobs \in Int /\ 1 \in Int
    BY BoundsAssumption
  <2> QED
    BY FS_Interval
<1> QED
  BY <1>1, FS_Subset DEF Jobs

\* They keep the count.
LEMMA SlotsKeep ==
    ASSUME Slots, SlotsStay
    PROVE  Slots'
<1>1. Starts' = Starts
  BY DEF SlotsStay, Starts
<1>2. Supervising' = Supervising
  BY DEF SlotsStay, Supervising
<1> QED
  BY <1>1, <1>2 DEF Slots, SlotsAccounted, SlotsStay, Starts, Supervising

\* A start that begins takes a slot, if one is free.
LEMMA SlotTaken ==
    ASSUME Slots, NEW c \in Callers, pc[c] \notin Reserving, sem \in Int,
           sem < MaxConcurrentJobs, sem' = sem + 1, runner' = runner,
           Starts' = Starts \cup {c}
    PROVE  Slots'
<1>1. c \notin Starts
  BY DEF Starts
<1>2. IsFiniteSet(Starts') /\ Cardinality(Starts') = Cardinality(Starts) + 1
  BY <1>1, FS_AddElement DEF Slots
<1>3. Cardinality(Supervising') = Cardinality(Supervising)
  BY DEF Supervising
<1>4. Cardinality(Starts) \in Nat /\ Cardinality(Supervising) \in Nat
  BY FS_CardinalityType, JobsAreFinite DEF Slots, Supervising
<1>5. sem = Cardinality(Starts) + Cardinality(Supervising)
  BY DEF Slots, SlotsAccounted, Starts, Supervising
<1>6. sem' = Cardinality(Starts') + Cardinality(Supervising')
  BY <1>2, <1>3, <1>4, <1>5
<1>7. sem' <= MaxConcurrentJobs
  BY BoundsAssumption
<1> QED
  BY <1>2, <1>6, <1>7 DEF Slots, SlotsAccounted, Starts, Supervising

\* A start that fails frees the slot it took.
LEMMA StartFreesSlot ==
    ASSUME Slots, NEW c \in Callers, pc[c] \in Reserving, sem' = sem - 1,
           runner' = runner, Starts' = Starts \ {c}
    PROVE  Slots'
<1>1. c \in Starts
  BY DEF Starts
<1>2. IsFiniteSet(Starts') /\ Cardinality(Starts') = Cardinality(Starts) - 1
  BY <1>1, FS_RemoveElement DEF Slots
<1>3. Cardinality(Supervising') = Cardinality(Supervising)
  BY DEF Supervising
<1>4. Cardinality(Starts) \in Nat /\ Cardinality(Supervising) \in Nat
  BY FS_CardinalityType, JobsAreFinite DEF Slots, Supervising
<1>5. sem = Cardinality(Starts) + Cardinality(Supervising) /\ sem <= MaxConcurrentJobs
  BY DEF Slots, SlotsAccounted, Starts, Supervising
<1>6. sem' = Cardinality(Starts') + Cardinality(Supervising') /\ sem' <= MaxConcurrentJobs
  BY <1>2, <1>3, <1>4, <1>5, BoundsAssumption
<1> QED
  BY <1>2, <1>6 DEF Slots, SlotsAccounted, Starts, Supervising

\* The slot of a start that succeeds is the slot of its supervisor.
LEMMA SlotHandedOver ==
    ASSUME Slots, NEW c \in Callers, NEW j \in Jobs, pc[c] \in Reserving,
           runner[j] = "none", sem' = sem, Starts' = Starts \ {c},
           Supervising' = Supervising \cup {j}
    PROVE  Slots'
<1>1. c \in Starts /\ j \notin Supervising
  BY DEF Starts, Supervising
<1>2. IsFiniteSet(Supervising)
  BY JobsAreFinite DEF Supervising
<1>3. IsFiniteSet(Starts') /\ Cardinality(Starts') = Cardinality(Starts) - 1
  BY <1>1, FS_RemoveElement DEF Slots
<1>4. Cardinality(Supervising') = Cardinality(Supervising) + 1
  BY <1>1, <1>2, FS_AddElement
<1>5. Cardinality(Starts) \in Nat /\ Cardinality(Supervising) \in Nat
  BY <1>2, FS_CardinalityType DEF Slots
<1>6. sem' = Cardinality(Starts') + Cardinality(Supervising')
  BY <1>3, <1>4, <1>5 DEF Slots, SlotsAccounted, Starts, Supervising
<1>7. sem' <= MaxConcurrentJobs
  BY DEF Slots, SlotsAccounted
<1> QED
  BY <1>3, <1>6, <1>7 DEF Slots, SlotsAccounted, Starts, Supervising

\* A supervisor that ends frees its slot.
LEMMA RunnerFreesSlot ==
    ASSUME Slots, NEW j \in Jobs, runner[j] # "none", sem' = sem - 1,
           pc' = pc, Supervising' = Supervising \ {j}
    PROVE  Slots'
<1>1. j \in Supervising
  BY DEF Supervising
<1>2. IsFiniteSet(Supervising)
  BY JobsAreFinite DEF Supervising
<1>3. Cardinality(Supervising') = Cardinality(Supervising) - 1
  BY <1>1, <1>2, FS_RemoveElement
<1>4. Starts' = Starts
  BY DEF Starts
<1>5. Cardinality(Starts) \in Nat /\ Cardinality(Supervising) \in Nat
  BY <1>2, FS_CardinalityType DEF Slots
<1>6. sem = Cardinality(Starts) + Cardinality(Supervising) /\ sem <= MaxConcurrentJobs
  BY DEF Slots, SlotsAccounted, Starts, Supervising
<1>7. sem' = Cardinality(Starts') + Cardinality(Supervising') /\ sem' <= MaxConcurrentJobs
  BY <1>3, <1>4, <1>5, <1>6, BoundsAssumption
<1>8. IsFiniteSet(Starts')
  BY <1>4 DEF Slots
<1> QED
  BY <1>7, <1>8 DEF Slots, SlotsAccounted, Starts, Supervising

\* No slot is taken and none is free twice, whatever fails and ends early.
LEMMA SlotsStep ==
    ASSUME NodeTypes, CallTypes, JobTypes, BeingStarted, Slots, [Next]_vars
    PROVE  Slots'
<1> USE DEF nodeVars, closeVars, jobVars, indexVars, callVars, diskVars,
            idVars, histVars
<1>1. ASSUME NEW c \in Callers, NEW k \in Keys, NEW s \in Specs, Call(c, k, s)
      PROVE  Slots'
  <2> SlotsStay
    BY <1>1 DEF Call, Goto, CallTypes, SlotsStay, Reserving
  <2> QED
    BY SlotsKeep
<1>2. ASSUME NEW c \in Callers, Refuse(c) PROVE Slots'
  <2> SlotsStay
    BY <1>2 DEF Refuse, AtEntry, Return, Goto, CallTypes, SlotsStay, Reserving
  <2> QED
    BY SlotsKeep
<1>3. ASSUME NEW c \in Callers, Replay(c) PROVE Slots'
  <2> SlotsStay
    BY <1>3 DEF Replay, AtEntry, Return, Goto, CallTypes, SlotsStay, Reserving
  <2> QED
    BY SlotsKeep
<1>4. ASSUME NEW c \in Callers, Await(c) PROVE Slots'
  <2> SlotsStay
    BY <1>4 DEF Await, AtEntry, Return, Goto, CallTypes, SlotsStay, Reserving
  <2> QED
    BY SlotsKeep
<1>5. ASSUME NEW c \in Callers, Reserve(c) PROVE Slots'
  <2>1. pc[c] = "entry" /\ pc[c] \notin Reserving /\ runner' = runner
    BY <1>5 DEF Reserve, AtEntry, Reserving
  <2>2. CASE Return(c, 0) /\ sem' = sem
    <3> SlotsStay
      BY <2>1, <2>2 DEF Return, Goto, CallTypes, SlotsStay, Reserving
    <3> QED
      BY SlotsKeep
  <2>3. CASE Goto(c, "preparing") /\ sem' = sem + 1 /\ sem < MaxConcurrentJobs
    <3>1. Starts' = Starts \cup {c}
      BY <2>3 DEF Goto, CallTypes, Starts, Reserving
    <3> QED
      BY <2>1, <2>3, <3>1, SlotTaken DEF NodeTypes
  <2> QED
    BY <1>5, <2>2, <2>3 DEF Reserve, HasRoom
<1>6. ASSUME NEW c \in Callers, PrepareFails(c) PROVE Slots'
  <2> SlotsStay
    BY <1>6 DEF PrepareFails, Goto, CallTypes, SlotsStay, Reserving
  <2> QED
    BY SlotsKeep
<1>7. ASSUME NEW c \in Callers, PersistStarting(c) PROVE Slots'
  <2> SlotsStay
    BY <1>7 DEF PersistStarting, Goto, CallTypes, SlotsStay, Reserving
  <2> QED
    BY SlotsKeep
<1>8. ASSUME NEW c \in Callers, Launch(c) PROVE Slots'
  <2> SlotsStay
    BY <1>8 DEF Launch, Goto, CallTypes, SlotsStay, Reserving
  <2> QED
    BY SlotsKeep
<1>9. ASSUME NEW c \in Callers, LaunchFails(c) PROVE Slots'
  <2> SlotsStay
    BY <1>9 DEF LaunchFails, Goto, CallTypes, SlotsStay, Reserving
  <2> QED
    BY SlotsKeep
<1>10. ASSUME NEW c \in Callers, Record(c) PROVE Slots'
  <2>1. pc[c] = "recording" /\ pc[c] \in Reserving /\ sem' = sem
    BY <1>10 DEF Record, Reserving
  <2>2. cjob[c] \in Jobs /\ runner[cjob[c]] = "none"
    BY <2>1 DEF BeingStarted
  <2>3. Starts' = Starts \ {c}
    BY <1>10 DEF Record, EndReservation, CallTypes, Starts, Reserving
  <2>4. Supervising' = Supervising \cup {cjob[c]}
    BY <1>10, <2>2 DEF Record, JobTypes, Supervising
  <2> QED
    BY <2>1, <2>2, <2>3, <2>4, SlotHandedOver
<1>11. ASSUME NEW c \in Callers, RecordFails(c) PROVE Slots'
  <2> SlotsStay
    BY <1>11 DEF RecordFails, Goto, CallTypes, SlotsStay, Reserving
  <2> QED
    BY SlotsKeep
<1>12. ASSUME NEW c \in Callers, KillUnrecorded(c) PROVE Slots'
  <2> SlotsStay
    BY <1>12 DEF KillUnrecorded, Goto, CallTypes, SlotsStay, Reserving
  <2> QED
    BY SlotsKeep
<1>13. ASSUME NEW c \in Callers, Abort(c) PROVE Slots'
  <2> SlotsStay
    BY <1>13 DEF Abort, EndReservation, Goto, CallTypes, SlotsStay, Reserving
  <2> QED
    BY SlotsKeep
<1>14. ASSUME NEW c \in Callers, Release(c) PROVE Slots'
  <2>1. pc[c] \in Reserving /\ sem' = sem - 1 /\ runner' = runner
    BY <1>14 DEF Release, Reserving
  <2>2. Starts' = Starts \ {c}
    BY <1>14 DEF Release, Return, Goto, CallTypes, Starts, Reserving
  <2> QED
    BY <2>1, <2>2, StartFreesSlot
<1>15. ASSUME NEW c \in Callers, GiveUp(c) \/ Answered(c) PROVE Slots'
  <2> SlotsStay
    BY <1>15 DEF GiveUp, Answered, Return, Goto, CallTypes, SlotsStay, Reserving
  <2> QED
    BY SlotsKeep
<1>16. ASSUME NEW j \in Jobs, Reap(j) \/ Finish(j) \/ PersistFinished(j) PROVE Slots'
  <2> SlotsStay
    BY <1>16 DEF Reap, Finish, PersistFinished, JobTypes, SlotsStay
  <2> QED
    BY SlotsKeep
<1>17. ASSUME NEW j \in Jobs, FreeSlot(j) PROVE Slots'
  <2>1. runner[j] # "none" /\ sem' = sem - 1 /\ pc' = pc
    BY <1>17 DEF FreeSlot
  <2>2. Supervising' = Supervising \ {j}
    BY <1>17 DEF FreeSlot, JobTypes, Supervising
  <2> QED
    BY <2>1, <2>2, RunnerFreesSlot
<1>18. ASSUME NEW j \in Jobs,
              \/ Exit(j) \/ TakeStop(j) \/ TimeOut(j) \/ RecoverUnknown(j)
              \/ WatchTerminal(j) \/ Cancel(j) \/ RestoreRecord(j)
       PROVE  Slots'
  <2> SlotsStay
    BY <1>18 DEF Exit, TakeStop, TimeOut, RecoverUnknown, WatchTerminal, Cancel,
                 RestoreRecord, SlotsStay
  <2> QED
    BY SlotsKeep
<1>19. CASE Crash
  <2>1. Starts' = {} /\ Supervising' = {}
    BY <1>19 DEF Crash, Starts, Supervising, Reserving
  <2>2. IsFiniteSet(Starts') /\ Cardinality(Starts') = 0 /\ Cardinality(Supervising') = 0
    BY <2>1, FS_EmptySet
  <2>3. sem' = 0
    BY <1>19 DEF Crash
  <2> QED
    BY <2>2, <2>3, BoundsAssumption DEF Slots, SlotsAccounted, Starts, Supervising
<1>20. CASE \/ WatchReturn \/ CancelAll \/ CancelAllReturns \/ CancelAllTimesOut
            \/ Maintenance \/ Load \/ Restored \/ UNCHANGED vars
  <2> SlotsStay
    BY <1>20 DEF WatchReturn, CancelAll, CancelAllReturns, CancelAllTimesOut,
                 Maintenance, Load, Restored, vars, SlotsStay
  <2> QED
    BY SlotsKeep
<1> QED
  BY <1>1, <1>2, <1>3, <1>4, <1>5, <1>6, <1>7, <1>8, <1>9, <1>10, <1>11, <1>12,
     <1>13, <1>14, <1>15, <1>16, <1>17, <1>18, <1>19, <1>20
     DEF Next, CallerStep, RunnerStep, RestoreStep

(***************************************************************************)
(* The slots of m.semaphore that are taken are those of the starts in      *)
(* progress and of the supervised jobs, at every step, whatever saves fail *)
(* and whenever the Node ends.                                             *)
(***************************************************************************)
THEOREM SlotsStayAccounted == Spec => []SlotsAccounted
<1>1. Init => StoppedInv /\ Slots
  <2> SUFFICES ASSUME Init PROVE Slots
    BY StoppedInit
  <2>1. Starts = {} /\ Supervising = {} /\ sem = 0
    BY DEF Init, Starts, Supervising, Reserving
  <2>2. IsFiniteSet(Starts) /\ Cardinality(Starts) = 0 /\ Cardinality(Supervising) = 0
    BY <2>1, FS_EmptySet
  <2> QED
    BY <2>1, <2>2, BoundsAssumption DEF Slots, SlotsAccounted, Starts, Supervising
<1>2. StoppedInv /\ Slots /\ [Next]_vars => (StoppedInv /\ Slots)'
  BY StoppedStep, SlotsStep DEF StoppedInv, TypeOK
<1>3. Slots => SlotsAccounted
  BY DEF Slots
<1> QED
  BY <1>1, <1>2, <1>3, PTL DEF Spec

-----------------------------------------------------------------------------
(***************************************************************************)
(* Retention: m.jobs and m.starting share maxRetainedJobs, and the ledger  *)
(* is written from m.jobs.                                                 *)
(***************************************************************************)
Reserved == {k \in Keys : starting[k] # None}
Recorded == {j \in Jobs : dstate[j] # "none"}
Retained == IsFiniteSet(Reserved) /\ RetentionBound

\* The ledger is left alone or holds what memory holds.
Saved ==
    \/ dstate' = dstate
    \/ \A j \in Jobs : dstate'[j] # "none" <=> state'[j] # "none"

\* A save of m.jobs, whether it succeeds or fails.
LEMMA PersistSaves ==
    ASSUME Persist(state')
    PROVE  Saved
  BY DEF Persist, Write, WriteFails, Saved, diskVars

\* What makes neither memory nor the reservations larger stays in the limit.
LEMMA RetainedKeeps ==
    ASSUME Retained, InMemory' \subseteq InMemory, Reserved' \subseteq Reserved, Saved
    PROVE  Retained'
<1>1. IsFiniteSet(InMemory) /\ IsFiniteSet(InMemory') /\ IsFiniteSet(Reserved)
  BY JobsAreFinite DEF InMemory, Retained
<1>2. IsFiniteSet(Reserved') /\ Cardinality(Reserved') <= Cardinality(Reserved)
  BY <1>1, FS_Subset
<1>3. Cardinality(InMemory') <= Cardinality(InMemory)
  BY <1>1, FS_Subset
<1>4. /\ Cardinality(InMemory) \in Nat /\ Cardinality(InMemory') \in Nat
      /\ Cardinality(Reserved) \in Nat /\ Cardinality(Reserved') \in Nat
  BY <1>1, <1>2, FS_CardinalityType
<1>5. Cardinality(InMemory') + Cardinality(Reserved') <= MaxRetainedJobs
  BY <1>2, <1>3, <1>4, BoundsAssumption DEF Retained, RetentionBound, Reserved
<1>6. Cardinality(Recorded') <= MaxRetainedJobs
  <2>1. CASE dstate' = dstate
    BY <2>1 DEF Retained, RetentionBound, Recorded
  <2>2. CASE \A j \in Jobs : dstate'[j] # "none" <=> state'[j] # "none"
    <3> Recorded' = InMemory'
      BY <2>2 DEF Recorded, InMemory
    <3> QED
      BY <1>4, <1>5, BoundsAssumption
  <2> QED
    BY <2>1, <2>2 DEF Saved
<1> QED
  BY <1>2, <1>5, <1>6 DEF Retained, RetentionBound, Reserved, Recorded

\* A reservation is made only while there is room for one more job.
LEMMA ReservationFits ==
    ASSUME Retained, NEW gone \in SUBSET Jobs, NEW k \in Keys, starting[k] = None,
           HasRoom(gone), InMemory' = InMemory \ gone,
           Reserved' = Reserved \cup {k}, Saved
    PROVE  Retained'
<1>1. IsFiniteSet(Reserved) /\ IsFiniteSet(InMemory')
  BY JobsAreFinite DEF InMemory, Retained
<1>2. k \notin Reserved
  BY DEF Reserved
<1>3. IsFiniteSet(Reserved') /\ Cardinality(Reserved') = Cardinality(Reserved) + 1
  BY <1>1, <1>2, FS_AddElement
<1>4. Cardinality(InMemory') \in Nat /\ Cardinality(Reserved) \in Nat
  BY <1>1, FS_CardinalityType
<1>5. Cardinality(InMemory') + Cardinality(Reserved) < MaxRetainedJobs
  BY DEF HasRoom, Reserved
<1>6. Cardinality(InMemory') + Cardinality(Reserved') <= MaxRetainedJobs
  BY <1>3, <1>4, <1>5, BoundsAssumption
<1>7. Cardinality(Recorded') <= MaxRetainedJobs
  <2>1. CASE dstate' = dstate
    BY <2>1 DEF Retained, RetentionBound, Recorded
  <2>2. CASE \A j \in Jobs : dstate'[j] # "none" <=> state'[j] # "none"
    <3> Recorded' = InMemory'
      BY <2>2 DEF Recorded, InMemory
    <3> QED
      BY <1>3, <1>4, <1>6, BoundsAssumption
  <2> QED
    BY <2>1, <2>2 DEF Saved
<1> QED
  BY <1>3, <1>6, <1>7 DEF Retained, RetentionBound, Reserved, Recorded

\* The record of a job that is about to start takes the place of its
\* reservation.
LEMMA StartingFits ==
    ASSUME Retained, NEW j \in Jobs, Reserved # {}, InMemory' = InMemory,
           Reserved' = Reserved,
           Recorded' = Recorded \/ Recorded' \subseteq InMemory \cup {j}
    PROVE  Retained'
<1>1. IsFiniteSet(Reserved) /\ IsFiniteSet(InMemory)
  BY JobsAreFinite DEF InMemory, Retained
<1>2. Cardinality(Reserved) \in Nat /\ Cardinality(InMemory) \in Nat
  BY <1>1, FS_CardinalityType
<1>3. Cardinality(Reserved) # 0
  BY <1>1, FS_EmptySet
<1>4. Cardinality(InMemory) + 1 <= MaxRetainedJobs
  BY <1>2, <1>3, BoundsAssumption DEF Retained, RetentionBound, Reserved
<1>5. /\ IsFiniteSet(InMemory \cup {j})
      /\ Cardinality(InMemory \cup {j}) <= Cardinality(InMemory) + 1
  <2>1. IsFiniteSet(InMemory \cup {j})
    BY JobsAreFinite DEF InMemory
  <2>2. CASE j \in InMemory
    <3>1. InMemory \cup {j} = InMemory
      BY <2>2
    <3>2. Cardinality(InMemory \cup {j}) = Cardinality(InMemory)
      BY <3>1, Zenon
    <3> QED
      BY <2>1, <3>2, <1>2
  <2>3. CASE j \notin InMemory
    <3>1. Cardinality(InMemory \cup {j}) = Cardinality(InMemory) + 1
      BY <1>1, <2>3, FS_AddElement
    <3> QED
      BY <2>1, <3>1, <1>2
  <2> QED
    BY <2>2, <2>3
<1>6. ASSUME Recorded' \subseteq InMemory \cup {j}
      PROVE  Cardinality(Recorded') <= MaxRetainedJobs
  <2>1. /\ IsFiniteSet(Recorded')
        /\ Cardinality(Recorded') <= Cardinality(InMemory \cup {j})
    BY <1>5, <1>6, FS_Subset
  <2>2. Cardinality(Recorded') \in Nat /\ Cardinality(InMemory \cup {j}) \in Nat
    BY <2>1, <1>5, FS_CardinalityType
  <2> QED
    BY <1>2, <1>4, <1>5, <2>1, <2>2, BoundsAssumption
<1>7. Cardinality(Recorded') <= MaxRetainedJobs
  BY <1>6 DEF Retained, RetentionBound, Recorded
<1> QED
  BY <1>1, <1>7 DEF Retained, RetentionBound, Reserved, Recorded

\* The job itself takes it for good.
LEMMA JobFits ==
    ASSUME Retained, NEW j \in Jobs, NEW k \in Keys, starting[k] # None,
           InMemory' = InMemory \cup {j}, Reserved' = Reserved \ {k}, Saved
    PROVE  Retained'
<1>1. IsFiniteSet(Reserved) /\ IsFiniteSet(InMemory) /\ k \in Reserved
  BY JobsAreFinite DEF InMemory, Retained, Reserved
<1>2. IsFiniteSet(Reserved') /\ Cardinality(Reserved') = Cardinality(Reserved) - 1
  BY <1>1, FS_RemoveElement
<1>3. Cardinality(Reserved) \in Nat /\ Cardinality(InMemory) \in Nat
  BY <1>1, FS_CardinalityType
<1>4. Cardinality(InMemory') <= Cardinality(InMemory) + 1 /\ Cardinality(InMemory') \in Nat
  <2>1. CASE j \in InMemory
    <3>1. InMemory' = InMemory
      BY <2>1
    <3>2. Cardinality(InMemory') = Cardinality(InMemory)
      BY <3>1, Zenon
    <3> QED
      BY <3>2, <1>3
  <2>2. CASE j \notin InMemory
    <3> Cardinality(InMemory') = Cardinality(InMemory) + 1
      BY <1>1, <2>2, FS_AddElement
    <3> QED
      BY <1>3
  <2> QED
    BY <2>1, <2>2
<1>5. Cardinality(InMemory') + Cardinality(Reserved') <= MaxRetainedJobs
  BY <1>2, <1>3, <1>4, BoundsAssumption DEF Retained, RetentionBound, Reserved
<1>6. Cardinality(Reserved') \in Nat
  BY <1>2, FS_CardinalityType
<1>7. Cardinality(Recorded') <= MaxRetainedJobs
  <2>1. CASE dstate' = dstate
    BY <2>1 DEF Retained, RetentionBound, Recorded
  <2>2. CASE \A i \in Jobs : dstate'[i] # "none" <=> state'[i] # "none"
    <3> Recorded' = InMemory'
      BY <2>2 DEF Recorded, InMemory
    <3> QED
      BY <1>4, <1>5, <1>6, BoundsAssumption
  <2> QED
    BY <2>1, <2>2 DEF Saved
<1> QED
  BY <1>2, <1>5, <1>7 DEF Retained, RetentionBound, Reserved, Recorded

\* A restore puts nothing into memory that the ledger does not hold.
LEMMA RestoreFits ==
    ASSUME Retained, InMemory' \subseteq Recorded, Reserved = {}, Reserved' = {},
           dstate' = dstate
    PROVE  Retained'
<1>1. IsFiniteSet(Recorded)
  BY JobsAreFinite DEF Recorded
<1>2. IsFiniteSet(InMemory') /\ Cardinality(InMemory') <= Cardinality(Recorded)
  BY <1>1, FS_Subset
<1>3. Cardinality(InMemory') \in Nat /\ Cardinality(Recorded) \in Nat
  BY <1>1, <1>2, FS_CardinalityType
<1>4. IsFiniteSet(Reserved') /\ Cardinality(Reserved') = 0
  BY FS_EmptySet
<1>5. Cardinality(InMemory') + Cardinality(Reserved') <= MaxRetainedJobs
  BY <1>2, <1>3, <1>4, BoundsAssumption DEF Retained, RetentionBound, Recorded
<1>6. Cardinality(Recorded') <= MaxRetainedJobs
  BY DEF Retained, RetentionBound, Recorded
<1> QED
  BY <1>4, <1>5, <1>6 DEF Retained, RetentionBound, Reserved, Recorded

\* What retention removes leaves memory, and the rest stays.
LEMMA CleanupShrinks ==
    ASSUME NEW gone \in SUBSET Removable, Cleanup(gone)
    PROVE  gone \subseteq Jobs /\ InMemory' = InMemory \ gone
  BY DEF Cleanup, Without, Removable, InMemory

\* Every step stays in the limit.
LEMMA RetainedStep ==
    ASSUME StoppedInv, NotYetUp, HoldsKey, Retained, [Next]_vars
    PROVE  Retained'
<1> USE DEF nodeVars, closeVars, jobVars, indexVars, callVars, diskVars,
            idVars, histVars
<1>0. TypeOK /\ Supervised /\ BeingStarted
  BY DEF StoppedInv
<1> USE <1>0
<1>1. ASSUME NEW c \in Callers, Reserve(c) PROVE Retained'
  <2>1. PICK gone \in SUBSET Removable :
          /\ Cleanup(gone)
          /\ \/ /\ Write(Without(gone))
                /\ IF HasRoom(gone)
                   THEN starting' = [starting EXCEPT ![ckey[c]] = c]
                   ELSE UNCHANGED starting
             \/ WriteFails /\ UNCHANGED starting
    BY <1>1 DEF Reserve
  <2>2. InMemory' = InMemory \ gone /\ gone \subseteq Jobs
    BY <2>1, CleanupShrinks
  <2>3. Saved
    BY <2>1 DEF Write, WriteFails, Cleanup, Saved
  <2>4. CASE starting' = starting
    <3> Reserved' = Reserved
      BY <2>4 DEF Reserved
    <3> QED
      BY <2>2, <2>3, RetainedKeeps
  <2>5. CASE HasRoom(gone) /\ starting' = [starting EXCEPT ![ckey[c]] = c]
    <3>1. ckey[c] \in Keys /\ starting[ckey[c]] = None
      BY <1>1 DEF Reserve, AtEntry, TypeOK, CallTypes
    <3>2. Reserved' = Reserved \cup {ckey[c]}
      BY <2>5, <3>1, NoneAssumption DEF Reserved, TypeOK, IndexTypes
    <3> QED
      BY <2>2, <2>3, <2>5, <3>1, <3>2, ReservationFits
  <2> QED
    BY <2>1, <2>4, <2>5
<1>2. ASSUME NEW c \in Callers, PersistStarting(c) PROVE Retained'
  <2>1. ckey[c] \in Keys /\ starting[ckey[c]] = c
    BY <1>2 DEF PersistStarting, HoldsKey, TypeOK, CallTypes
  <2>2. Reserved # {}
    BY <2>1, NoneAssumption DEF Reserved
  <2>3. InMemory' = InMemory /\ Reserved' = Reserved /\ lastId + 1 \in Jobs
    BY <1>2 DEF PersistStarting, InMemory, Reserved
  <2>4. Recorded' = Recorded \/ Recorded' \subseteq InMemory \cup {lastId + 1}
    <3>1. CASE Write(WithStarting(lastId + 1))
      BY <3>1 DEF Write, WithStarting, TypeOK, JobTypes, Recorded, InMemory
    <3>2. CASE WriteFails
      BY <3>2 DEF WriteFails, Recorded
    <3> QED
      BY <1>2, <3>1, <3>2 DEF PersistStarting
  <2> QED
    BY <2>2, <2>3, <2>4, StartingFits
<1>3. ASSUME NEW c \in Callers, Record(c) PROVE Retained'
  <2>1. ckey[c] \in Keys /\ starting[ckey[c]] = c /\ cjob[c] \in Jobs
    BY <1>3 DEF Record, HoldsKey, BeingStarted
  <2>2. InMemory' = InMemory \cup {cjob[c]}
    BY <1>3, <2>1 DEF Record, TypeOK, JobTypes, InMemory
  <2>3. Reserved' = Reserved \ {ckey[c]}
    BY <1>3, <2>1 DEF Record, EndReservation, TypeOK, IndexTypes, Reserved
  <2>4. Saved
    BY <1>3 DEF Record, Write, Saved
  <2> QED
    BY <2>1, <2>2, <2>3, <2>4, NoneAssumption, JobFits
<1>4. ASSUME NEW c \in Callers, LaunchFails(c) PROVE Retained'
  <2>1. Saved
    BY <1>4 DEF LaunchFails, Persist, Write, WriteFails, Saved
  <2>2. InMemory' = InMemory /\ Reserved' = Reserved
    BY <1>4 DEF LaunchFails, InMemory, Reserved
  <2> QED
    BY <2>1, <2>2, RetainedKeeps
<1>5. ASSUME NEW c \in Callers, Abort(c) PROVE Retained'
  <2>1. Saved /\ InMemory' = InMemory
    BY <1>5 DEF Abort, Saved, InMemory
  <2>2. Reserved' \subseteq Reserved
    BY <1>5 DEF Abort, EndReservation, TypeOK, IndexTypes, Reserved
  <2> QED
    BY <2>1, <2>2, RetainedKeeps
<1>6. ASSUME NEW c \in Callers,
             \/ \E k \in Keys, s \in Specs : Call(c, k, s)
             \/ Refuse(c) \/ Replay(c) \/ Await(c) \/ PrepareFails(c) \/ Launch(c)
             \/ RecordFails(c) \/ KillUnrecorded(c) \/ Release(c) \/ GiveUp(c)
             \/ Answered(c)
      PROVE  Retained'
  <2> Saved /\ InMemory' = InMemory /\ Reserved' = Reserved
    BY <1>6 DEF Call, Refuse, Replay, Await, PrepareFails, Launch, RecordFails,
                WriteFails, KillUnrecorded, Release, GiveUp, Answered, Saved,
                InMemory, Reserved
  <2> QED
    BY RetainedKeeps
<1>7. ASSUME NEW j \in Jobs, Finish(j) PROVE Retained'
  <2>1. state[j] # "none"
    BY <1>7 DEF Finish, Supervised
  <2>2. Saved /\ Reserved' = Reserved
    BY <1>7 DEF Finish, Saved, Reserved
  <2>3. InMemory' \subseteq InMemory
    BY <1>7, <2>1 DEF Finish, TypeOK, JobTypes, InMemory
  <2> QED
    BY <2>2, <2>3, RetainedKeeps
<1>8. ASSUME NEW j \in Jobs, PersistFinished(j) PROVE Retained'
  <2>1. Saved
    BY <1>8 DEF PersistFinished, Persist, Write, WriteFails, Saved
  <2>2. InMemory' = InMemory /\ Reserved' = Reserved
    BY <1>8 DEF PersistFinished, InMemory, Reserved
  <2> QED
    BY <2>1, <2>2, RetainedKeeps
<1>9. ASSUME NEW j \in Jobs, RecoverUnknown(j) PROVE Retained'
  <2>1. Saved /\ Reserved' = Reserved
    BY <1>9 DEF RecoverUnknown, Saved, Reserved
  <2>2. InMemory' \subseteq InMemory
    BY <1>9 DEF RecoverUnknown, TypeOK, JobTypes, InMemory
  <2> QED
    BY <2>1, <2>2, RetainedKeeps
<1>10. ASSUME NEW j \in Jobs, RestoreRecord(j) PROVE Retained'
  <2>1. up # "up" /\ up' # "up" /\ dstate' = dstate
    BY <1>10 DEF RestoreRecord
  <2>2. Reserved = {} /\ Reserved' = {}
    BY <1>10, <2>1 DEF NotYetUp, RestoreRecord, Reserved
  <2>3. InMemory' \subseteq Recorded
    BY <1>10, <2>1 DEF RestoreRecord, NotYetUp, TypeOK, JobTypes, InMemory, Recorded
  <2> QED
    BY <2>1, <2>2, <2>3, RestoreFits
<1>11. ASSUME NEW j \in Jobs,
              \/ Exit(j) \/ TakeStop(j) \/ TimeOut(j) \/ Reap(j) \/ FreeSlot(j)
              \/ WatchTerminal(j) \/ Cancel(j)
       PROVE  Retained'
  <2> Saved /\ InMemory' = InMemory /\ Reserved' = Reserved
    BY <1>11 DEF Exit, TakeStop, TimeOut, Reap, FreeSlot, WatchTerminal, Cancel,
                 Saved, InMemory, Reserved
  <2> QED
    BY RetainedKeeps
<1>12. CASE WatchReturn \/ CancelAllReturns
  <2>1. Saved
    BY <1>12 DEF WatchReturn, CancelAllReturns, Write, WriteFails, Saved
  <2>2. InMemory' = InMemory /\ Reserved' = Reserved
    BY <1>12 DEF WatchReturn, CancelAllReturns, InMemory, Reserved
  <2> QED
    BY <2>1, <2>2, RetainedKeeps
<1>13. CASE Maintenance
  <2>1. PICK gone \in SUBSET Removable : Cleanup(gone) /\ Persist(Without(gone))
    BY <1>13 DEF Maintenance
  <2>2. Saved
    BY <2>1 DEF Cleanup, Persist, Write, WriteFails, Saved
  <2>3. InMemory' \subseteq InMemory
    BY <2>1, CleanupShrinks
  <2>4. Reserved' = Reserved
    BY <1>13 DEF Maintenance, Reserved
  <2> QED
    BY <2>2, <2>3, <2>4, RetainedKeeps
<1>14. CASE Crash
  <2> Saved /\ InMemory' = {} /\ Reserved' = {}
    BY <1>14 DEF Crash, Saved, InMemory, Reserved
  <2> QED
    BY RetainedKeeps
<1>15. CASE Restored
  <2>1. Saved
    BY <1>15 DEF Restored, Persist, Write, WriteFails, Saved
  <2>2. InMemory' = InMemory /\ Reserved' = Reserved
    BY <1>15 DEF Restored, InMemory, Reserved
  <2> QED
    BY <2>1, <2>2, RetainedKeeps
<1>16. CASE CancelAll \/ CancelAllTimesOut \/ Load \/ UNCHANGED vars
  <2> Saved /\ InMemory' = InMemory /\ Reserved' = Reserved
    BY <1>16 DEF CancelAll, CancelAllTimesOut, Load, vars, Saved, InMemory, Reserved
  <2> QED
    BY RetainedKeeps
<1> QED
  BY <1>1, <1>2, <1>3, <1>4, <1>5, <1>6, <1>7, <1>8, <1>9, <1>10, <1>11, <1>12,
     <1>13, <1>14, <1>15, <1>16
     DEF Next, CallerStep, RunnerStep, RestoreStep

(***************************************************************************)
(* Jobs and starts in progress together never exceed maxRetainedJobs, nor  *)
(* do the records of the ledger, so that a restart restores within the     *)
(* limit, whatever saves and loads fail.                                   *)
(***************************************************************************)
THEOREM RetentionStaysBounded == Spec => []RetentionBound
<1> DEFINE IInv == StoppedInv /\ NotYetUp /\ HoldsKey /\ Retained
<1>1. Init => IInv
  <2> SUFFICES ASSUME Init PROVE NotYetUp /\ HoldsKey /\ Retained
    BY StoppedInit
  <2>1. NotYetUp /\ HoldsKey
    BY DEF Init, NotYetUp, HoldsKey
  <2>2. InMemory = {} /\ Reserved = {} /\ Recorded = {}
    BY DEF Init, InMemory, Reserved, Recorded
  <2>3. IsFiniteSet(Reserved) /\ Cardinality(Reserved) = 0
        /\ Cardinality(InMemory) = 0 /\ Cardinality(Recorded) = 0
    BY <2>2, FS_EmptySet
  <2> QED
    BY <2>1, <2>3, BoundsAssumption DEF Retained, RetentionBound, Reserved, Recorded
<1>2. IInv /\ [Next]_vars => IInv'
  BY StoppedStep, NotYetUpStep, HoldsKeyStep, RetainedStep DEF StoppedInv, TypeOK
<1>3. IInv => RetentionBound
  BY DEF Retained
<1> QED
  BY <1>1, <1>2, <1>3, PTL DEF Spec

================================================================================
