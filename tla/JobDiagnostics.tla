---------------------------- MODULE JobDiagnostics ----------------------------
(***************************************************************************)
(* A JobManager next to which the diagnostics page of the Node's own user  *)
(* interface builds a second client on the same data directory             *)
(* (src/internal/nodeui/diagnostics.go).  NewLocalCapabilityClient calls   *)
(* NewJobManager, and its restorePersistedJobs treats the jobs that the    *)
(* first manager supervises as leftovers of an earlier process.            *)
(***************************************************************************)
EXTENDS JobManager

(***************************************************************************)
(* The unfinished records are recovered and the ledger is saved.  A job is *)
(* found gone, is killed (and gone or still dying at the end of the wait), *)
(* or is left alone because it could not be verified.                      *)
(***************************************************************************)
Diagnose ==
    LET unfinished == {j \in Jobs : dstate[j] \in {"starting", "running"}} IN
    /\ up = "up" /\ unfinished # {}
    /\ \E stopped, killed \in SUBSET unfinished :
         /\ \A j \in stopped : dident[j] # "none"
         /\ \A j \in killed : dident[j] = "full" /\ Alive(proc[j])
         /\ \A j \in stopped : Alive(proc[j]) => j \in killed
         /\ proc' = [j \in Jobs |-> CASE j \in killed \cap stopped -> "err"
                                      [] j \in killed \ stopped -> "dying"
                                      [] OTHER -> proc[j]]
         /\ dstate' = [j \in Jobs |-> CASE j \in stopped -> "interrupted"
                                        [] j \in unfinished \ stopped -> "unknown"
                                        [] OTHER -> dstate[j]]
    /\ dident' = [j \in Jobs |-> "none"]
    /\ UNCHANGED <<nodeVars, jobVars, indexVars, callVars, watch, idVars,
                   histVars>>

DiagnosedNext == Next \/ Diagnose

DiagnosedSpec == Init /\ [][DiagnosedNext]_vars
=============================================================================
