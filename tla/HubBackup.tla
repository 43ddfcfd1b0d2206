----------------------------- MODULE HubBackup -----------------------------
(***************************************************************************)
(* The backups of the Hub's data directory (src/internal/opsbackup): an    *)
(* archive is made from a directory a running Hub may be writing, checked, *)
(* restored into an empty directory, and rotated with the older release    *)
(* backups of its directory.                                               *)
(*                                                                         *)
(* The content of a file is a version number, 0 for a file that does not   *)
(* exist.  The database and its log only go forward; the file of an        *)
(* artifact comes and goes with the same bytes.  An archive holds the      *)
(* versions it was written with; `id' is the identity of the file, `made'  *)
(* the CreatedAt of its manifest, and a damaged archive no longer passes   *)
(* Verify.  A command is one process step by step; the lock of the backup  *)
(* directory exists inside one process only.                               *)
(***************************************************************************)
EXTENDS Naturals, Sequences, FiniteSets

CONSTANTS
    FileOrder,      \* the files of the data directory, in archive order
    Backups,        \* the standard names of release backups
    Operators,      \* the commands that can run at a time
    KeepBackups,    \* --keep of a rotation
    MaxWrites,      \* bound: changes of the data directory
    MaxArchives,    \* bound: archives begun
    BackupFaults    \* "crash", "rot", "processes": what else may happen

DataFiles == {FileOrder[i] : i \in DOMAIN FileOrder}
NoOne == "nobody"

ASSUME BackupAssumption ==
    /\ FileOrder \in Seq(DataFiles)
    /\ IsFiniteSet(Backups) /\ NoOne \notin Operators
    /\ KeepBackups \in Nat \ {0} /\ MaxWrites \in Nat /\ MaxArchives \in Nat
    /\ BackupFaults \subseteq {"crash", "rot", "processes"}

VARIABLES
    data,       \* the data directory of the Hub
    past,       \* every content the data directory has had (history)
    archives,   \* the backup directory
    target,     \* the directory a backup is restored into
    bkLock,     \* who holds the lock of the backup directory
    ops,        \* the command each operator is running
    bkCount     \* writes made, archives begun

bkVars == <<data, past, archives, target, bkLock, ops, bkCount>>

Torn == MaxWrites + 2
Contents0 == [DataFiles -> 0 .. Torn]
NoFile == [f \in DataFiles |-> 0]
NoArchive == [id |-> 0, made |-> 0, files |-> NoFile, sound |-> FALSE]

\* The parts of a command: where it is, the backup it is about, the files it
\* still has to read and what it has read, the candidates it has inspected and
\* those it will remove.
Resting0 == [at |-> "idle", name |-> "", left |-> {}, got |-> NoFile, listed |-> {},
             half |-> 0, seen |-> [n \in Backups |-> NoArchive], plan |-> {}]

BackupTypeOK ==
    /\ data \in Contents0 /\ past \subseteq Contents0
    /\ archives \in [Backups -> [id : 0 .. MaxArchives, made : 0 .. MaxArchives,
                                 files : Contents0, sound : BOOLEAN]]
    /\ target \in [kind : {"absent", "empty", "hub", "restored"}, files : Contents0]
    /\ bkLock \in Operators \cup {NoOne}
    /\ \A u \in Operators :
         /\ ops[u].at \in {"idle", "copy", "tail", "list", "hash", "publish", "inspect", "recheck",
                           "next", "remove", "extract", "clear", "move"}
         /\ ops[u].name \in Backups \cup {""}
         /\ ops[u].left \cup ops[u].listed \subseteq DataFiles \cup Backups
         /\ ops[u].plan \subseteq Backups
    /\ bkCount \in [writes : 0 .. MaxWrites, made : 0 .. MaxArchives]

BackupInit ==
    /\ data = [f \in DataFiles |-> 1]
    /\ past = {data}
    /\ archives = [n \in Backups |-> NoArchive]
    /\ target = [kind |-> "empty", files |-> NoFile]
    /\ bkLock = NoOne
    /\ ops = [u \in Operators |-> Resting0]
    /\ bkCount = [writes |-> 0, made |-> 0]

----------------------------------------------------------------------------
\* The Hub at work: a transaction moves the database or its log forward, a blob
\* is stored or deleted, and a command line can damage nothing but time can.

HubWrites(f) ==
    /\ bkCount.writes < MaxWrites
    /\ data' = [data EXCEPT ![f] = IF f = "artifact" THEN 1 - @ ELSE @ + 1]
    /\ past' = past \cup {data'}
    /\ bkCount' = [bkCount EXCEPT !.writes = @ + 1]
    /\ UNCHANGED <<archives, target, bkLock, ops>>

Rot(n) ==
    /\ "rot" \in BackupFaults /\ archives[n].sound
    /\ archives' = [archives EXCEPT ![n].sound = FALSE]
    /\ UNCHANGED <<data, past, target, bkLock, ops, bkCount>>

----------------------------------------------------------------------------
\* Steps of a command.

Becomes0(u, op) == ops' = [ops EXCEPT ![u] = op]

\* lockReleaseBackupDirectory: commands of other processes are not kept out.
LockDirectory(u) ==
    \/ "processes" \in BackupFaults /\ UNCHANGED bkLock
    \/ "processes" \notin BackupFaults /\ bkLock = NoOne /\ bkLock' = u

UnlockDirectory(u) == bkLock' = IF bkLock = u THEN NoOne ELSE bkLock

Ends0(u) ==
    /\ Becomes0(u, Resting0) /\ UnlockDirectory(u)
    /\ UNCHANGED <<data, past, archives, target, bkCount>>

\* collectFiles: the shared-memory index of SQLite is left out.
CollectFiles == {f \in DataFiles : data[f] # 0} \ {"hub.db-shm"}

\* The file that comes first in the order of the archive.
FirstOf(s) ==
    CHOOSE f \in s : \A g \in s : \E i, j \in DOMAIN FileOrder :
        FileOrder[i] = f /\ FileOrder[j] = g /\ i <= j

\* Create: nothing is made when the name is taken or the directory is empty.
CreateBackup(u, n) ==
    /\ ops[u].at = "idle" /\ bkCount.made < MaxArchives
    /\ LockDirectory(u)
    /\ archives[n] = NoArchive /\ CollectFiles # {}
    /\ bkCount' = [bkCount EXCEPT !.made = @ + 1]
    /\ Becomes0(u, [Resting0 EXCEPT !.at = "copy", !.name = n, !.left = CollectFiles,
                                    !.listed = CollectFiles, !.half = bkCount.made + 1])
    /\ UNCHANGED <<data, past, archives, target>>

\* addFile: the file is read in more than one piece; a change between them
\* leaves a copy no version of the file has.
AddFile(u) ==
    /\ ops[u].at = "copy" /\ ops[u].left # {}
    /\ LET f == FirstOf(ops[u].left) IN
       IF data[f] = 0
       THEN Ends0(u)
       ELSE /\ Becomes0(u, [ops[u] EXCEPT !.at = "tail", !.got[f] = data[f]])
            /\ UNCHANGED <<data, past, archives, target, bkLock, bkCount>>

AddFileTail(u) ==
    /\ ops[u].at = "tail"
    /\ LET f == FirstOf(ops[u].left)
           left == ops[u].left \ {f}
       IN Becomes0(u, [ops[u] EXCEPT
              !.left = left, !.at = IF left = {} THEN "list" ELSE "copy",
              !.got[f] = IF data[f] \in {0, @} THEN @ ELSE Torn])
    /\ UNCHANGED <<data, past, archives, target, bkLock, bkCount>>

\* verifySourceUnchanged: the files are listed again, then each is read again.
ListAgain(u) ==
    /\ ops[u].at = "list"
    /\ IF CollectFiles = ops[u].listed
       THEN /\ Becomes0(u, [ops[u] EXCEPT !.at = "hash", !.left = ops[u].listed])
            /\ UNCHANGED <<data, past, archives, target, bkLock, bkCount>>
       ELSE Ends0(u)

\* Without the second reading, for comparison.
HashAgainSkipped(u) ==
    /\ ops[u].at = "hash" /\ Becomes0(u, [ops[u] EXCEPT !.left = {}, !.at = "publish"])
    /\ UNCHANGED <<data, past, archives, target, bkLock, bkCount>>

HashAgain(u) ==
    /\ ops[u].at = "hash"
    /\ LET f == FirstOf(ops[u].left)
           left == ops[u].left \ {f}
       IN IF data[f] = ops[u].got[f]
          THEN /\ Becomes0(u, [ops[u] EXCEPT !.left = left, !.at = IF left = {} THEN "publish" ELSE "hash"])
               /\ UNCHANGED <<data, past, archives, target, bkLock, bkCount>>
          ELSE Ends0(u)

\* The archive is complete and synced; the rename publishes it, over whatever
\* has the name by now.
PublishBackup(u) ==
    /\ ops[u].at = "publish"
    /\ archives' = [archives EXCEPT ![ops[u].name] =
           [id |-> ops[u].half, made |-> ops[u].half, files |-> ops[u].got, sound |-> TRUE]]
    /\ Becomes0(u, Resting0) /\ UnlockDirectory(u)
    /\ UNCHANGED <<data, past, target, bkCount>>

----------------------------------------------------------------------------
\* Verify and Restore.

\* verifyArchive: every file has the hash of the manifest and the database is
\* among them.
VerifyArchive(a) == a.sound /\ a.files["hub.db"] # 0

RequireEmptyTarget == target.kind \in {"absent", "empty"}

\* Restore: the archive is verified and the target is absent or empty.
RestoreBackup(u, n) ==
    /\ ops[u].at = "idle"
    /\ VerifyArchive(archives[n])
    /\ RequireEmptyTarget
    /\ Becomes0(u, [Resting0 EXCEPT !.at = "extract", !.name = n, !.seen[n] = archives[n],
                                    !.left = {f \in DataFiles : archives[n].files[f] # 0}])
    /\ UNCHANGED <<data, past, archives, target, bkLock, bkCount>>

\* extractFile, into a directory of its own next to the target.
ExtractFile(u) ==
    /\ ops[u].at = "extract"
    /\ LET f == FirstOf(ops[u].left)
           left == ops[u].left \ {f}
       IN Becomes0(u, [ops[u] EXCEPT !.got[f] = ops[u].seen[ops[u].name].files[f], !.left = left,
                                     !.at = IF left = {} THEN "clear" ELSE "extract"])
    /\ UNCHANGED <<data, past, archives, target, bkLock, bkCount>>

\* The empty target is removed: that fails when somebody has filled it.
ClearTarget(u) ==
    /\ ops[u].at = "clear"
    /\ \/ /\ target.kind \in {"absent", "empty"}
          /\ target' = [target EXCEPT !.kind = "absent"]
          /\ Becomes0(u, [ops[u] EXCEPT !.at = "move"])
          /\ UNCHANGED <<data, past, archives, bkLock, bkCount>>
       \/ target.kind \in {"hub", "restored"} /\ Ends0(u)

\* The rename of the restored directory fails on a directory with files.
PublishRestored(u) ==
    /\ ops[u].at = "move"
    /\ \/ /\ target.kind \in {"absent", "empty"}
          /\ target' = [kind |-> "restored", files |-> ops[u].got]
          /\ Becomes0(u, Resting0)
          /\ UNCHANGED <<data, past, archives, bkLock, bkCount>>
       \/ target.kind \in {"hub", "restored"} /\ Ends0(u)

\* A Hub started on the target before the restore has its own database.
HubStarts ==
    /\ target.kind \in {"absent", "empty"}
    /\ target' = [kind |-> "hub", files |-> NoFile]
    /\ UNCHANGED <<data, past, archives, bkLock, ops, bkCount>>

----------------------------------------------------------------------------
\* PruneReleaseBackups with --apply.

ListBackups(u) ==
    /\ ops[u].at = "idle"
    /\ \E n \in Backups : archives[n] # NoArchive
    /\ LockDirectory(u)
    /\ Becomes0(u, [Resting0 EXCEPT !.at = "inspect", !.left = {n \in Backups : archives[n] # NoArchive}])
    /\ UNCHANGED <<data, past, archives, target, bkCount>>

\* Every candidate is opened for its identity and verified: one that does not
\* pass ends the rotation.
InspectCandidate(u, n) ==
    /\ ops[u].at = "inspect" /\ n \in ops[u].left
    /\ IF VerifyArchive(archives[n])
       THEN /\ Becomes0(u, [ops[u] EXCEPT !.seen[n] = archives[n], !.left = @ \ {n},
                                         !.at = IF ops[u].left = {n} THEN "recheck" ELSE "inspect"])
            /\ UNCHANGED <<data, past, archives, target, bkLock, bkCount>>
       ELSE Ends0(u)

\* Keeping one fewer, for comparison.
NewerOrSame(a, set) == {n \in Backups : set[n] # NoArchive /\ set[n].made >= a.made}

\* recheckReleaseBackupCandidate
Unchanged0(u, n) == archives[n].id = ops[u].seen[n].id

\* The plan: all but the newest KeepBackups, by CreatedAt.
Newer(a, set) == {n \in Backups : set[n] # NoArchive /\ set[n].made > a.made}

PlanPruneByName(u) ==
    /\ ops[u].at = "recheck"
    /\ LET seen == ops[u].seen
           cands == {n \in Backups : seen[n] # NoArchive}
       IN Becomes0(u, [ops[u] EXCEPT !.at = "next",
              !.plan = {n \in cands : Cardinality(NewerOrSame(seen[n], seen)) >= KeepBackups}])
    /\ UNCHANGED <<data, past, archives, target, bkLock, bkCount>>

PlanPrune(u) ==
    /\ ops[u].at = "recheck"
    /\ LET seen == ops[u].seen
           cands == {n \in Backups : seen[n] # NoArchive}
       IN IF \A n \in cands : Unchanged0(u, n)
          THEN /\ Becomes0(u, [ops[u] EXCEPT !.at = "next",
                      !.plan = {n \in cands : Cardinality(Newer(seen[n], seen)) >= KeepBackups}])
               /\ UNCHANGED <<data, past, archives, target, bkLock, bkCount>>
          ELSE Ends0(u)

\* Newest first: each candidate is checked once more, then removed by its path.
RecheckNext(u) ==
    /\ ops[u].at = "next"
    /\ \E n \in ops[u].plan :
         /\ \A o \in ops[u].plan : ops[u].seen[o].made <= ops[u].seen[n].made
         /\ IF Unchanged0(u, n)
            THEN /\ Becomes0(u, [ops[u] EXCEPT !.at = "remove", !.name = n, !.plan = @ \ {n}])
                 /\ UNCHANGED <<data, past, archives, target, bkLock, bkCount>>
            ELSE Ends0(u)

RemoveBackup(u) ==
    /\ ops[u].at = "remove"
    /\ archives' = [archives EXCEPT ![ops[u].name] = NoArchive]
    /\ Becomes0(u, [ops[u] EXCEPT !.at = "next"])
    /\ UNCHANGED <<data, past, target, bkLock, bkCount>>

RemoveFails(u) ==
    /\ ops[u].at = "remove"
    /\ Becomes0(u, [ops[u] EXCEPT !.at = "next"])
    /\ UNCHANGED <<data, past, archives, target, bkLock, bkCount>>

PruneEnds(u) == ops[u].at = "next" /\ ops[u].plan = {} /\ Ends0(u)

\* A cancelled command stops between two steps and removes its temporary file;
\* a killed one leaves it behind under a name no command looks at.
Stops0(u) ==
    /\ ops[u].at # "idle" /\ "crash" \in BackupFaults
    /\ Ends0(u)

OperatorStep(u) ==
    \/ \E n \in Backups : CreateBackup(u, n) \/ RestoreBackup(u, n) \/ InspectCandidate(u, n)
    \/ AddFile(u) \/ AddFileTail(u) \/ ListAgain(u) \/ HashAgain(u) \/ PublishBackup(u)
    \/ ExtractFile(u) \/ ClearTarget(u) \/ PublishRestored(u)
    \/ ListBackups(u) \/ PlanPrune(u) \/ RecheckNext(u) \/ RemoveBackup(u) \/ RemoveFails(u)
    \/ PruneEnds(u) \/ Stops0(u)

BackupNext ==
    \/ \E f \in DataFiles : HubWrites(f)
    \/ \E n \in Backups : Rot(n)
    \/ HubStarts
    \/ \E u \in Operators : OperatorStep(u)

BackupSpec == BackupInit /\ [][BackupNext]_bkVars

----------------------------------------------------------------------------
\* Correctness.

\* What the data directory was, without the index that no archive holds.
Snapshots == {[f \in DataFiles |-> IF f = "hub.db-shm" THEN 0 ELSE d[f]] : d \in past}

\* An archive taken from a Hub at work holds what the data directory had at
\* one instant, and so does a directory restored from it: the second pass of
\* Create (verifySourceUnchanged) must catch every change of a file, torn
\* copies and files that came and went included, and a restored directory is
\* never half of an archive.
BackupIsSnapshot ==
    /\ \A n \in Backups : archives[n] # NoArchive => archives[n].files \in Snapshots
    /\ target.kind = "restored" => target.files \in Snapshots

\* A rotation removes a backup only while KeepBackups newer ones exist, whatever
\* other commands create and remove in the meantime (pruneReleaseBackups under
\* the lock of the directory).
PruneKeepsNewest ==
    \A n \in Backups :
        archives[n] # NoArchive /\ archives'[n] = NoArchive =>
            Cardinality(Newer(archives[n], archives)) >= KeepBackups

=============================================================================
