------------------------------- MODULE FileEdit -------------------------------
(***************************************************************************)
(* The one writer of files on the Node's machine                           *)
(* (src/internal/node/file_edit.go, file_edit_atomic.go): a request reads  *)
(* the file below the lock of its path, compares the revision its caller   *)
(* saw, writes a temporary file, compares again and renames.               *)
(*                                                                         *)
(* A content is the set of changes it carries and is its own hash.  The    *)
(* locks are striped over the paths; two paths that share a stripe only    *)
(* wait for each other, so there is a lock for each path.                  *)
(***************************************************************************)
EXTENDS Naturals, FiniteSets

CONSTANTS
    EditReqs,     \* requests
    EditFiles,    \* regular files
    EditActions,  \* \subseteq {"replace", "create", "preview"}
    EditSaves,    \* bound: saves by other programs, and moves of the link
    EditFaults    \* "io": a step of the writer fails; "sync": syncing the
                  \* parent fails; "editor": another program saves the file;
                  \* "relink": a link is moved; "kill": the Node ends

ASSUME FileEditAssumption ==
    /\ IsFiniteSet(EditSaves) /\ EditSaves \cap EditReqs = {} /\ "absent" \notin EditReqs \cup EditSaves
    /\ EditFiles \cap {"link", "none"} = {}
    /\ EditActions \subseteq {"replace", "create", "preview"}
    /\ EditFaults \subseteq {"io", "sync", "editor", "relink", "kill"}

VARIABLES
    efile,     \* what each file holds
    elink,     \* where the link leads
    edits,     \* fileEdit, by request
    elocks,    \* fileEditLocks held
    etemps,    \* temporary files
    esaves     \* saves of other programs

fileEditVars == <<efile, elink, edits, elocks, etemps, esaves>>

EditPaths == EditFiles \cup {"link"}
Changes == EditReqs \cup EditSaves
Absent == {"absent"}
NoEdit == [at |-> "none", action |-> "none", path |-> "none", expected |-> {}, lock |-> "none",
           target |-> "none", after |-> {}, outcome |-> "none"]

FileEditTypeOK ==
    /\ efile \in [EditFiles -> (SUBSET Changes) \cup {Absent}] /\ elink \in EditFiles
    /\ edits \in [EditReqs -> [at : {"none", "resolve", "lock", "plan", "temp", "check", "rename",
                                     "look", "link", "sync", "over"},
                               action : EditActions \cup {"none"}, path : EditPaths \cup {"none"},
                               expected : (SUBSET Changes) \cup {Absent}, lock : EditPaths \cup {"none"},
                               target : EditPaths \cup {"none"}, after : SUBSET Changes,
                               outcome : {"none", "ok", "shown", "failed", "conflict", "exists", "killed"}]]
    /\ elocks \subseteq EditPaths /\ etemps \subseteq EditReqs
    /\ esaves \in [made : SUBSET EditSaves, late : SUBSET EditSaves, moves : 0 .. Cardinality(EditSaves)]

FileEditInit ==
    /\ efile \in [EditFiles -> {{}, Absent}] /\ \E f \in EditFiles : efile[f] = {}
    /\ elink \in EditFiles /\ efile[elink] = {}
    /\ edits = [q \in EditReqs |-> NoEdit] /\ elocks = {} /\ etemps = {}
    /\ esaves = [made |-> {}, late |-> {}, moves |-> 0]

\* ResolveMachinePath: links are followed.
ResolveMachinePath(p) == IF p = "link" THEN elink ELSE p

Passes(q, at) == edits' = [edits EXCEPT ![q].at = at]
\* A return: the lock goes, and the temporary file that was not installed.
Ends(q, how) ==
    /\ edits' = [edits EXCEPT ![q] = [@ EXCEPT !.at = "over", !.outcome = how, !.lock = "none"]]
    /\ elocks' = elocks \ {edits[q].lock} /\ etemps' = etemps \ {q}

----------------------------------------------------------------------------
\* A caller who read the file sends a request.
SendEdit(q) ==
    \E a \in EditActions, p \in EditPaths :
        /\ edits' = [edits EXCEPT ![q] = [@ EXCEPT !.at = "resolve", !.action = a, !.path = p,
                                                   !.expected = efile[ResolveMachinePath(p)]]]
        /\ UNCHANGED <<efile, elink, elocks, etemps, esaves>>

\* resolveFileEditLockTarget: a path to create is not followed.
ResolveFileEditLockTarget(q) ==
    LET e == edits[q]
    IN  /\ \/ /\ e.action # "create" /\ efile[ResolveMachinePath(e.path)] = Absent
              /\ Ends(q, "failed")
           \/ /\ e.action = "create" \/ efile[ResolveMachinePath(e.path)] # Absent
              /\ edits' = [edits EXCEPT ![q] =
                     [@ EXCEPT !.at = "lock",
                               !.lock = IF e.action = "create" THEN e.path ELSE ResolveMachinePath(e.path)]]
              /\ UNCHANGED <<elocks, etemps>>
        /\ UNCHANGED <<efile, elink, esaves>>

\* Without the lock, for comparison.
FileEditUnlocked(q) ==
    /\ elocks' = elocks \cup {edits[q].lock} /\ Passes(q, "plan")
    /\ UNCHANGED <<efile, elink, etemps, esaves>>

FileEditLock(q) ==
    /\ edits[q].lock \notin elocks
    /\ elocks' = elocks \cup {edits[q].lock} /\ Passes(q, "plan")
    /\ UNCHANGED <<efile, elink, etemps, esaves>>

\* The path is resolved once more; the lock is the one of the first answer.
PlanFileEdit(q) ==
    LET e == edits[q]  t == ResolveMachinePath(e.path)  before == efile[t]
    IN  /\ e.action # "create"
        /\ \/ before = Absent /\ Ends(q, "failed")
           \/ before # Absent /\ e.expected # before /\ Ends(q, "conflict")
           \/ before # Absent /\ e.expected = before /\ e.action = "preview" /\ Ends(q, "shown")
           \/ /\ before # Absent /\ e.expected = before /\ e.action = "replace"
              /\ edits' = [edits EXCEPT ![q] = [@ EXCEPT !.at = "temp", !.target = t,
                                                         !.after = before \cup {q}]]
              /\ UNCHANGED <<elocks, etemps>>
        /\ UNCHANGED <<efile, elink, esaves>>

\* os.Lstat sees the link itself.
PathExists(p) == efile[ResolveMachinePath(p)] # Absent \/ p = "link"

PlanFileCreate(q) ==
    LET e == edits[q]
    IN  /\ e.action = "create"
        /\ \/ PathExists(e.path) /\ Ends(q, "exists")
           \/ /\ ~PathExists(e.path)
              /\ edits' = [edits EXCEPT ![q] = [@ EXCEPT !.at = "temp", !.target = e.path, !.after = {q}]]
              /\ UNCHANGED <<elocks, etemps>>
        /\ UNCHANGED <<efile, elink, esaves>>

----------------------------------------------------------------------------
\* writePreparedEdit up to install.
WritePreparedEdit(q) ==
    /\ \/ /\ etemps' = etemps \cup {q} /\ UNCHANGED elocks
          /\ Passes(q, IF edits[q].action = "create" THEN "look" ELSE "check")
       \/ "io" \in EditFaults /\ Ends(q, "failed")
    /\ UNCHANGED <<efile, elink, esaves>>

\* boundedFileSHA256 against plan.beforeSHA.
BoundedFileSHA256(q) ==
    LET e == edits[q]
    IN  /\ \/ e.expected = efile[e.target] /\ Passes(q, "rename") /\ UNCHANGED <<elocks, etemps>>
           \/ e.expected # efile[e.target] /\ Ends(q, "conflict")
        /\ UNCHANGED <<efile, elink, esaves>>

\* atomicReplaceEditedFile takes the place of whatever is there.
WriteAtomicEditedFile(q) ==
    /\ \/ /\ efile' = [efile EXCEPT ![edits[q].target] = edits[q].after]
          /\ etemps' = etemps \ {q} /\ Passes(q, "sync") /\ UNCHANGED elocks
       \/ "io" \in EditFaults /\ Ends(q, "failed") /\ UNCHANGED efile
    /\ UNCHANGED <<elink, esaves>>

\* writeAtomicCreatedFile looks again ...
LookAgain(q) ==
    /\ \/ PathExists(edits[q].target) /\ Ends(q, "exists")
       \/ ~PathExists(edits[q].target) /\ Passes(q, "link") /\ UNCHANGED <<elocks, etemps>>
    /\ UNCHANGED <<efile, elink, esaves>>

\* ... and atomicCreateEditedFile never replaces.
WriteAtomicCreatedFile(q) ==
    /\ \/ /\ ~PathExists(edits[q].target)
          /\ efile' = [efile EXCEPT ![edits[q].target] = edits[q].after]
          /\ etemps' = etemps \ {q} /\ Passes(q, "sync") /\ UNCHANGED elocks
       \/ PathExists(edits[q].target) /\ Ends(q, "exists") /\ UNCHANGED efile
       \/ "io" \in EditFaults /\ Ends(q, "failed") /\ UNCHANGED efile
    /\ UNCHANGED <<elink, esaves>>

\* syncEditedParent: its error is the answer, the change stays.
SyncEditedParent(q) ==
    /\ \/ Ends(q, "ok")
       \/ "sync" \in EditFaults /\ Ends(q, "failed")
    /\ UNCHANGED <<efile, elink, esaves>>

\* fileEdit, from the request to the answer.
FileEditStep(q) ==
    \/ edits[q].at = "none" /\ SendEdit(q)
    \/ edits[q].at = "resolve" /\ ResolveFileEditLockTarget(q)
    \/ edits[q].at = "lock" /\ FileEditLock(q)
    \/ edits[q].at = "plan" /\ (PlanFileEdit(q) \/ PlanFileCreate(q))
    \/ edits[q].at = "temp" /\ WritePreparedEdit(q)
    \/ edits[q].at = "check" /\ BoundedFileSHA256(q)
    \/ edits[q].at = "rename" /\ WriteAtomicEditedFile(q)
    \/ edits[q].at = "look" /\ LookAgain(q)
    \/ edits[q].at = "link" /\ WriteAtomicCreatedFile(q)
    \/ edits[q].at = "sync" /\ SyncEditedParent(q)

----------------------------------------------------------------------------
\* The rest of the machine.

\* An editor adds its change to the file or creates it; a save is late when an
\* edit of the file has compared its content and has not yet replaced it.
EditorSaves ==
    \E f \in EditFiles, n \in EditSaves \ esaves.made :
        /\ "editor" \in EditFaults
        /\ efile' = [efile EXCEPT ![f] = IF @ = Absent THEN {n} ELSE @ \cup {n}]
        /\ esaves' = [esaves EXCEPT !.made = @ \cup {n},
                          !.late = IF \E q \in EditReqs : edits[q].at = "rename" /\ edits[q].target = f
                                   THEN @ \cup {n} ELSE @]
        /\ UNCHANGED <<elink, edits, elocks, etemps>>

LinkIsMoved ==
    \E f \in EditFiles \ {elink} :
        /\ "relink" \in EditFaults /\ esaves.moves < Cardinality(EditSaves)
        /\ elink' = f /\ esaves' = [esaves EXCEPT !.moves = @ + 1]
        /\ UNCHANGED <<efile, edits, elocks, etemps>>

\* The deferred removal of the temporary file does not run.
NodeIsKilled ==
    /\ "kill" \in EditFaults /\ \E q \in EditReqs : edits[q].at \notin {"none", "over"}
    /\ edits' = [q \in EditReqs |->
           IF edits[q].at \in {"none", "over"} THEN edits[q]
           ELSE [edits[q] EXCEPT !.at = "over", !.outcome = "killed", !.lock = "none"]]
    /\ elocks' = {} /\ UNCHANGED <<efile, elink, etemps, esaves>>

FileEditNext ==
    \/ \E q \in EditReqs : FileEditStep(q)
    \/ EditorSaves
    \/ LinkIsMoved
    \/ NodeIsKilled

FileEditSpec == FileEditInit /\ [][FileEditNext]_fileEditVars

----------------------------------------------------------------------------
\* A change that was answered with success is in one of the files for good, and
\* so is the save of another program unless it fell between the last comparison
\* and the rename: no edit was based on an older content than it claimed (the lock
\* and the two comparisons of fileEdit, docs/05-node-capabilities.md).
NoChangeIsLost ==
    \A c \in {q \in EditReqs : edits[q].outcome = "ok"} \cup (esaves.made \ esaves.late) :
        \E f \in EditFiles : c \in efile[f]
=============================================================================
