--------------------------- MODULE SessionVisibility ---------------------------
(***************************************************************************)
(* The visibility of agent sessions on a Node: the sidecar                 *)
(* agent/session-visibility.json (agent/session_visibility.go) and its     *)
(* users in agent/manager.go: session.create, session.list, session.fork,  *)
(* session.delete and the clean-up of creations that failed.               *)
(*                                                                         *)
(* A session without a record is taken for a visible one of an older       *)
(* version.  The ledger of creations is module SessionCreate; here its     *)
(* failures are outcomes of the caller's steps.                            *)
(***************************************************************************)
EXTENDS Naturals, FiniteSets

CONSTANTS
    VCallers,       \* goroutines that execute a session action
    MaxVSessions,   \* bound: sessions made
    MaxVRecords,    \* maxSessionVisibilityRecords
    VFaults         \* "save", "sync": a save fails before or after its rename;
                    \* "ledger": a save of the ledger fails; "lost": no answer
                    \* of the provider; "turn": the first turn is refused;
                    \* "load": the sidecar is unreadable; "exit": the Node ends

ASSUME VisibilityAssumption ==
    /\ MaxVSessions \in Nat /\ MaxVRecords \in Nat
    /\ VFaults \subseteq {"save", "sync", "ledger", "lost", "turn", "load", "exit"}

VARIABLES
    vstore,   \* sessionVisibilityStore: the records and loadErr
    vdisk,    \* the records of the sidecar
    vsess,    \* the sessions at their provider
    vcall,    \* the callers
    vhidden   \* history: sessions whose creation was answered as internal

visVars == <<vstore, vdisk, vsess, vcall, vhidden>>

VIds == 1 .. MaxVSessions
VKinds == {"visible", "internal"}
Providers == {"codex", "claude"}
NoVCall == [op |-> "none", at |-> "idle", id |-> 0, kind |-> "visible", prov |-> "codex",
            known |-> {}, hidden |-> {}, shown |-> {}]

VisTypeOK ==
    /\ vstore \in [internal : SUBSET VIds, visible : SUBSET VIds, bad : BOOLEAN]
    /\ vdisk \in [internal : SUBSET VIds, visible : SUBSET VIds]
    /\ vsess \in [VIds -> [at : {"none", "live", "archived", "deleted"}, kind : VKinds,
                           prov : Providers]]
    /\ vcall \in [VCallers -> [op : {"none", "create", "list", "delete"},
                               at : {"idle", "start", "record", "recorded", "archive", "archiveForget",
                                     "delete", "forget", "replay", "threads", "listed"},
                               id : 0 .. MaxVSessions, kind : VKinds, prov : Providers,
                               known : SUBSET VIds, hidden : SUBSET VIds, shown : SUBSET VIds]]
    /\ vhidden \subseteq VIds

\* newSessionVisibilityStore with no sidecar.
VisInit ==
    /\ vstore = [internal |-> {}, visible |-> {}, bad |-> FALSE]
    /\ vdisk = [internal |-> {}, visible |-> {}]
    /\ vsess = [n \in VIds |-> [at |-> "none", kind |-> "visible", prov |-> "codex"]]
    /\ vcall = [c \in VCallers |-> NoVCall] /\ vhidden = {}

----------------------------------------------------------------------------
\* The store.

Recorded == vstore.internal \cup vstore.visible

\* saveLocked: the outcome of a change of the records; a failure after the
\* rename keeps the change, and either one closes the store for good.
SaveVisibility(int, vis) ==
    \/ /\ vstore' = [internal |-> int, visible |-> vis, bad |-> FALSE]
       /\ vdisk' = [internal |-> int, visible |-> vis]
    \/ "save" \in VFaults /\ vstore' = [vstore EXCEPT !.bad = TRUE] /\ UNCHANGED vdisk
    \/ /\ "sync" \in VFaults
       /\ vstore' = [internal |-> int, visible |-> vis, bad |-> TRUE]
       /\ vdisk' = [internal |-> int, visible |-> vis]

\* A record of the specification that the caller asked for.
PutVisibility(n, kind) ==
    IF vstore.bad \/ (n \notin Recorded /\ Cardinality(Recorded) >= MaxVRecords)
    THEN UNCHANGED <<vstore, vdisk>>
    ELSE SaveVisibility(IF kind = "internal" THEN vstore.internal \cup {n} ELSE vstore.internal \ {n},
                        IF kind = "visible" THEN vstore.visible \cup {n} ELSE vstore.visible \ {n})

HasRecord(n, kind) ==
    ~vstore'.bad /\ n \in IF kind = "internal" THEN vstore'.internal ELSE vstore'.visible

ForgetVisibility(n) ==
    IF vstore.bad \/ n \notin Recorded
    THEN UNCHANGED <<vstore, vdisk>>
    ELSE SaveVisibility(vstore.internal \ {n}, vstore.visible \ {n})

\* The records of an unreadable sidecar count as none, for comparison.
LoadForgiving ==
    /\ "exit" \in VFaults
    /\ \/ vstore' = [internal |-> vdisk.internal, visible |-> vdisk.visible, bad |-> FALSE]
       \/ "load" \in VFaults /\ vstore' = [internal |-> {}, visible |-> {}, bad |-> FALSE]
    /\ vcall' = [c \in VCallers |-> NoVCall]
    /\ UNCHANGED <<vdisk, vsess, vhidden>>

\* The process ends and the next one loads the sidecar, or refuses to.
LoadVisibility ==
    /\ "exit" \in VFaults
    /\ \/ vstore' = [internal |-> vdisk.internal, visible |-> vdisk.visible, bad |-> FALSE]
       \/ "load" \in VFaults /\ vstore' = [internal |-> {}, visible |-> {}, bad |-> TRUE]
    /\ vcall' = [c \in VCallers |-> NoVCall]
    /\ UNCHANGED <<vdisk, vsess, vhidden>>

----------------------------------------------------------------------------
\* session.create

VGoes(c, at) == vcall' = [vcall EXCEPT ![c].at = at]
VReturns(c) == vcall' = [vcall EXCEPT ![c] = NoVCall]
Fresh(n) == vsess[n].at = "none" /\ \A m \in 1 .. n - 1 : vsess[m].at # "none"
VFrame == UNCHANGED <<vstore, vdisk, vhidden>>

\* The specification is resolved: an internal session is ephemeral or filtered.
ResolveSessionVisibility(c, kind, prov) ==
    /\ vcall[c].op = "none" /\ \E n \in VIds : Fresh(n)
    /\ vcall' = [vcall EXCEPT ![c] = [NoVCall EXCEPT !.op = "create", !.at = "start",
                                                    !.kind = kind, !.prov = prov]]
    /\ UNCHANGED vsess /\ VFrame

\* The provider makes the session; the answer may not come.
MakeSession(c) ==
    /\ vcall[c].at = "start"
    /\ \/ \E n \in VIds :
            /\ Fresh(n)
            /\ vsess' = [vsess EXCEPT ![n] = [at |-> "live", kind |-> vcall[c].kind, prov |-> vcall[c].prov]]
            /\ \/ vcall' = [vcall EXCEPT ![c].at = "record", ![c].id = n]
               \/ "lost" \in VFaults /\ vcall[c].prov = "codex" /\ VReturns(c)
       \/ (\A n \in VIds : ~Fresh(n)) /\ VReturns(c) /\ UNCHANGED vsess
    /\ VFrame

\* Mutant: the caller goes on without the record.
PersistLoosely(c) ==
    /\ vcall[c].at = "record"
    /\ PutVisibility(vcall[c].id, vcall[c].kind)
    /\ VGoes(c, "recorded")
    /\ UNCHANGED <<vsess, vhidden>>

\* persistSessionVisibility; a thread of Codex without a record is archived, a
\* session of Claude Code stays.
PersistSessionVisibility(c) ==
    /\ vcall[c].at = "record"
    /\ PutVisibility(vcall[c].id, vcall[c].kind)
    /\ IF HasRecord(vcall[c].id, vcall[c].kind) THEN VGoes(c, "recorded")
       ELSE IF vcall[c].prov = "codex" THEN VGoes(c, "archive") ELSE VReturns(c)
    /\ UNCHANGED <<vsess, vhidden>>

\* The ledger is updated and the first turn started; the answer names the
\* session.  What fails is cleaned up.
CreateEnds(c) ==
    /\ vcall[c].at = "recorded"
    /\ \/ /\ vhidden' = IF vcall[c].kind = "internal" THEN vhidden \cup {vcall[c].id} ELSE vhidden
          /\ VReturns(c)
       \/ "ledger" \in VFaults /\ vcall[c].prov = "codex" /\ VGoes(c, "archiveForget") /\ UNCHANGED vhidden
       \/ "lost" \in VFaults /\ vcall[c].prov = "codex" /\ VGoes(c, "archive") /\ UNCHANGED vhidden
       \/ "turn" \in VFaults /\ vcall[c].prov = "codex" /\ UNCHANGED vhidden
          /\ vcall' = [vcall EXCEPT ![c].op = "delete", ![c].at = "delete"]
    /\ UNCHANGED <<vstore, vdisk, vsess>>

\* ArchiveThread, whose error nobody reads.
ArchiveFailed(c) ==
    /\ vcall[c].at \in {"archive", "archiveForget"}
    /\ \/ vsess' = [vsess EXCEPT ![vcall[c].id].at = IF @ = "live" THEN "archived" ELSE @]
       \/ "lost" \in VFaults /\ UNCHANGED vsess
    /\ IF vcall[c].at = "archive" THEN VReturns(c) ELSE VGoes(c, "forget")
    /\ VFrame

----------------------------------------------------------------------------
\* session.delete, and the removal after a refused first turn.

BeginDelete(c, n) ==
    /\ vcall[c].op = "none" /\ vsess[n].at # "none"
    /\ vcall' = [vcall EXCEPT ![c] = [NoVCall EXCEPT !.op = "delete", !.at = "delete", !.id = n]]
    /\ UNCHANGED vsess /\ VFrame

\* Mutant: the record goes before the session does.
ForgetFirst(c) ==
    /\ vcall[c].at = "delete"
    /\ ForgetVisibility(vcall[c].id)
    /\ VGoes(c, "remove")
    /\ UNCHANGED <<vsess, vhidden>>

\* The provider deletes it, or says that it does not exist.
DeleteAtProvider(c) ==
    /\ vcall[c].at = "delete"
    /\ \/ vsess' = [vsess EXCEPT ![vcall[c].id].at = "deleted"] /\ VGoes(c, "forget")
       \/ "lost" \in VFaults /\ VReturns(c) /\ UNCHANGED vsess
    /\ VFrame

ForgetSessionVisibility(c) ==
    /\ vcall[c].at = "forget"
    /\ ForgetVisibility(vcall[c].id)
    /\ VReturns(c)
    /\ UNCHANGED <<vsess, vhidden>>

----------------------------------------------------------------------------
\* session.fork, session.unarchive and the same create again.

\* The new session has no record.
Fork(c, n) ==
    /\ vcall[c].op = "none" /\ vsess[n].at = "live" /\ vsess[n].prov = "codex"
    /\ \E m \in VIds : Fresh(m) /\ vsess' = [vsess EXCEPT ![m] = [vsess[n] EXCEPT !.kind = "visible"]]
    /\ UNCHANGED vcall /\ VFrame

Unarchive(n) ==
    /\ vsess[n].at = "archived"
    /\ vsess' = [vsess EXCEPT ![n].at = "live"]
    /\ UNCHANGED vcall /\ VFrame

\* A replayed answer writes its record again, whatever became of the session.
BeginReplay(c, n) ==
    /\ vcall[c].op = "none" /\ n \in vhidden /\ vsess[n].at # "deleted"
    /\ vcall' = [vcall EXCEPT ![c] = [NoVCall EXCEPT !.op = "create", !.at = "replay", !.id = n]]
    /\ UNCHANGED vsess /\ VFrame

ReplayCreate(c) ==
    /\ vcall[c].at = "replay"
    /\ PutVisibility(vcall[c].id, "internal")
    /\ VReturns(c)
    /\ UNCHANGED <<vsess, vhidden>>

----------------------------------------------------------------------------
\* session.list

\* visibilitySnapshot: no answer while the records are in doubt.
VisibilitySnapshot(c) ==
    /\ vcall[c].op = "none" /\ ~vstore.bad
    /\ \E p \in Providers :
        vcall' = [vcall EXCEPT ![c] = [NoVCall EXCEPT !.op = "list", !.at = "threads", !.prov = p,
                                                     !.known = vstore.internal, !.hidden = vhidden]]
    /\ UNCHANGED vsess /\ VFrame

\* decorateSessionWithVisibility over what the provider lists.
SessionList(c) ==
    /\ vcall[c].op = "list" /\ vcall[c].at = "threads"
    /\ vcall' = [vcall EXCEPT ![c].at = "listed",
           ![c].shown = {n \in VIds \ vcall[c].known : vsess[n].at = "live" /\ vsess[n].prov = vcall[c].prov}]
    /\ UNCHANGED vsess /\ VFrame

ListAnswered(c) ==
    /\ vcall[c].at = "listed" /\ VReturns(c) /\ UNCHANGED vsess /\ VFrame

VisStep(c) ==
    \/ \E kind \in VKinds, p \in Providers : ResolveSessionVisibility(c, kind, p)
    \/ MakeSession(c) \/ PersistSessionVisibility(c) \/ CreateEnds(c) \/ ArchiveFailed(c)
    \/ DeleteAtProvider(c) \/ ForgetSessionVisibility(c)
    \/ \E n \in VIds : BeginDelete(c, n) \/ Fork(c, n) \/ BeginReplay(c, n)
    \/ ReplayCreate(c) \/ VisibilitySnapshot(c) \/ SessionList(c) \/ ListAnswered(c)

VisNext ==
    \/ \E c \in VCallers : VisStep(c)
    \/ \E n \in VIds : Unarchive(n)
    \/ LoadVisibility

VisSpec == VisInit /\ [][VisNext]_visVars

----------------------------------------------------------------------------
(***************************************************************************)
(* Properties.                                                             *)
(***************************************************************************)
\* A session.list never shows a session whose creation had been answered as
\* internal when the list began: not after failed saves, restarts, an
\* unreadable sidecar, or a list that meets a deletion
\* (visibilitySnapshot, persistSessionVisibility).
InternalStaysHidden ==
    \A c \in VCallers : vcall[c].shown \cap vcall[c].hidden = {}

\* "internal 不进入 Fast Spider 的普通 session.list": no list shows a session
\* that was asked for as internal (docs/11-local-bridge-and-ai-control.md:140).
InternalIsNeverListed ==
    \A c \in VCallers : \A n \in vcall[c].shown : vsess[n].kind = "visible"

=============================================================================
