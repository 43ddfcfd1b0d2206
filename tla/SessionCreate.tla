----------------------------- MODULE SessionCreate -----------------------------
(***************************************************************************)
(* Idempotent creation and deletion of agent sessions: the ledger          *)
(* agent/session-create-idempotency.json (agent/session_create_store.go)   *)
(* and the two users of it, session.create and session.delete              *)
(* (agent/manager.go), for the providers Codex and Claude Code.            *)
(*                                                                         *)
(* A session is numbered when its creation is sent to the provider, so     *)
(* that a creation that nobody waits for any more can still succeed.  The  *)
(* sidecar of session visibility keeps no state of this model; its         *)
(* failures are steps of the caller.  A specification stands for its hash  *)
(* and for the hash that older versions computed of it.                    *)
(***************************************************************************)
EXTENDS Integers, FiniteSets

CONSTANTS
    Keys,         \* idempotency keys, with the provider's prefix
    Claude,       \* those of Claude Code
    Specs,        \* hashes of the parameters of session.create
    Callers,      \* goroutines that execute session.create
    Deleters,     \* goroutines that execute session.delete
    None,         \* no record
    MaxRecords,   \* maxSessionCreateRecords
    MaxSessions,  \* bound: number of creations sent to the providers
    MaxRestarts,  \* bound: number of ends of the Node process
    Faults,       \* "save": a save fails; "sync": the fsync of the directory
                  \* after the rename fails; "load": the ledger is unreadable;
                  \* "index": the rollback of Claude Code's index fails
    EarlyDelete   \* whether a session may be deleted while it is created

ASSUME KeysAssumption == Claude \subseteq Keys
ASSUME ActorsAssumption == Callers \cap Deleters = {}
ASSUME BoundsAssumption == /\ MaxRecords \in Nat /\ MaxSessions \in Nat
                           /\ MaxRestarts \in Nat
ASSUME FaultsAssumption == /\ Faults \subseteq {"save", "sync", "load", "index"}
                           /\ EarlyDelete \in BOOLEAN

Sessions == 1..MaxSessions
Actors == Callers \cup Deleters
RecordStates == {"reserved", "thread_created", "in_doubt", "succeeded", "deleting"}
Records == [spec : Specs, state : RecordStates, sid : 0..MaxSessions]

ASSUME NoneAssumption == None \notin Keys \cup Specs \cup Records

VARIABLES
    up,        \* whether the Node process runs
    loadErr,   \* sessionCreateStore.loadErr # nil
    rec,       \* sessionCreateStore.records
    disk,      \* the records of the ledger
    pc,        \* where a goroutine is
    ckey,      \* its storeKey
    cspec,     \* its specHash
    csid,      \* the session that it creates or deletes, or 0
    sess,      \* a session at its provider
    skey,      \* the key for which it was created
    sspec,     \* and the specification
    sent,      \* creations sent so far
    restarts,  \* ends of the Node process so far
    told,      \* history: the session that a key's last answer named
    reclaimed  \* history: sessions whose session.delete has returned

storeVars == <<rec, disk>>
callVars  == <<pc, ckey, cspec, csid>>
sessVars  == <<sess, skey, sspec, sent>>
histVars  == <<told, reclaimed>>
vars == <<up, loadErr, storeVars, callVars, sessVars, restarts, histVars>>

Init ==
    /\ up = TRUE /\ loadErr = FALSE /\ restarts = 0
    /\ rec = [k \in Keys |-> None] /\ disk = [k \in Keys |-> None]
    /\ pc = [a \in Actors |-> "idle"] /\ ckey = [a \in Actors |-> None]
    /\ cspec = [a \in Actors |-> None] /\ csid = [a \in Actors |-> 0]
    /\ sess = [n \in Sessions |-> "none"] /\ skey = [n \in Sessions |-> None]
    /\ sspec = [n \in Sessions |-> None] /\ sent = 0
    /\ told = [k \in Keys |-> 0] /\ reclaimed = {}

-----------------------------------------------------------------------------
(***************************************************************************)
(* The ledger.                                                             *)
(***************************************************************************)
\* Mutant: a reservation that nobody works on is dropped.
InterruptedDropped(r) ==
    [k \in Keys |-> IF r[k] # None /\ r[k].state = "reserved" THEN None ELSE r[k]]

\* markInterruptedSessionCreateRecords.
Interrupted(r) ==
    [k \in Keys |-> IF r[k] # None /\ r[k].state \in {"reserved", "thread_created"}
                    THEN [r[k] EXCEPT !.state = "in_doubt"] ELSE r[k]]

Saved(new) == rec' = new /\ disk' = new

\* saveLocked fails: before the rename, and the caller keeps what it sees fit,
\* or after it, and every transitional record becomes in_doubt.
SaveFails(new, kept) ==
    \/ "save" \in Faults /\ rec' = kept /\ UNCHANGED disk
    \/ "sync" \in Faults /\ disk' = new /\ rec' = Interrupted(new)

Record(s, st, n) == [spec |-> s, state |-> st, sid |-> n]

Has(k) == rec[k] # None

\* Mutant: the record does not get the result.
UpdatedState(k, st, n) == [rec EXCEPT ![k] = Record(@.spec, st, @.sid)]

\* sessionCreateStore.update, on success and on failure.
Updated(k, st, n) == [rec EXCEPT ![k] = Record(@.spec, st, n)]

UpdateOK(k, st, n) == Has(k) /\ Saved(Updated(k, st, n))

UpdateFails(k, st, n) ==
    \/ ~Has(k) /\ UNCHANGED storeVars
    \/ /\ Has(k)
       /\ SaveFails(Updated(k, st, n),
                    IF st = "in_doubt" THEN Updated(k, st, n) ELSE rec)

Goto(a, p) == pc' = [pc EXCEPT ![a] = p]

\* The goroutine returns.
Done(a) == Goto(a, "idle") /\ csid' = [csid EXCEPT ![a] = 0]

-----------------------------------------------------------------------------
(***************************************************************************)
(* session.create.                                                         *)
(***************************************************************************)
\* begin finds a record of the key: a replay, a conflict, in progress, or in
\* doubt.
Known(c, k, s) ==
    /\ Has(k)
    /\ told' = [told EXCEPT ![k] = IF rec[k].spec = s /\ rec[k].state = "succeeded"
                                   THEN rec[k].sid ELSE @]
    /\ UNCHANGED <<storeVars, callVars>>

\* begin reserves the key.
Reserve(c, k, s) ==
    LET new == [rec EXCEPT ![k] = Record(s, "reserved", 0)] IN
    /\ ~Has(k)
    /\ Cardinality({j \in Keys : Has(j)}) < MaxRecords
    /\ \/ /\ Saved(new)
          /\ Goto(c, "reserved")
          /\ ckey' = [ckey EXCEPT ![c] = k] /\ cspec' = [cspec EXCEPT ![c] = s]
          /\ UNCHANGED csid
       \/ SaveFails(new, rec) /\ UNCHANGED callVars
    /\ UNCHANGED told

Begin(c, k, s) ==
    /\ up /\ ~loadErr /\ pc[c] = "idle"
    /\ Known(c, k, s) \/ Reserve(c, k, s)
    /\ UNCHANGED <<up, loadErr, sessVars, restarts, reclaimed>>

\* thread/start is sent to the app-server, or a Claude Code session is begun.
Send(c) ==
    LET n == sent + 1 IN
    /\ pc[c] = "reserved" /\ n \in Sessions
    /\ Goto(c, "starting") /\ csid' = [csid EXCEPT ![c] = n]
    /\ sent' = n
    /\ sess' = [sess EXCEPT ![n] = "asked"]
    /\ skey' = [skey EXCEPT ![n] = ckey[c]]
    /\ sspec' = [sspec EXCEPT ![n] = cspec[c]]
    /\ UNCHANGED <<up, loadErr, storeVars, ckey, cspec, restarts, histVars>>

\* The provider creates the session or refuses it, whoever still waits.
Provide(n) ==
    /\ sess[n] = "asked"
    /\ \E s \in {"live", "refused"} : sess' = [sess EXCEPT ![n] = s]
    /\ UNCHANGED <<up, loadErr, storeVars, callVars, skey, sspec, sent,
                   restarts, histVars>>

\* The answer arrives; or, from Codex, a timeout, a lost app-server or an
\* answer without an id; or the turn of a Claude Code session does not start
\* and the session stays in the index.
Started(c) ==
    /\ pc[c] = "starting"
    /\ \/ sess[csid[c]] = "live" /\ Goto(c, "started")
       \/ sess[csid[c]] = "refused" /\ Goto(c, "refused")
       \/ ckey[c] \notin Claude /\ Goto(c, "ambiguous")
       \/ /\ ckey[c] \in Claude /\ "index" \in Faults /\ sess[csid[c]] = "live"
          /\ Goto(c, "refused")
    /\ UNCHANGED <<up, loadErr, storeVars, ckey, cspec, csid, sessVars,
                   restarts, histVars>>

\* A definitive refusal: abort removes a record that is still reserved.
Abort(c) ==
    LET k == ckey[c]
        new == [rec EXCEPT ![k] = None] IN
    /\ pc[c] = "refused"
    /\ IF Has(k) /\ rec[k].state = "reserved"
       THEN Saved(new) \/ SaveFails(new, rec)
       ELSE UNCHANGED storeVars
    /\ Done(c)
    /\ UNCHANGED <<up, loadErr, ckey, cspec, sessVars, restarts, histVars>>

\* Nobody knows whether there is a session.
Doubt(c) ==
    LET k == ckey[c] IN
    /\ pc[c] = "ambiguous"
    /\ UpdateOK(k, "in_doubt", 0) \/ UpdateFails(k, "in_doubt", 0)
    /\ Done(c)
    /\ UNCHANGED <<up, loadErr, ckey, cspec, sessVars, restarts, histVars>>

\* The visibility of the session is saved, and then, for Codex, its id.
Describe(c) ==
    LET k == ckey[c] IN
    /\ pc[c] = "started"
    /\ \/ Goto(c, "spoiled") /\ UNCHANGED storeVars
       \/ k \in Claude /\ Goto(c, "ready") /\ UNCHANGED storeVars
       \/ /\ k \notin Claude
          /\ \/ UpdateOK(k, "thread_created", csid[c]) /\ Goto(c, "created")
             \/ UpdateFails(k, "thread_created", csid[c]) /\ Goto(c, "archive")
    /\ UNCHANGED <<up, loadErr, ckey, cspec, csid, sessVars, restarts, histVars>>

\* The first turn of a Codex session, if there is one.
StartTurn(c) ==
    /\ pc[c] = "created"
    /\ \E p \in {"ready", "delete", "spoiled"} : Goto(c, p)
    /\ UNCHANGED <<up, loadErr, storeVars, ckey, cspec, csid, sessVars,
                   restarts, histVars>>

\* Something failed after the session was created: it is kept in doubt, with
\* its id, and a Codex session is archived.
DoubtKnown(c) ==
    LET k == ckey[c] IN
    /\ pc[c] = "spoiled"
    /\ UpdateOK(k, "in_doubt", csid[c]) \/ UpdateFails(k, "in_doubt", csid[c])
    /\ IF k \in Claude THEN Done(c) ELSE Goto(c, "archive") /\ UNCHANGED csid
    /\ UNCHANGED <<up, loadErr, ckey, cspec, sessVars, restarts, histVars>>

\* ArchiveThread, whose error is ignored.
Archive(c) ==
    /\ pc[c] = "archive"
    /\ \/ /\ sess[csid[c]] = "live"
          /\ sess' = [sess EXCEPT ![csid[c]] = "archived"]
       \/ UNCHANGED sess
    /\ Done(c)
    /\ UNCHANGED <<up, loadErr, storeVars, ckey, cspec, skey, sspec, sent,
                   restarts, histVars>>

\* Mutant: the caller gets the session although the save failed.
SucceedAnyway(c) ==
    LET k == ckey[c] IN
    /\ pc[c] = "ready"
    /\ UpdateOK(k, "succeeded", csid[c]) \/ UpdateFails(k, "succeeded", csid[c])
    /\ told' = [told EXCEPT ![k] = csid[c]]
    /\ Done(c)
    /\ UNCHANGED <<up, loadErr, ckey, cspec, sessVars, restarts, reclaimed>>

\* The record becomes succeeded and the caller gets the session.
Succeed(c) ==
    LET k == ckey[c] IN
    /\ pc[c] = "ready"
    /\ \/ /\ UpdateOK(k, "succeeded", csid[c])
          /\ told' = [told EXCEPT ![k] = csid[c]]
       \/ UpdateFails(k, "succeeded", csid[c]) /\ UNCHANGED told
    /\ Done(c)
    /\ UNCHANGED <<up, loadErr, ckey, cspec, sessVars, restarts, reclaimed>>

-----------------------------------------------------------------------------
(***************************************************************************)
(* session.delete, also of the session whose first turn was rejected       *)
(* (cleanupRejectedInitialTurn).                                           *)
(***************************************************************************)
Delete(d, n) ==
    /\ up /\ ~loadErr /\ pc[d] = "idle"
    /\ sess[n] \in {"live", "archived", "deleted"}
    /\ EarlyDelete \/ \A c \in Callers : csid[c] # n
    /\ Goto(d, "delete") /\ csid' = [csid EXCEPT ![d] = n]
    /\ UNCHANGED <<up, loadErr, storeVars, ckey, cspec, sessVars, restarts, histVars>>

\* Mutant: only what succeeded is looked for.
RecordsSucceeded(n) ==
    {k \in Keys : Has(k) /\ rec[k].sid = n /\ rec[k].state \in {"succeeded", "deleting"}}

RecordsOf(n) == {k \in Keys : Has(k) /\ rec[k].sid = n}

\* prepareSessionDelete.
Prepare(a) ==
    LET n == csid[a]
        open == {k \in RecordsOf(n) : rec[k].state # "deleting"}
        new == [k \in Keys |-> IF k \in open THEN Record(rec[k].spec, "deleting", n)
                                             ELSE rec[k]] IN
    /\ pc[a] = "delete"
    /\ \/ open = {} /\ Goto(a, "prepared") /\ UNCHANGED <<storeVars, csid>>
       \/ open # {} /\ Saved(new) /\ Goto(a, "prepared") /\ UNCHANGED csid
       \/ open # {} /\ SaveFails(new, rec) /\ Done(a)
    /\ UNCHANGED <<up, loadErr, ckey, cspec, sessVars, restarts, histVars>>

\* The provider deletes the session, does not know it any more, or fails.
DeleteSession(a) ==
    /\ pc[a] = "prepared"
    /\ \/ /\ sess' = [sess EXCEPT ![csid[a]] = "deleted"]
          /\ Goto(a, "gone") /\ UNCHANGED csid
       \/ Done(a) /\ UNCHANGED sess
    /\ UNCHANGED <<up, loadErr, storeVars, ckey, cspec, skey, sspec, sent,
                   restarts, histVars>>

\* finalizeSessionDelete.
Finalize(a) ==
    LET n == csid[a]
        closed == {k \in RecordsOf(n) : rec[k].state = "deleting"}
        new == [k \in Keys |-> IF k \in closed THEN None ELSE rec[k]] IN
    /\ pc[a] = "gone"
    /\ \/ /\ IF closed = {} THEN UNCHANGED storeVars ELSE Saved(new)
          /\ reclaimed' = reclaimed \cup {n}
       \/ closed # {} /\ SaveFails(new, rec) /\ UNCHANGED reclaimed
    /\ Done(a)
    /\ UNCHANGED <<up, loadErr, ckey, cspec, sessVars, restarts, told>>

\* Mutant: a creation in progress is released too.
ReleaseAny(k) ==
    LET new == [rec EXCEPT ![k] = None] IN
    /\ up /\ ~loadErr
    /\ Has(k) /\ rec[k].sid = 0
    /\ \A n \in Sessions : skey[n] = k => sess[n] \in {"refused", "deleted"}
    /\ Saved(new) \/ SaveFails(new, rec)
    /\ UNCHANGED <<up, loadErr, callVars, sessVars, restarts, histVars>>

\* The owner has reconciled the provider's sessions and confirms that the
\* creation did not happen (decision=confirm_not_created).
Release(k) ==
    LET new == [rec EXCEPT ![k] = None] IN
    /\ up /\ ~loadErr
    /\ Has(k) /\ rec[k].state = "in_doubt" /\ rec[k].sid = 0
    /\ \A n \in Sessions : skey[n] = k => sess[n] \in {"refused", "deleted"}
    /\ Saved(new) \/ SaveFails(new, rec)
    /\ UNCHANGED <<up, loadErr, callVars, sessVars, restarts, histVars>>

-----------------------------------------------------------------------------
(***************************************************************************)
(* The Node process ends and starts again.                                 *)
(***************************************************************************)
Crash ==
    /\ up /\ restarts < MaxRestarts
    /\ up' = FALSE /\ loadErr' = FALSE /\ restarts' = restarts + 1
    /\ rec' = [k \in Keys |-> None]
    /\ pc' = [a \in Actors |-> "idle"] /\ ckey' = [a \in Actors |-> None]
    /\ cspec' = [a \in Actors |-> None] /\ csid' = [a \in Actors |-> 0]
    /\ UNCHANGED <<disk, sessVars, histVars>>

\* newSessionCreateStore: nobody works on the records that are not final.
Load ==
    /\ ~up /\ up' = TRUE
    /\ \/ rec' = Interrupted(disk) /\ UNCHANGED loadErr
       \/ "load" \in Faults /\ loadErr' = TRUE /\ UNCHANGED rec
    /\ UNCHANGED <<disk, callVars, sessVars, restarts, histVars>>

Next ==
    \/ \E c \in Callers :
          \/ \E k \in Keys, s \in Specs : Begin(c, k, s)
          \/ Send(c) \/ Started(c) \/ Abort(c) \/ Doubt(c) \/ Describe(c)
          \/ StartTurn(c) \/ DoubtKnown(c) \/ Archive(c) \/ Succeed(c)
    \/ \E n \in Sessions :
          \/ Provide(n)
          \/ \E d \in Deleters : Delete(d, n)
    \/ \E a \in Actors : Prepare(a) \/ DeleteSession(a) \/ Finalize(a)
    \/ \E k \in Keys : Release(k)
    \/ Crash \/ Load

Spec == Init /\ [][Next]_vars

-----------------------------------------------------------------------------
CallerSteps == {"reserved", "starting", "started", "refused", "ambiguous",
                "created", "ready", "spoiled", "archive"}
DeleteSteps == {"delete", "prepared", "gone"}

\* The types of the variables.  A record that names a session is not reserved
\* any more, as validateSessionCreateRecord demands of the ledger.
TypeOK ==
    /\ up \in BOOLEAN /\ loadErr \in BOOLEAN
    /\ rec \in [Keys -> Records \cup {None}]
    /\ disk \in [Keys -> Records \cup {None}]
    /\ \A k \in Keys : disk[k] # None =>
          /\ disk[k].state = "reserved" => disk[k].sid = 0
          /\ disk[k].state \in {"thread_created", "succeeded", "deleting"}
                => disk[k].sid # 0
    /\ pc \in [Actors -> {"idle"} \cup CallerSteps \cup DeleteSteps]
    /\ ckey \in [Actors -> Keys \cup {None}]
    /\ cspec \in [Actors -> Specs \cup {None}]
    /\ csid \in [Actors -> 0..MaxSessions]
    /\ sess \in [Sessions ->
                   {"none", "asked", "live", "archived", "refused", "deleted"}]
    /\ skey \in [Sessions -> Keys \cup {None}]
    /\ sspec \in [Sessions -> Specs \cup {None}]
    /\ sent \in 0..MaxSessions /\ restarts \in 0..MaxRestarts
    /\ told \in [Keys -> 0..MaxSessions] /\ reclaimed \subseteq Sessions

\* The session exists, or the provider may still create it.
Exists(n) == sess[n] \in {"asked", "live", "archived"}

\* A key has at most one session, whatever the retries of session.create, the
\* answers that get lost, the failed saves and the restarts: the next
\* creation is sent only after the record of the last one was removed, by a
\* definitive refusal, by the end of the session or by the owner.
OneSessionPerKey ==
    \A m, n \in Sessions :
        Exists(m) /\ Exists(n) /\ skey[m] = skey[n] => m = n

\* The session that a record names was created for its key and with its
\* parameters: a caller whose reservation is gone never writes its session
\* into the record of a later caller.
RecordOwnsSession ==
    \A k \in Keys, r \in {rec, disk} :
        r[k] # None /\ r[k].sid # 0 =>
            skey[r[k].sid] = k /\ sspec[r[k].sid] = r[k].spec

\* A session that session.create has answered is what every retry gets, also
\* after a restart, as long as it is not deleted: the ledger keeps it.
ReplayIsStable ==
    \A k \in Keys :
        told[k] # 0 /\ sess[told[k]] # "deleted" =>
            /\ disk[k] # None /\ disk[k].sid = told[k]
            /\ disk[k].state \in {"succeeded", "deleting"}

\* When session.delete has returned, nothing in memory or in the ledger names
\* the session any more: its key can be used again, and no retry is answered
\* with a session that does not exist.
DeletedIsReclaimed ==
    \A k \in Keys, r \in {rec, disk} :
        r[k] # None => r[k].sid \notin reclaimed

\* Of the ledger: a key has one session, which its record and every retry name
\* until it is deleted.
LedgerIsSound == OneSessionPerKey /\ RecordOwnsSession /\ ReplayIsStable /\ DeletedIsReclaimed
=============================================================================
