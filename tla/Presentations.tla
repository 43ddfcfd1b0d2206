----------------------------- MODULE Presentations -----------------------------
(***************************************************************************)
(* The temporary relay of the Hub for presentations and attachments        *)
(* (src/internal/hub/server/presentations.go): uploads that reserve space  *)
(* before they write, records in memory that expire, files below one       *)
(* directory, and quotas of the Hub, of an owner and of a machine.         *)
(*                                                                         *)
(* An upload is known by its random id, used once.  The owner's quota and  *)
(* the machine's have one form; a scope is the Hub or a machine.           *)
(***************************************************************************)
EXTENDS Naturals, FiniteSets

CONSTANTS
    MaxPuts,        \* bound: uploads
    PMachines,      \* machines that upload
    PSizes,         \* sizes of files
    MaxHubBytes,    \* maxPresentationGlobalBytes
    MaxMachBytes,   \* maxPresentationMachineBytes
    MaxEntries,     \* maxPresentationEntries
    MaxUploading,   \* maxConcurrentPresentationMachineUploads
    MaxRelayClock,  \* bound: passing of time
    RelayFaults     \* "remove": removing a file or the directory fails;
                    \* "body": a body is cut or has another hash; "lost": the
                    \* temporary directory loses a file; "stop": the Hub ends

ASSUME RelayAssumption ==
    /\ MaxPuts \in Nat /\ PSizes \subseteq Nat \ {0} /\ "hub" \notin PMachines
    /\ MaxHubBytes \in Nat /\ MaxMachBytes \in Nat /\ MaxEntries \in Nat
    /\ MaxUploading \in Nat /\ MaxRelayClock \in Nat
    /\ RelayFaults \subseteq {"remove", "body", "lost", "stop"}

VARIABLES
    relay,      \* presentationStore: ready, data and the counters
    puts,       \* putInternal, by the id of the upload
    relayFile,  \* the files below the root
    relayClock  \* time

relayVars == <<relay, puts, relayFile, relayClock>>

Uploads0 == 1 .. MaxPuts
Scopes == {"hub"} \cup PMachines
NoPut == [at |-> "none", machine |-> "hub", size |-> 0, now |-> 0, ends |-> 0]
Zero == [s \in Scopes |-> 0]
EmptyRelay == [ready |-> FALSE, data |-> {}, stored |-> Zero, reserved |-> Zero, uploading |-> Zero]

RelayTypeOK ==
    /\ relay \in [ready : BOOLEAN, data : SUBSET Uploads0, stored : [Scopes -> Nat],
                  reserved : [Scopes -> Nat], uploading : [Scopes -> Nat]]
    /\ puts \in [Uploads0 -> [at : {"none", "reserved", "writing", "verified", "renamed", "stored", "gone"},
                              machine : Scopes, size : PSizes \cup {0},
                              now : 0 .. MaxRelayClock, ends : 0 .. MaxRelayClock + 2]]
    /\ relayFile \in [Uploads0 -> {"none", "tmp", "bin"}] /\ relayClock \in 0 .. MaxRelayClock

RelayInit ==
    /\ relay = EmptyRelay /\ puts = [u \in Uploads0 |-> NoPut]
    /\ relayFile = [u \in Uploads0 |-> "none"] /\ relayClock = 0

In(u) == {"hub", puts[u].machine}
Plus(f, S, n) == [s \in Scopes |-> IF s \in S THEN f[s] + n ELSE f[s]]
Minus(f, S, n) == [s \in Scopes |-> IF s \in S THEN (IF f[s] > n THEN f[s] - n ELSE 0) ELSE f[s]]

\* The bytes of the uploads S, and how many there are.
Bytes(S) == UNION {{u} \X (1 .. puts[u].size) : u \in S}
Total(S) == Cardinality(Bytes(S))

----------------------------------------------------------------------------
\* The store.

RemoveRecord(r, gone) ==
    [r EXCEPT !.data = @ \ gone,
              !.stored = [s \in Scopes |-> @[s] - Total({u \in gone : s \in In(u)})]]

\* Without looking at the answer, for comparison.
DeleteRecordFileAnyway(r, ids, r2, f2) ==
    \E kept \in IF "remove" \in RelayFaults THEN SUBSET ids ELSE {{}} :
        /\ r2 = RemoveRecord(r, ids)
        /\ f2 = [u \in Uploads0 |-> IF u \in ids \ kept THEN "none" ELSE relayFile[u]]

\* deleteRecordFileLocked: a record whose file cannot be removed stays.
DeleteRecordFile(r, ids, r2, f2) ==
    \E kept \in IF "remove" \in RelayFaults THEN SUBSET ids ELSE {{}} :
        /\ r2 = RemoveRecord(r, ids \ kept)
        /\ f2 = [u \in Uploads0 |-> IF u \in ids \ kept THEN "none" ELSE relayFile[u]]

\* Also what is in no record any more, for comparison.
ExpiredAnyway(r, now) ==
    IF r.ready THEN {u \in Uploads0 : puts[u].at = "stored" /\ puts[u].ends <= now} ELSE {}

Expired(r, now) == IF r.ready THEN {u \in r.data : puts[u].ends <= now} ELSE {}

CleanupExpired(r, now, r2, f2) == DeleteRecordFile(r, Expired(r, now), r2, f2)

\* The counters of reservations go on: an upload may be in between.
ResetStored(r) == [r EXCEPT !.data = {}, !.stored = Zero]

\* initializeRootLocked, with what a failed removal leaves.
InitializeRoot(r2, f2) ==
    \/ /\ r2 = [ResetStored(relay) EXCEPT !.ready = TRUE]
       /\ f2 = [u \in Uploads0 |-> "none"]
    \/ /\ "remove" \in RelayFaults /\ r2 = [relay EXCEPT !.ready = FALSE]
       /\ UNCHANGED relayFile /\ f2 = relayFile

ReleaseReservation(r, u) ==
    [r EXCEPT !.uploading = Minus(@, In(u), 1), !.reserved = Minus(@, In(u), puts[u].size)]

----------------------------------------------------------------------------
\* Uploads.

\* "len(s.data)+s.uploading" and both byte counters stay below the limits.
HasRoom(r, m, n) ==
    /\ Cardinality(r.data) + r.uploading["hub"] < MaxEntries
    /\ r.uploading[m] < MaxUploading
    /\ r.stored["hub"] + r.reserved["hub"] + n <= MaxHubBytes
    /\ r.stored[m] + r.reserved[m] + n <= MaxMachBytes

\* A presentation lives for one unit of time, an attachment for two.
ReservePut(u, m, n, ttl) ==
    /\ puts[u].at = "none" /\ \A v \in 1 .. u - 1 : puts[v].at # "none"
    /\ relay.ready
    /\ \E r \in {RemoveRecord(relay, gone) : gone \in SUBSET Expired(relay, relayClock)} :
        /\ CleanupExpired(relay, relayClock, r, relayFile')
        /\ IF HasRoom(r, m, n)
           THEN /\ puts' = [puts EXCEPT ![u] = [at |-> "reserved", machine |-> m, size |-> n,
                                               now |-> relayClock, ends |-> relayClock + ttl]]
                /\ relay' = [r EXCEPT !.uploading = Plus(@, {"hub", m}, 1),
                                      !.reserved = Plus(@, {"hub", m}, n)]
           ELSE relay' = r /\ UNCHANGED puts
    /\ UNCHANGED relayClock

PutGoes(u, at) == puts' = [puts EXCEPT ![u].at = at]

\* The deferred release of an upload that failed.
PutFails(u) ==
    /\ relay' = ReleaseReservation(relay, u)
    /\ puts' = [puts EXCEPT ![u] = [NoPut EXCEPT !.at = "gone"]]

\* The directory is made again when it is missing.
OpenPut(u) ==
    /\ puts[u].at = "reserved"
    /\ \/ relayFile' = [relayFile EXCEPT ![u] = "tmp"] /\ PutGoes(u, "writing") /\ UNCHANGED relay
       \/ "body" \in RelayFaults /\ PutFails(u) /\ UNCHANGED relayFile
    /\ UNCHANGED relayClock

\* The body has the announced size and hash before the deadline, or goes.
ReceiveBody(u) ==
    /\ puts[u].at = "writing"
    /\ \/ PutGoes(u, "verified") /\ UNCHANGED <<relay, relayFile>>
       \/ "body" \in RelayFaults /\ PutFails(u) /\ relayFile' = [relayFile EXCEPT ![u] = "none"]
    /\ UNCHANGED relayClock

RenamePut(u) ==
    /\ puts[u].at = "verified"
    /\ IF relayFile[u] = "tmp"
       THEN relayFile' = [relayFile EXCEPT ![u] = "bin"] /\ PutGoes(u, "renamed") /\ UNCHANGED relay
       ELSE PutFails(u) /\ UNCHANGED relayFile
    /\ UNCHANGED relayClock

\* Mutant: the reservation stays.
CommitKeepsReservation(u) ==
    /\ puts[u].at = "renamed"
    /\ \E r \in {RemoveRecord(relay, gone) : gone \in SUBSET Expired(relay, puts[u].now)} :
        /\ CleanupExpired(relay, puts[u].now, r, relayFile')
        /\ relay' = [r EXCEPT !.data = @ \cup {u}]
    /\ PutGoes(u, "stored") /\ UNCHANGED relayClock

\* The time is the one at which the request began.
CommitReservation(u) ==
    /\ puts[u].at = "renamed"
    /\ \E r \in {RemoveRecord(relay, gone) : gone \in SUBSET Expired(relay, puts[u].now)} :
        /\ CleanupExpired(relay, puts[u].now, r, relayFile')
        /\ relay' = [ReleaseReservation(r, u) EXCEPT !.data = @ \cup {u},
                                                    !.stored = Plus(@, In(u), puts[u].size)]
    /\ PutGoes(u, "stored") /\ UNCHANGED relayClock

----------------------------------------------------------------------------
\* Reads and maintenance.

\* A record whose file is gone or of another size is dropped.
GetPresentation(u) ==
    /\ relay.data # {}
    /\ \E r \in {RemoveRecord(relay, gone) : gone \in SUBSET relay.data},
          ids \in {Expired(relay, relayClock),
                   Expired(relay, relayClock) \cup (IF relayFile[u] = "bin" THEN {} ELSE {u} \cap relay.data)} :
        /\ ids # {}
        /\ u \in relay.data /\ relayFile[u] # "bin" => u \in ids
        /\ DeleteRecordFile(relay, ids, r, relayFile') /\ relay' = r
    /\ UNCHANGED <<puts, relayClock>>

RelayMaintenance ==
    /\ \E r \in {[ResetStored(relay) EXCEPT !.ready = TRUE], [relay EXCEPT !.ready = FALSE]}
                \cup {RemoveRecord(relay, gone) : gone \in SUBSET Expired(relay, relayClock)} :
        /\ relay' = r
        /\ IF relay.ready THEN CleanupExpired(relay, relayClock, r, relayFile')
                          ELSE InitializeRoot(r, relayFile')
    /\ UNCHANGED <<puts, relayClock>>

\* The end of the service; uploads that are still there go on.
ClearRelay ==
    /\ "stop" \in RelayFaults /\ relay.ready
    /\ \/ relay' = [ResetStored(relay) EXCEPT !.ready = FALSE]
          /\ relayFile' = [u \in Uploads0 |-> "none"]
       \/ "remove" \in RelayFaults /\ relay' = [relay EXCEPT !.ready = FALSE] /\ UNCHANGED relayFile
    /\ UNCHANGED <<puts, relayClock>>

\* The process ends; the directory stays.
RelayRestarts ==
    /\ "stop" \in RelayFaults
    /\ relay' = EmptyRelay
    /\ puts' = [u \in Uploads0 |-> IF puts[u].at = "none" THEN NoPut 
                                    ELSE [NoPut EXCEPT !.at = "gone", !.size = puts[u].size,
                                                       !.machine = puts[u].machine]]
    /\ UNCHANGED <<relayFile, relayClock>>

FileLost(u) ==
    /\ "lost" \in RelayFaults /\ relayFile[u] = "bin"
    /\ relayFile' = [relayFile EXCEPT ![u] = "none"]
    /\ UNCHANGED <<relay, puts, relayClock>>

RelayTick == relayClock < MaxRelayClock /\ relayClock' = relayClock + 1 /\ UNCHANGED <<relay, puts, relayFile>>

PutStep(u) ==
    \/ \E m \in PMachines, n \in PSizes, ttl \in {1, 2} : ReservePut(u, m, n, ttl)
    \/ OpenPut(u) \/ ReceiveBody(u) \/ RenamePut(u) \/ CommitReservation(u)

RelayNext ==
    \/ \E u \in Uploads0 : PutStep(u) \/ GetPresentation(u) \/ FileLost(u)
    \/ RelayMaintenance \/ ClearRelay \/ RelayRestarts \/ RelayTick

RelaySpec == RelayInit /\ [][RelayNext]_relayVars

----------------------------------------------------------------------------
(***************************************************************************)
(* Properties.                                                             *)
(***************************************************************************)
OnDisk(s) == {u \in Uploads0 : relayFile[u] # "none" /\ s \in In(u)}

\* While the relay accepts uploads its directory holds no more than the quotas
\* allow, files of an earlier process and files whose removal failed included
\* (reserve, deleteRecordFileLocked, initializeRootLocked).
DiskIsBounded ==
    relay.ready => /\ Total(OnDisk("hub")) <= MaxHubBytes
                   /\ \A m \in PMachines : Total(OnDisk(m)) <= MaxMachBytes
                   /\ Cardinality(OnDisk("hub")) <= MaxEntries

\* The counters that admit an upload are the sums they stand for, also when the
\* store is cleared below a running upload (reserve, commit, release).
CountersAreExact ==
    /\ \A s \in Scopes :
        LET Busy0 == {u \in Uploads0 : puts[u].at \in {"reserved", "writing", "verified", "renamed"} /\ s \in In(u)}
        IN /\ relay.stored[s] = Total({u \in relay.data : s \in In(u)})
           /\ relay.reserved[s] = Total(Busy0)
           /\ relay.uploading[s] = Cardinality(Busy0)

\* Of the relay: what is on disk fits the quota, and the counters are exact.
RelayIsExact == DiskIsBounded /\ CountersAreExact
=============================================================================
