------------------------------ MODULE RelayProofs ------------------------------
(***************************************************************************)
(* Proofs about the relay of presentations, whose counters are exact; and  *)
(* the types of the parts of the Hub in one behaviour, as MCHub composes   *)
(* them, from the invariants of HubProofs, of CloudProofs and of the relay.*)
(***************************************************************************)
EXTENDS MCHub, HubProofs, CloudProofs, FiniteSetTheorems, TLAPS

-----------------------------------------------------------------------------
(***************************************************************************)
(* The relay of presentations.  A sum of sizes is the number of bytes of   *)
(* the files, so that the facts on cardinalities tell how sums change.     *)
(***************************************************************************)
BytesOf(p, S) == UNION {{u} \X (1 .. p[u].size) : u \in S}
TotalOf(p, S) == Cardinality(BytesOf(p, S))

\* What the bytes of a set of uploads are.
LEMMA BytesAre ==
    ASSUME NEW p, NEW S
    PROVE  \A x : x \in BytesOf(p, S) <=> \E u \in S : \E b \in 1 .. p[u].size : x = <<u, b>>
BY DEF BytesOf

\* Nothing has no bytes, and one file those of its size.
LEMMA TotalOne ==
    ASSUME NEW p, NEW u, p[u].size \in Nat
    PROVE  /\ BytesOf(p, {}) = {} /\ TotalOf(p, {}) = 0
           /\ IsFiniteSet(BytesOf(p, {u})) /\ TotalOf(p, {u}) = p[u].size
<1>1. BytesOf(p, {}) = {} /\ TotalOf(p, {}) = 0
  BY FS_EmptySet DEF BytesOf, TotalOf
<1>2. BytesOf(p, {u}) = {u} \X (1 .. p[u].size)
  BY DEF BytesOf
<1>3. IsFiniteSet({u}) /\ Cardinality({u}) = 1
  BY FS_Singleton
<1>4. IsFiniteSet(1 .. p[u].size) /\ Cardinality(1 .. p[u].size) = p[u].size
  <2>1. ASSUME NEW n \in Nat PROVE IsFiniteSet(1 .. n) /\ Cardinality(1 .. n) = n
    <3>1. 1 \in Int /\ n \in Int
      OBVIOUS
    <3>2. IsFiniteSet(1 .. n) /\ Cardinality(1 .. n) = IF 1 > n THEN 0 ELSE n - 1 + 1
      BY <3>1, FS_Interval
    <3> QED
      BY <3>2
  <2> QED
    BY <2>1
<1>5. IsFiniteSet({u} \X (1 .. p[u].size))
      /\ Cardinality({u} \X (1 .. p[u].size)) = 1 * p[u].size
  BY <1>3, <1>4, FS_Product
<1> QED
  BY <1>1, <1>2, <1>5 DEF TotalOf

\* The bytes of two sets of uploads that have none in common.
LEMMA TotalOfBoth ==
    ASSUME NEW p, NEW U, IsFiniteSet(BytesOf(p, U)), NEW S \in SUBSET U, NEW T \in SUBSET U,
           S \cap T = {}
    PROVE  /\ TotalOf(p, S \cup T) = TotalOf(p, S) + TotalOf(p, T)
           /\ TotalOf(p, S) \in Nat /\ TotalOf(p, T) \in Nat
<1>1. BytesOf(p, S) \subseteq BytesOf(p, U) /\ BytesOf(p, T) \subseteq BytesOf(p, U)
  BY BytesAre
<1>2. IsFiniteSet(BytesOf(p, S)) /\ IsFiniteSet(BytesOf(p, T))
  BY <1>1, FS_Subset
<1>3. BytesOf(p, S \cup T) = BytesOf(p, S) \cup BytesOf(p, T)
  BY DEF BytesOf
<1>4. BytesOf(p, S) \cap BytesOf(p, T) = {}
  BY BytesAre
<1>5. /\ Cardinality(BytesOf(p, S)) \in Nat /\ Cardinality(BytesOf(p, T)) \in Nat
      /\ Cardinality({}) = 0
  BY <1>2, FS_CardinalityType, FS_EmptySet
<1>6. Cardinality(BytesOf(p, S) \cup BytesOf(p, T)) =
          Cardinality(BytesOf(p, S)) + Cardinality(BytesOf(p, T))
              - Cardinality(BytesOf(p, S) \cap BytesOf(p, T))
  BY <1>2, FS_Union
<1>7. Cardinality(BytesOf(p, S) \cap BytesOf(p, T)) = 0
  BY <1>4, <1>5
<1>8. /\ TotalOf(p, S \cup T) = Cardinality(BytesOf(p, S) \cup BytesOf(p, T))
      /\ TotalOf(p, S) = Cardinality(BytesOf(p, S)) /\ TotalOf(p, T) = Cardinality(BytesOf(p, T))
  BY <1>3 DEF TotalOf
<1> QED
  BY <1>5, <1>6, <1>7, <1>8

\* The bytes of some of the uploads.
LEMMA TotalOfSome ==
    ASSUME NEW p, NEW U, IsFiniteSet(BytesOf(p, U)), NEW T \in SUBSET U, NEW S \in SUBSET T
    PROVE  /\ TotalOf(p, T \ S) = TotalOf(p, T) - TotalOf(p, S)
           /\ TotalOf(p, S) <= TotalOf(p, T)
           /\ TotalOf(p, S) \in Nat /\ TotalOf(p, T) \in Nat /\ TotalOf(p, T \ S) \in Nat
<1>1. T = S \cup (T \ S) /\ S \cap (T \ S) = {} /\ T \ S \in SUBSET U /\ S \in SUBSET U
  OBVIOUS
<1>2. /\ TotalOf(p, S \cup (T \ S)) = TotalOf(p, S) + TotalOf(p, T \ S)
      /\ TotalOf(p, S) \in Nat /\ TotalOf(p, T \ S) \in Nat
  BY <1>1, TotalOfBoth
<1>3. TotalOf(p, S \cup (T \ S)) = TotalOf(p, T)
  BY <1>1
<1> HIDE DEF TotalOf
<1> QED
  BY <1>2, <1>3

\* Only the sizes count.
LEMMA TotalSame ==
    ASSUME NEW p, NEW q, NEW S, \A u \in S : p[u].size = q[u].size
    PROVE  BytesOf(p, S) = BytesOf(q, S) /\ TotalOf(p, S) = TotalOf(q, S)
<1>1. \A x : x \in BytesOf(p, S) <=> x \in BytesOf(q, S)
  BY BytesAre
<1> QED
  BY <1>1 DEF TotalOf

RelayRows == [ready : BOOLEAN, data : SUBSET Uploads0, stored : [Scopes -> Nat],
              reserved : [Scopes -> Nat], uploading : [Scopes -> Nat]]
PutSteps == {"none", "reserved", "writing", "verified", "renamed", "stored", "gone"}
PutRows == [at : PutSteps, machine : Scopes, size : PSizes \cup {0},
            now : 0 .. MaxRelayClock, ends : 0 .. MaxRelayClock + 2]
AtWork == {"reserved", "writing", "verified", "renamed"}

\* Whom an upload counts for, what is stored for a scope, and what is under way.
ScopesOf(p, u) == {"hub", p[u].machine}
Stored(r, p, s) == {u \in r.data : s \in ScopesOf(p, u)}
Busy(p, s) == {u \in Uploads0 : p[u].at \in AtWork /\ s \in ScopesOf(p, u)}

\* The counters are the sums they stand for, and leave the room that was promised.
Exact(r, p) ==
    \A s \in Scopes : /\ r.stored[s] = TotalOf(p, Stored(r, p, s))
                      /\ r.reserved[s] = TotalOf(p, Busy(p, s))
                      /\ r.uploading[s] = Cardinality(Busy(p, s))
Within(r) ==
    /\ Cardinality(r.data) + r.uploading["hub"] <= MaxEntries
    /\ r.stored["hub"] + r.reserved["hub"] <= MaxHubBytes
    /\ \A m \in PMachines : r.stored[m] + r.reserved[m] <= MaxMachBytes
CountersHold(r, p) ==
    /\ r \in RelayRows /\ p \in [Uploads0 -> PutRows] /\ IsFiniteSet(BytesOf(p, Uploads0))
    /\ \A u \in r.data : p[u].at = "stored"
    /\ Exact(r, p) /\ Within(r)

\* Files are of uploads that are under way or stored, while the relay is ready.
FilesKnown(r, p, f) ==
    /\ f \in [Uploads0 -> {"none", "tmp", "bin"}]
    /\ \A u \in Uploads0 : f[u] # "none" =>
           /\ p[u].at \notin {"none", "reserved"}
           /\ p[u].at \in {"writing", "verified"} => f[u] = "tmp"
           /\ r.ready => u \in r.data \/ p[u].at \in AtWork
RelayInv == CountersHold(relay, puts) /\ FilesKnown(relay, puts, relayFile) /\ relayClock \in 0 .. MaxRelayClock

\* The uploads are finitely many, and so are sets of them.
LEMMA FiniteUploads ==
    /\ IsFiniteSet(Uploads0) /\ Cardinality({}) = 0
    /\ \A S \in SUBSET Uploads0 : IsFiniteSet(S) /\ Cardinality(S) \in Nat
<1>1. IsFiniteSet(Uploads0)
  <2>1. 1 \in Int /\ MaxPuts \in Int
    BY RelayAssumption
  <2> QED
    BY <2>1, FS_Interval DEF Uploads0
<1> QED
  BY <1>1, FS_EmptySet, FS_Subset, FS_CardinalityType

\* Records are removed.
LEMMA RemoveCounts ==
    ASSUME NEW r, NEW p, CountersHold(r, p), NEW gone \in SUBSET r.data, NEW r2 \in RelayRows,
           r2.ready = r.ready, r2.reserved = r.reserved, r2.uploading = r.uploading,
           r2.data = r.data \ gone,
           \A s \in Scopes : r2.stored[s] = r.stored[s] - TotalOf(p, {u \in gone : s \in ScopesOf(p, u)})
    PROVE  CountersHold(r2, p)
<1>1. /\ IsFiniteSet(BytesOf(p, Uploads0)) /\ r.data \subseteq Uploads0 /\ Exact(r, p)
      /\ \A s \in Scopes : r.stored[s] \in Nat /\ r2.stored[s] \in Nat /\ r.reserved[s] \in Nat
                           /\ r.uploading[s] \in Nat
      /\ Within(r)
  BY DEF CountersHold, RelayRows
<1>2. ASSUME NEW s \in Scopes
      PROVE  r2.stored[s] = TotalOf(p, Stored(r2, p, s)) /\ r2.stored[s] <= r.stored[s]
  <2> DEFINE D == Stored(r, p, s)
             G == {u \in gone : s \in ScopesOf(p, u)}
  <2>1. D \in SUBSET Uploads0 /\ G \in SUBSET D /\ Stored(r2, p, s) = D \ G
    BY <1>1 DEF Stored
  <2>2. r.stored[s] = TotalOf(p, D) /\ r2.stored[s] = r.stored[s] - TotalOf(p, G)
    BY <1>1 DEF Exact
  <2> HIDE DEF D, G
  <2>3. /\ TotalOf(p, D \ G) = TotalOf(p, D) - TotalOf(p, G) /\ TotalOf(p, G) <= TotalOf(p, D)
        /\ TotalOf(p, G) \in Nat /\ TotalOf(p, D) \in Nat
    <3>1. ASSUME NEW T \in SUBSET Uploads0, NEW S \in SUBSET T
          PROVE  /\ TotalOf(p, T \ S) = TotalOf(p, T) - TotalOf(p, S) /\ TotalOf(p, S) <= TotalOf(p, T)
                 /\ TotalOf(p, S) \in Nat /\ TotalOf(p, T) \in Nat
      <4>1. IsFiniteSet(BytesOf(p, Uploads0))
        BY <1>1
      <4>2. TotalOf(p, T \ S) = TotalOf(p, T) - TotalOf(p, S)
        BY <4>1, TotalOfSome
      <4>3. TotalOf(p, S) <= TotalOf(p, T)
        BY <4>1, TotalOfSome
      <4>4. TotalOf(p, S) \in Nat /\ TotalOf(p, T) \in Nat
        BY <4>1, TotalOfSome
      <4> QED
        BY <4>2, <4>3, <4>4
    <3> QED
      BY <2>1, <3>1
  <2> QED
    BY <2>1, <2>2, <2>3
<1>3. Exact(r2, p)
  BY <1>1, <1>2 DEF Exact
<1>4. Cardinality(r2.data) <= Cardinality(r.data) /\ Cardinality(r2.data) \in Nat
      /\ Cardinality(r.data) \in Nat
  BY <1>1, FiniteUploads, FS_Subset
<1>5. Within(r2)
  <2>1. "hub" \in Scopes /\ PMachines \subseteq Scopes
    BY DEF Scopes
  <2> QED
    BY <1>1, <1>2, <1>4, <2>1, RelayAssumption DEF Within
<1> QED
  BY <1>3, <1>5 DEF CountersHold

\* The store is emptied, whether it is ready or not.
LEMMA ResetCounts ==
    ASSUME NEW r, NEW p, CountersHold(r, p), NEW r2 \in RelayRows, r2.data = {},
           \A s \in Scopes : r2.stored[s] = 0, r2.reserved = r.reserved, r2.uploading = r.uploading
    PROVE  CountersHold(r2, p)
<1>1. \A s \in Scopes : Stored(r2, p, s) = {}
  BY DEF Stored
<1>2. TotalOf(p, {}) = 0 /\ Cardinality({}) = 0
  BY FS_EmptySet, BytesAre DEF TotalOf, BytesOf
<1>3. /\ \A s \in Scopes : r.stored[s] \in Nat /\ r.reserved[s] \in Nat /\ r.uploading[s] \in Nat
      /\ Exact(r, p) /\ Within(r) /\ Cardinality(r.data) \in Nat
  BY FiniteUploads DEF CountersHold, RelayRows
<1>4. Exact(r2, p)
  BY <1>1, <1>2, <1>3 DEF Exact
<1>5. Within(r2)
  <2>1. "hub" \in Scopes /\ PMachines \subseteq Scopes
    BY DEF Scopes
  <2> QED
    BY <1>2, <1>3, <2>1, RelayAssumption DEF Within
<1> QED
  BY <1>4, <1>5 DEF CountersHold

\* The store is ready or not.
LEMMA ReadyCounts ==
    ASSUME NEW r, NEW p, CountersHold(r, p), NEW r2 \in RelayRows, r2.data = r.data,
           r2.stored = r.stored, r2.reserved = r.reserved, r2.uploading = r.uploading
    PROVE  CountersHold(r2, p)
BY DEF CountersHold, Exact, Stored, Within

\* An upload goes on.
LEMMA GoesCounts ==
    ASSUME NEW r, NEW p, CountersHold(r, p), NEW u \in Uploads0, p[u].at \in AtWork,
           NEW q \in [Uploads0 -> PutRows], q[u].at \in AtWork, q[u].machine = p[u].machine,
           q[u].size = p[u].size, \A v \in Uploads0 \ {u} : q[v] = p[v]
    PROVE  CountersHold(r, q)
<1>1. \A v \in Uploads0 : q[v].size = p[v].size
  OBVIOUS
<1>2. \A S \in SUBSET Uploads0 : TotalOf(q, S) = TotalOf(p, S) /\ BytesOf(q, S) = BytesOf(p, S)
  BY <1>1, TotalSame
<1>3. \A s \in Scopes : Busy(q, s) = Busy(p, s) /\ Busy(p, s) \in SUBSET Uploads0
  BY DEF Busy, ScopesOf
<1>4. \A s \in Scopes : Stored(r, q, s) = Stored(r, p, s) /\ Stored(r, p, s) \in SUBSET Uploads0
  BY DEF Stored, ScopesOf, CountersHold, RelayRows
<1>5. Exact(r, q)
  BY <1>2, <1>3, <1>4 DEF Exact, CountersHold
<1>6. \A v \in r.data : q[v].at = "stored"
  <2>1. r.data \subseteq Uploads0 /\ \A v \in r.data : p[v].at = "stored"
    BY DEF CountersHold, RelayRows
  <2> QED
    BY <2>1 DEF AtWork
<1> QED
  BY <1>2, <1>5, <1>6 DEF CountersHold

\* One more upload.
LEMMA TotalAdded ==
    ASSUME NEW p, NEW q, IsFiniteSet(BytesOf(q, Uploads0)), NEW S \in SUBSET Uploads0,
           NEW u \in Uploads0, u \notin S, q[u].size \in Nat, \A v \in S : q[v].size = p[v].size
    PROVE  TotalOf(q, S \cup {u}) = TotalOf(p, S) + q[u].size
<1>1. S \cap {u} = {} /\ {u} \in SUBSET Uploads0
  OBVIOUS
<1>2. TotalOf(q, S \cup {u}) = TotalOf(q, S) + TotalOf(q, {u})
  BY <1>1, TotalOfBoth
<1>3. TotalOf(q, {u}) = q[u].size
  BY TotalOne
<1>4. TotalOf(q, S) = TotalOf(p, S)
  BY TotalSame
<1> QED
  BY <1>2, <1>3, <1>4

\* What is stored does not change with an upload that is not.
LEMMA StoredSame ==
    ASSUME NEW r, NEW p, CountersHold(r, p), NEW u \in Uploads0, p[u].at # "stored", NEW q,
           \A v \in Uploads0 \ {u} : q[v] = p[v]
    PROVE  /\ u \notin r.data /\ \A v \in r.data : q[v].at = "stored"
           /\ \A s \in Scopes : /\ Stored(r, q, s) = Stored(r, p, s)
                                /\ Stored(r, p, s) \in SUBSET Uploads0 /\ u \notin Stored(r, p, s)
                                /\ TotalOf(q, Stored(r, p, s)) = r.stored[s]
<1>1. u \notin r.data /\ r.data \subseteq Uploads0 /\ \A v \in r.data : p[v].at = "stored"
  BY DEF CountersHold, RelayRows
<1>2. \A v \in r.data : q[v] = p[v]
  BY <1>1
<1>3. ASSUME NEW s \in Scopes
      PROVE  /\ Stored(r, q, s) = Stored(r, p, s) /\ Stored(r, p, s) \in SUBSET r.data
             /\ TotalOf(q, Stored(r, p, s)) = r.stored[s]
  <2>1. Stored(r, q, s) = Stored(r, p, s) /\ Stored(r, p, s) \in SUBSET r.data
    BY <1>2 DEF Stored, ScopesOf
  <2>2. TotalOf(q, Stored(r, p, s)) = TotalOf(p, Stored(r, p, s))
    BY <1>2, <2>1, TotalSame
  <2> QED
    BY <2>1, <2>2 DEF CountersHold, Exact
<1> QED
  BY <1>1, <1>2, <1>3

\* What a request asks for, and gets, is still within the limits.
LEMMA ReserveCounts ==
    ASSUME NEW r, NEW p, CountersHold(r, p), NEW u \in Uploads0, p[u].at = "none",
           NEW m \in PMachines, NEW n \in PSizes, HasRoom(r, m, n),
           NEW q \in [Uploads0 -> PutRows], q[u].at = "reserved", q[u].machine = m, q[u].size = n,
           \A v \in Uploads0 \ {u} : q[v] = p[v],
           NEW r2 \in RelayRows, r2.data = r.data, r2.stored = r.stored,
           r2.uploading = Plus(r.uploading, {"hub", m}, 1), r2.reserved = Plus(r.reserved, {"hub", m}, n)
    PROVE  CountersHold(r2, q)
<1>1. n \in Nat /\ "hub" \in Scopes /\ PMachines \subseteq Scopes /\ "hub" \notin PMachines
  BY RelayAssumption DEF Scopes
<1>2. /\ Exact(r, p) /\ Within(r) /\ IsFiniteSet(BytesOf(p, Uploads0)) /\ p \in [Uploads0 -> PutRows]
      /\ \A s \in Scopes : r.stored[s] \in Nat /\ r.reserved[s] \in Nat /\ r.uploading[s] \in Nat
  BY DEF CountersHold, RelayRows
<1>3. IsFiniteSet(BytesOf(q, Uploads0))
  <2>1. IsFiniteSet(BytesOf(q, {u}))
    BY <1>1, TotalOne
  <2>2. BytesOf(q, Uploads0) \subseteq BytesOf(p, Uploads0) \cup BytesOf(q, {u})
    BY BytesAre
  <2>3. IsFiniteSet(BytesOf(p, Uploads0) \cup BytesOf(q, {u}))
    BY <1>2, <2>1, FS_Union
  <2> QED
    BY <2>2, <2>3, FS_Subset
<1>4. ASSUME NEW s \in Scopes
      PROVE  r2.reserved[s] = TotalOf(q, Busy(q, s)) /\ r2.uploading[s] = Cardinality(Busy(q, s))
  <2> DEFINE B == Busy(p, s)
  <2>1. /\ B \in SUBSET Uploads0 /\ u \notin B
        /\ Busy(q, s) = IF s \in {"hub", m} THEN B \cup {u} ELSE B
    BY DEF Busy, ScopesOf, AtWork
  <2>2. r.reserved[s] = TotalOf(p, B) /\ r.uploading[s] = Cardinality(B)
    BY <1>2 DEF Exact
  <2>3. \A v \in B : q[v].size = p[v].size
    BY <2>1
  <2> HIDE DEF B
  <2>4. IsFiniteSet(B)
    BY <2>1, FiniteUploads
  <2>5. CASE s \in {"hub", m}
    <3>1. TotalOf(q, B \cup {u}) = TotalOf(p, B) + n
      BY <1>1, <1>3, <2>1, <2>3, TotalAdded
    <3>2. Cardinality(B \cup {u}) = Cardinality(B) + 1
      BY <2>1, <2>4, FS_AddElement
    <3>3. r2.reserved[s] = r.reserved[s] + n /\ r2.uploading[s] = r.uploading[s] + 1
      BY <2>5 DEF Plus
    <3> QED
      BY <2>1, <2>2, <2>5, <3>1, <3>2, <3>3
  <2>6. CASE s \notin {"hub", m}
    <3>1. TotalOf(q, B) = TotalOf(p, B)
      BY <2>3, TotalSame
    <3>2. r2.reserved[s] = r.reserved[s] /\ r2.uploading[s] = r.uploading[s]
      BY <2>6 DEF Plus
    <3> QED
      BY <2>1, <2>2, <2>6, <3>1, <3>2
  <2> QED
    BY <2>5, <2>6
<1>5. /\ \A v \in r2.data : q[v].at = "stored"
      /\ \A s \in Scopes : r2.stored[s] = TotalOf(q, Stored(r2, q, s))
  <2>1. \A s \in Scopes : Stored(r2, q, s) = Stored(r, q, s)
    BY DEF Stored
  <2> QED
    BY <2>1, StoredSame
<1>6. Exact(r2, q)
  BY <1>4, <1>5 DEF Exact
<1>7. Within(r2)
  <2>1. Cardinality(r.data) \in Nat
    BY FiniteUploads DEF CountersHold, RelayRows
  <2>2. /\ r2.uploading["hub"] = r.uploading["hub"] + 1 /\ r2.reserved["hub"] = r.reserved["hub"] + n
        /\ \A k \in PMachines : r2.reserved[k] = IF k = m THEN r.reserved[k] + n ELSE r.reserved[k]
    BY <1>1 DEF Plus
  <2>3. Cardinality(r2.data) + r2.uploading["hub"] <= MaxEntries
    BY <1>1, <1>2, <2>1, <2>2, RelayAssumption DEF HasRoom
  <2>4. r2.stored["hub"] + r2.reserved["hub"] <= MaxHubBytes
    BY <1>1, <1>2, <2>2, RelayAssumption DEF HasRoom
  <2>5. ASSUME NEW k \in PMachines PROVE r2.stored[k] + r2.reserved[k] <= MaxMachBytes
    <3>1. r.stored[k] \in Nat /\ r.reserved[k] \in Nat /\ r.stored[k] + r.reserved[k] <= MaxMachBytes
      BY <1>1, <1>2 DEF Within
    <3>2. CASE k = m
      <4>1. r.stored[m] + r.reserved[m] + n <= MaxMachBytes
        BY DEF HasRoom
      <4>2. r.stored[m] \in Nat /\ r.reserved[m] \in Nat /\ r2.reserved[m] = r.reserved[m] + n
        BY <2>2, <3>1, <3>2
      <4>3. r2.stored[m] + r2.reserved[m] <= MaxMachBytes
        BY <1>1, <4>1, <4>2, RelayAssumption
      <4> QED
        BY <3>2, <4>3
    <3>3. CASE k # m
      BY <2>2, <3>1, <3>3
    <3> QED
      BY <3>2, <3>3
  <2> QED
    BY <2>3, <2>4, <2>5 DEF Within
<1> QED
  BY <1>3, <1>5, <1>6, <1>7 DEF CountersHold

\* An upload that is under way no more gives back what it had reserved.
LEMMA LeavesBusy ==
    ASSUME NEW r, NEW p, CountersHold(r, p), NEW u \in Uploads0, p[u].at \in AtWork,
           NEW q \in [Uploads0 -> PutRows], q[u].at \notin AtWork, q[u].size \in {0, p[u].size},
           \A v \in Uploads0 \ {u} : q[v] = p[v], NEW s \in Scopes
    PROVE  /\ Minus(r.reserved, ScopesOf(p, u), p[u].size)[s] = TotalOf(q, Busy(q, s))
           /\ Minus(r.uploading, ScopesOf(p, u), 1)[s] = Cardinality(Busy(q, s))
           /\ s \in ScopesOf(p, u) => /\ TotalOf(q, Busy(q, s)) + p[u].size = r.reserved[s]
                                /\ Cardinality(Busy(q, s)) + 1 = r.uploading[s]
           /\ s \notin ScopesOf(p, u) => /\ TotalOf(q, Busy(q, s)) = r.reserved[s]
                                   /\ Cardinality(Busy(q, s)) = r.uploading[s]
           /\ TotalOf(q, Busy(q, s)) \in Nat /\ Cardinality(Busy(q, s)) \in Nat
           /\ p[u].size \in Nat
<1> DEFINE B == Busy(p, s)
           C == Busy(q, s)
           n == p[u].size
<1>1. n \in Nat
  <2>1. p[u] \in PutRows
    BY DEF CountersHold
  <2>2. p[u].size \in PSizes \cup {0}
    BY <2>1 DEF PutRows
  <2>3. \A k \in PSizes \cup {0} : k \in Nat
    BY RelayAssumption
  <2> QED
    BY <2>2, <2>3
<1>2. /\ C \in SUBSET Uploads0 /\ u \notin C /\ B = IF s \in ScopesOf(p, u) THEN C \cup {u} ELSE C
      /\ \A v \in C : q[v] = p[v]
  BY DEF Busy, ScopesOf, AtWork
<1>3. r.reserved[s] = TotalOf(p, B) /\ r.uploading[s] = Cardinality(B) /\ IsFiniteSet(BytesOf(p, Uploads0))
  BY DEF CountersHold, Exact
<1> HIDE DEF B, C
<1>4. TotalOf(q, C) = TotalOf(p, C)
  BY <1>2, TotalSame
<1>5. IsFiniteSet(C) /\ Cardinality(C) \in Nat
  BY <1>2, FiniteUploads
<1>6. TotalOf(p, C) \in Nat
  <2>1. C \cap {} = {} /\ {} \in SUBSET Uploads0
    OBVIOUS
  <2> QED
    BY <1>2, <1>3, <2>1, TotalOfBoth
<1>7. CASE s \in ScopesOf(p, u)
  <2>1. B = C \cup {u}
    BY <1>2, <1>7
  <2>2. TotalOf(p, C \cup {u}) = TotalOf(p, C) + n
    BY <1>1, <1>2, <1>3, TotalAdded
  <2>3. Cardinality(C \cup {u}) = Cardinality(C) + 1
    BY <1>2, <1>5, FS_AddElement
  <2>4. /\ Minus(r.reserved, ScopesOf(p, u), n)[s] = IF r.reserved[s] > n THEN r.reserved[s] - n ELSE 0
        /\ Minus(r.uploading, ScopesOf(p, u), 1)[s] = IF r.uploading[s] > 1 THEN r.uploading[s] - 1 ELSE 0
    BY <1>7 DEF Minus
  <2>5. r.reserved[s] = TotalOf(q, C) + n /\ r.uploading[s] = Cardinality(C) + 1
    BY <1>3, <1>4, <2>1, <2>2, <2>3
  <2>6. /\ Minus(r.reserved, ScopesOf(p, u), n)[s] = TotalOf(q, C)
        /\ Minus(r.uploading, ScopesOf(p, u), 1)[s] = Cardinality(C)
    BY <1>1, <1>4, <1>5, <1>6, <2>4, <2>5
  <2> QED
    BY <1>1, <1>4, <1>5, <1>6, <1>7, <2>5, <2>6 DEF C
<1>8. CASE s \notin ScopesOf(p, u)
  <2>1. /\ Minus(r.reserved, ScopesOf(p, u), n)[s] = r.reserved[s]
        /\ Minus(r.uploading, ScopesOf(p, u), 1)[s] = r.uploading[s]
    BY <1>8 DEF Minus
  <2>2. r.reserved[s] = TotalOf(q, C) /\ r.uploading[s] = Cardinality(C)
    BY <1>2, <1>3, <1>4, <1>8
  <2> QED
    BY <1>1, <1>4, <1>5, <1>6, <1>8, <2>1, <2>2 DEF C
<1> QED
  BY <1>7, <1>8

\* Sizes that are forgotten leave the bytes finitely many.
LEMMA FewerBytes ==
    ASSUME NEW p, IsFiniteSet(BytesOf(p, Uploads0)), NEW q,
           \A v \in Uploads0 : q[v].size \in {0, p[v].size}
    PROVE  IsFiniteSet(BytesOf(q, Uploads0))
<1>1. \A v \in Uploads0 : \A b \in 1 .. q[v].size : b \in 1 .. p[v].size
  <2>1. ASSUME NEW v \in Uploads0, NEW b \in 1 .. q[v].size PROVE b \in 1 .. p[v].size
    <3>1. q[v].size # 0
      BY <2>1
    <3> QED
      BY <2>1, <3>1
  <2> QED
    BY <2>1
<1>2. BytesOf(q, Uploads0) \subseteq BytesOf(p, Uploads0)
  BY <1>1, BytesAre
<1> QED
  BY <1>2, FS_Subset

\* An upload fails.
LEMMA FailCounts ==
    ASSUME NEW r, NEW p, CountersHold(r, p), NEW u \in Uploads0, p[u].at \in AtWork,
           NEW q \in [Uploads0 -> PutRows], q[u].at = "gone", q[u].size = 0,
           \A v \in Uploads0 \ {u} : q[v] = p[v],
           NEW r2 \in RelayRows, r2.data = r.data, r2.stored = r.stored,
           r2.uploading = Minus(r.uploading, ScopesOf(p, u), 1),
           r2.reserved = Minus(r.reserved, ScopesOf(p, u), p[u].size)
    PROVE  CountersHold(r2, q)
<1>1. /\ Exact(r, p) /\ Within(r) /\ IsFiniteSet(BytesOf(p, Uploads0))
      /\ \A s \in Scopes : r.stored[s] \in Nat /\ r.reserved[s] \in Nat /\ r.uploading[s] \in Nat
      /\ "hub" \in Scopes /\ PMachines \subseteq Scopes /\ Cardinality(r.data) \in Nat
  BY FiniteUploads DEF CountersHold, RelayRows, Scopes
<1>2. IsFiniteSet(BytesOf(q, Uploads0))
  <2>1. \A v \in Uploads0 : q[v].size \in {0, p[v].size}
    OBVIOUS
  <2> QED
    BY <1>1, <2>1, FewerBytes
<1>3. q[u].at \notin AtWork /\ p[u].at # "stored"
  BY DEF AtWork
<1>4. ASSUME NEW s \in Scopes
      PROVE  /\ r2.reserved[s] = TotalOf(q, Busy(q, s)) /\ r2.uploading[s] = Cardinality(Busy(q, s))
             /\ r2.reserved[s] \in Nat /\ r2.uploading[s] \in Nat
             /\ r2.reserved[s] <= r.reserved[s] /\ r2.uploading[s] <= r.uploading[s]
  <2>1. /\ r2.reserved[s] = TotalOf(q, Busy(q, s)) /\ r2.uploading[s] = Cardinality(Busy(q, s))
    BY <1>3, LeavesBusy
  <2>2. /\ s \in ScopesOf(p, u) => /\ TotalOf(q, Busy(q, s)) + p[u].size = r.reserved[s]
                             /\ Cardinality(Busy(q, s)) + 1 = r.uploading[s]
        /\ s \notin ScopesOf(p, u) => /\ TotalOf(q, Busy(q, s)) = r.reserved[s]
                                /\ Cardinality(Busy(q, s)) = r.uploading[s]
        /\ TotalOf(q, Busy(q, s)) \in Nat /\ Cardinality(Busy(q, s)) \in Nat
        /\ p[u].size \in Nat
    BY <1>3, LeavesBusy
  <2> QED
    BY <2>1, <2>2
<1>5. /\ \A v \in r2.data : q[v].at = "stored"
      /\ \A s \in Scopes : r2.stored[s] = TotalOf(q, Stored(r2, q, s))
  <2>1. \A s \in Scopes : Stored(r2, q, s) = Stored(r, q, s)
    BY DEF Stored
  <2> QED
    BY <1>3, <2>1, StoredSame
<1>6. Exact(r2, q)
  BY <1>4, <1>5 DEF Exact
<1>7. Within(r2)
  BY <1>1, <1>4, RelayAssumption DEF Within
<1> QED
  BY <1>2, <1>5, <1>6, <1>7 DEF CountersHold

\* An upload is stored: what was reserved for it is used.
LEMMA CommitCounts ==
    ASSUME NEW r, NEW p, CountersHold(r, p), NEW u \in Uploads0, p[u].at \in AtWork,
           NEW q \in [Uploads0 -> PutRows], q[u].at = "stored", q[u].size = p[u].size,
           q[u].machine = p[u].machine, \A v \in Uploads0 \ {u} : q[v] = p[v],
           NEW r2 \in RelayRows, r2.data = r.data \cup {u},
           r2.stored = Plus(r.stored, ScopesOf(p, u), p[u].size),
           r2.uploading = Minus(r.uploading, ScopesOf(p, u), 1),
           r2.reserved = Minus(r.reserved, ScopesOf(p, u), p[u].size)
    PROVE  CountersHold(r2, q)
<1>1. /\ Exact(r, p) /\ Within(r) /\ IsFiniteSet(BytesOf(p, Uploads0)) /\ r.data \in SUBSET Uploads0
      /\ \A s \in Scopes : r.stored[s] \in Nat /\ r.reserved[s] \in Nat /\ r.uploading[s] \in Nat
      /\ "hub" \in Scopes /\ PMachines \subseteq Scopes
  BY DEF CountersHold, RelayRows, Scopes
<1>2. IsFiniteSet(BytesOf(q, Uploads0))
  <2>1. \A v \in Uploads0 : q[v].size \in {0, p[v].size}
    OBVIOUS
  <2> QED
    BY <1>1, <2>1, FewerBytes
<1>3. q[u].at \notin AtWork /\ p[u].at # "stored"
  BY DEF AtWork
<1>4. ASSUME NEW s \in Scopes
      PROVE  /\ r2.reserved[s] = TotalOf(q, Busy(q, s)) /\ r2.uploading[s] = Cardinality(Busy(q, s))
             /\ r2.reserved[s] \in Nat /\ r2.uploading[s] \in Nat /\ p[u].size \in Nat
             /\ r2.stored[s] = IF s \in ScopesOf(p, u) THEN r.stored[s] + p[u].size ELSE r.stored[s]
             /\ r.reserved[s] = IF s \in ScopesOf(p, u) THEN r2.reserved[s] + p[u].size ELSE r2.reserved[s]
             /\ r.uploading[s] = IF s \in ScopesOf(p, u) THEN r2.uploading[s] + 1 ELSE r2.uploading[s]
  <2>1. /\ r2.reserved[s] = TotalOf(q, Busy(q, s)) /\ r2.uploading[s] = Cardinality(Busy(q, s))
    BY <1>3, LeavesBusy
  <2>2. /\ s \in ScopesOf(p, u) => /\ TotalOf(q, Busy(q, s)) + p[u].size = r.reserved[s]
                             /\ Cardinality(Busy(q, s)) + 1 = r.uploading[s]
        /\ s \notin ScopesOf(p, u) => /\ TotalOf(q, Busy(q, s)) = r.reserved[s]
                                /\ Cardinality(Busy(q, s)) = r.uploading[s]
        /\ TotalOf(q, Busy(q, s)) \in Nat /\ Cardinality(Busy(q, s)) \in Nat
        /\ p[u].size \in Nat
    BY <1>3, LeavesBusy
  <2>3. r2.stored[s] = IF s \in ScopesOf(p, u) THEN r.stored[s] + p[u].size ELSE r.stored[s]
    BY DEF Plus
  <2> QED
    BY <2>1, <2>2, <2>3
<1>5. u \notin r.data /\ \A v \in r2.data : q[v].at = "stored"
  BY <1>3, StoredSame
<1>6. ASSUME NEW s \in Scopes PROVE r2.stored[s] = TotalOf(q, Stored(r2, q, s))
  <2> DEFINE S == Stored(r, p, s)
  <2>1. S \in SUBSET Uploads0 /\ u \notin S /\ TotalOf(q, S) = r.stored[s] /\ Stored(r, q, s) = S
    BY <1>3, StoredSame
  <2>2. Stored(r2, q, s) = IF s \in ScopesOf(p, u) THEN S \cup {u} ELSE S
    <3>1. Stored(r2, q, s) = IF s \in ScopesOf(q, u) THEN Stored(r, q, s) \cup {u} ELSE Stored(r, q, s)
      BY DEF Stored
    <3> QED
      BY <2>1, <3>1 DEF ScopesOf
  <2> HIDE DEF S
  <2>3. TotalOf(q, S \cup {u}) = TotalOf(q, S) + q[u].size
    <3>1. q[u].size \in Nat
      BY <1>4
    <3> QED
      BY <1>2, <2>1, <3>1, TotalAdded
  <2> QED
    BY <1>4, <2>1, <2>2, <2>3
<1>7. Exact(r2, q)
  BY <1>4, <1>6 DEF Exact
<1>8. Within(r2)
  <2>1. IsFiniteSet(r.data) /\ Cardinality(r.data) \in Nat
    BY <1>1, FiniteUploads
  <2>2. Cardinality(r2.data) = Cardinality(r.data) + 1
    BY <1>5, <2>1, FS_AddElement
  <2>3. r.uploading["hub"] = r2.uploading["hub"] + 1
    BY <1>1, <1>4 DEF ScopesOf
  <2>4. \A s \in Scopes : r2.stored[s] + r2.reserved[s] = r.stored[s] + r.reserved[s]
    BY <1>1, <1>4
  <2>5. \A s \in Scopes : r2.uploading[s] \in Nat
    BY <1>4
  <2> QED
    BY <1>1, <2>1, <2>2, <2>3, <2>4, <2>5, RelayAssumption DEF Within
<1> QED
  BY <1>2, <1>5, <1>7, <1>8 DEF CountersHold

\* A row whose stored records change.
LEMMA RowStored ==
    ASSUME NEW r \in RelayRows, NEW d \in SUBSET Uploads0, NEW a \in [Scopes -> Nat],
           NEW r2, r2 = [r EXCEPT !.data = d, !.stored = a]
    PROVE  r2 \in RelayRows
BY DEF RelayRows

\* A row whose reservations change.
Reserving(r, a, b) == [r EXCEPT !.uploading = a, !.reserved = b]
LEMMA RowReserved ==
    ASSUME NEW r \in RelayRows, NEW a \in [Scopes -> Nat], NEW b \in [Scopes -> Nat],
           NEW r2, r2 = Reserving(r, a, b)
    PROVE  /\ r2 \in RelayRows /\ r2.ready = r.ready /\ r2.data = r.data /\ r2.stored = r.stored
           /\ r2.uploading = a /\ r2.reserved = b
BY DEF RelayRows, Reserving

\* RemoveRecord.
LEMMA RemoveRow ==
    ASSUME CountersHold(relay, puts), NEW gone \in SUBSET relay.data
    PROVE  LET r == RemoveRecord(relay, gone) IN
           /\ CountersHold(r, puts) /\ r.ready = relay.ready /\ r.reserved = relay.reserved
           /\ r.uploading = relay.uploading /\ r.data = relay.data \ gone
<1> DEFINE r == RemoveRecord(relay, gone)
           G(s) == {u \in gone : s \in ScopesOf(puts, u)}
<1>1. relay \in RelayRows /\ Exact(relay, puts) /\ IsFiniteSet(BytesOf(puts, Uploads0))
  BY DEF CountersHold
<1>2. \A s \in Scopes : Total({u \in gone : s \in In(u)}) = TotalOf(puts, G(s))
  BY DEF Total, TotalOf, Bytes, BytesOf, In, ScopesOf
<1>3. /\ r.ready = relay.ready /\ r.reserved = relay.reserved /\ r.uploading = relay.uploading
      /\ r.data = relay.data \ gone /\ DOMAIN r = {"ready", "data", "stored", "reserved", "uploading"}
      /\ r.stored = [s \in Scopes |-> relay.stored[s] - TotalOf(puts, G(s))]
  BY <1>1, <1>2 DEF RemoveRecord, RelayRows
<1>4. ASSUME NEW s \in Scopes PROVE relay.stored[s] - TotalOf(puts, G(s)) \in Nat
  <2>1. G(s) \in SUBSET Stored(relay, puts, s) /\ Stored(relay, puts, s) \in SUBSET Uploads0
    BY <1>1 DEF Stored, RelayRows
  <2>2. relay.stored[s] = TotalOf(puts, Stored(relay, puts, s))
    BY <1>1 DEF Exact
  <2> HIDE DEF G
  <2>3. TotalOf(puts, G(s)) <= TotalOf(puts, Stored(relay, puts, s))
    BY <1>1, <2>1, TotalOfSome
  <2>4. TotalOf(puts, G(s)) \in Nat /\ TotalOf(puts, Stored(relay, puts, s)) \in Nat
    BY <1>1, <2>1, TotalOfSome
  <2> QED
    BY <2>2, <2>3, <2>4
<1> HIDE DEF r
<1>5. r.stored \in [Scopes -> Nat]
  BY <1>3, <1>4
<1>6. r \in RelayRows
  <2>1. r = [relay EXCEPT !.data = r.data, !.stored = r.stored]
    BY <1>1, <1>3 DEF r, RemoveRecord, RelayRows
  <2>2. r.data \in SUBSET Uploads0
    BY <1>1, <1>3 DEF RelayRows
  <2> QED
    BY <1>1, <1>5, <2>1, <2>2, RowStored
<1>7. \A s \in Scopes : r.stored[s] = relay.stored[s] - TotalOf(puts, {u \in gone : s \in ScopesOf(puts, u)})
  BY <1>3
<1>8. CountersHold(r, puts)
  BY <1>3, <1>6, <1>7, RemoveCounts
<1> QED
  BY <1>3, <1>8 DEF r

\* deleteRecordFileLocked of records that are there.
LEMMA DeleteRecordKeeps ==
    ASSUME RelayInv, NEW ids \in SUBSET relay.data, NEW r, NEW f, DeleteRecordFile(relay, ids, r, f)
    PROVE  /\ CountersHold(r, puts) /\ FilesKnown(r, puts, f)
           /\ r.ready = relay.ready /\ r.reserved = relay.reserved /\ r.uploading = relay.uploading
           /\ \A u \in Uploads0 \ relay.data : f[u] = relayFile[u]
           /\ r.data \subseteq relay.data
<1>1. PICK kept \in SUBSET ids :
          /\ r = RemoveRecord(relay, ids \ kept)
          /\ f = [u \in Uploads0 |-> IF u \in ids \ kept THEN "none" ELSE relayFile[u]]
  BY DEF DeleteRecordFile
<1>2. ids \ kept \in SUBSET relay.data
  OBVIOUS
<1>3. /\ CountersHold(r, puts) /\ r.ready = relay.ready /\ r.reserved = relay.reserved
      /\ r.uploading = relay.uploading /\ r.data = relay.data \ (ids \ kept)
  BY <1>1, <1>2, RemoveRow DEF RelayInv
<1>4. FilesKnown(r, puts, f)
  BY <1>1, <1>3 DEF RelayInv, FilesKnown
<1> QED
  BY <1>1, <1>2, <1>3, <1>4

\* The records that have expired.
LEMMA ExpiredAreRecords ==
    ASSUME NEW now
    PROVE  Expired(relay, now) \in SUBSET relay.data
BY DEF Expired

\* Counters stay natural numbers.
LEMMA CounterTypes ==
    ASSUME NEW f \in [Scopes -> Nat], NEW S, NEW n \in Nat
    PROVE  Plus(f, S, n) \in [Scopes -> Nat] /\ Minus(f, S, n) \in [Scopes -> Nat]
<1>1. \A s \in Scopes : f[s] + n \in Nat /\ (f[s] > n => f[s] - n \in Nat) /\ f[s] \in Nat
  OBVIOUS
<1> QED
  BY <1>1 DEF Plus, Minus

\* A new upload.
LEMMA ReserveRelay ==
    ASSUME RelayInv, NEW u \in Uploads0, NEW m \in PMachines, NEW n \in PSizes, NEW ttl \in {1, 2},
           ReservePut(u, m, n, ttl)
    PROVE  RelayInv'
<1>1. PICK r : /\ CleanupExpired(relay, relayClock, r, relayFile')
               /\ IF HasRoom(r, m, n)
                  THEN /\ puts' = [puts EXCEPT ![u] = [at |-> "reserved", machine |-> m, size |-> n,
                                                      now |-> relayClock, ends |-> relayClock + ttl]]
                       /\ relay' = [r EXCEPT !.uploading = Plus(@, {"hub", m}, 1),
                                             !.reserved = Plus(@, {"hub", m}, n)]
                  ELSE relay' = r /\ UNCHANGED puts
  BY DEF ReservePut
<1>2. PICK f : f = relayFile'
  OBVIOUS
<1>3. /\ CountersHold(r, puts) /\ FilesKnown(r, puts, f)
      /\ r.reserved = relay.reserved /\ r.uploading = relay.uploading /\ r.ready = relay.ready
      /\ r.data \subseteq relay.data
  BY <1>1, <1>2, ExpiredAreRecords, DeleteRecordKeeps DEF CleanupExpired
<1>4. relayClock' = relayClock /\ relayClock \in 0 .. MaxRelayClock /\ puts[u].at = "none" /\ relay.ready
  BY DEF ReservePut, RelayInv
<1>5. CASE ~HasRoom(r, m, n)
  BY <1>1, <1>2, <1>3, <1>4, <1>5 DEF RelayInv
<1>6. CASE HasRoom(r, m, n)
  <2> DEFINE row == [at |-> "reserved", machine |-> m, size |-> n, now |-> relayClock, ends |-> relayClock + ttl]
             q == [puts EXCEPT ![u] = row]
             r2 == [r EXCEPT !.uploading = Plus(@, {"hub", m}, 1), !.reserved = Plus(@, {"hub", m}, n)]
  <2>1. row \in PutRows /\ row.at = "reserved" /\ row.machine = m /\ row.size = n
    <3>1. relayClock + ttl \in 0 .. MaxRelayClock + 2 /\ m \in Scopes /\ "reserved" \in PutSteps
      BY <1>4, RelayAssumption DEF Scopes, PutSteps
    <3> QED
      BY <1>4, <3>1 DEF PutRows
  <2>2. puts \in [Uploads0 -> PutRows] /\ r \in RelayRows /\ n \in Nat
    BY <1>3, RelayAssumption DEF CountersHold, RelayInv
  <2> HIDE DEF row
  <2>3. /\ q \in [Uploads0 -> PutRows] /\ q[u].at = "reserved" /\ q[u].machine = m /\ q[u].size = n
        /\ \A v \in Uploads0 \ {u} : q[v] = puts[v]
    BY <2>1, <2>2
  <2> HIDE DEF q
  <2>4. /\ r.uploading \in [Scopes -> Nat] /\ r.reserved \in [Scopes -> Nat]
        /\ Plus(r.uploading, {"hub", m}, 1) \in [Scopes -> Nat]
        /\ Plus(r.reserved, {"hub", m}, n) \in [Scopes -> Nat]
    <3>1. r.uploading \in [Scopes -> Nat] /\ r.reserved \in [Scopes -> Nat]
      BY <2>2 DEF RelayRows
    <3> QED
      BY <2>2, <3>1, CounterTypes
  <2>5. /\ r2 \in RelayRows /\ r2.ready = r.ready /\ r2.data = r.data /\ r2.stored = r.stored
        /\ r2.uploading = Plus(r.uploading, {"hub", m}, 1) /\ r2.reserved = Plus(r.reserved, {"hub", m}, n)
    <3> DEFINE A == Plus(r.uploading, {"hub", m}, 1)
               B == Plus(r.reserved, {"hub", m}, n)
    <3>1. r2 = Reserving(r, A, B)
      BY DEF Reserving
    <3>2. A \in [Scopes -> Nat] /\ B \in [Scopes -> Nat]
      BY <2>4
    <3> HIDE DEF A, B, r2
    <3>3. /\ r2 \in RelayRows /\ r2.ready = r.ready /\ r2.data = r.data /\ r2.stored = r.stored
          /\ r2.uploading = A /\ r2.reserved = B
      BY <2>2, <3>1, <3>2, RowReserved
    <3> QED
      BY <3>3 DEF A, B
  <2> HIDE DEF r2
  <2>6. CountersHold(r2, q)
    BY <1>3, <1>4, <1>6, <2>3, <2>5, ReserveCounts
  <2>7. FilesKnown(r2, q, f)
    BY <1>3, <1>4, <2>3, <2>5 DEF FilesKnown, AtWork
  <2>8. relay' = r2 /\ puts' = q
    BY <1>1, <1>6 DEF r2, q, row
  <2> QED
    BY <1>2, <1>4, <2>6, <2>7, <2>8 DEF RelayInv
<1> QED
  BY <1>5, <1>6

\* A row of an upload with another state.
LEMMA PutRow ==
    ASSUME NEW p \in [Uploads0 -> PutRows], NEW u \in Uploads0, NEW at \in PutSteps,
           NEW q, q = [p EXCEPT ![u].at = at]
    PROVE  /\ q \in [Uploads0 -> PutRows] /\ q[u].at = at /\ q[u].machine = p[u].machine
           /\ q[u].size = p[u].size /\ \A v \in Uploads0 \ {u} : q[v] = p[v]
<1> DEFINE row == [p[u] EXCEPT !.at = at]
<1>1. p[u] \in PutRows
  OBVIOUS
<1>2. row \in PutRows /\ row.at = at /\ row.machine = p[u].machine /\ row.size = p[u].size
  BY <1>1 DEF PutRows
<1>3. q = [p EXCEPT ![u] = row]
  OBVIOUS
<1> HIDE DEF row
<1>4. q \in [Uploads0 -> PutRows] /\ q[u] = row /\ \A v \in Uploads0 \ {u} : q[v] = p[v]
  BY <1>2, <1>3
<1> QED
  BY <1>2, <1>4

\* An upload goes on.
LEMMA PutGoing ==
    ASSUME RelayInv, NEW u \in Uploads0, puts[u].at \in AtWork, NEW at \in AtWork, PutGoes(u, at),
           UNCHANGED relay
    PROVE  /\ CountersHold(relay, puts)' /\ puts'[u].at = at
           /\ \A v \in Uploads0 \ {u} : puts'[v] = puts[v]
<1>1. PICK q : q = puts'
  OBVIOUS
<1>2. puts \in [Uploads0 -> PutRows] /\ CountersHold(relay, puts) /\ at \in PutSteps
  BY DEF RelayInv, CountersHold, AtWork, PutSteps
<1>3. q = [puts EXCEPT ![u].at = at]
  BY <1>1 DEF PutGoes
<1>4. /\ q \in [Uploads0 -> PutRows] /\ q[u].at = at /\ q[u].machine = puts[u].machine
      /\ q[u].size = puts[u].size /\ \A v \in Uploads0 \ {u} : q[v] = puts[v]
  BY <1>2, <1>3, PutRow
<1>5. CountersHold(relay, q)
  BY <1>2, <1>4, GoesCounts
<1> QED
  BY <1>1, <1>4, <1>5

\* ReleaseReservation.
LEMMA ReleaseRow ==
    ASSUME NEW r \in RelayRows, puts \in [Uploads0 -> PutRows], NEW u \in Uploads0
    PROVE  LET r2 == ReleaseReservation(r, u) IN
           /\ r2 \in RelayRows /\ r2.ready = r.ready /\ r2.data = r.data /\ r2.stored = r.stored
           /\ r2.uploading = Minus(r.uploading, ScopesOf(puts, u), 1)
           /\ r2.reserved = Minus(r.reserved, ScopesOf(puts, u), puts[u].size)
<1> DEFINE A == Minus(r.uploading, ScopesOf(puts, u), 1)
           B == Minus(r.reserved, ScopesOf(puts, u), puts[u].size)
           r2 == ReleaseReservation(r, u)
<1>1. r2 = Reserving(r, A, B)
  BY DEF ReleaseReservation, Reserving, In, ScopesOf
<1>2. puts[u].size \in Nat /\ 1 \in Nat
  <2>1. puts[u].size \in PSizes \cup {0}
    BY DEF PutRows
  <2>2. \A k \in PSizes \cup {0} : k \in Nat
    BY RelayAssumption
  <2> QED
    BY <2>1, <2>2
<1>3. r.uploading \in [Scopes -> Nat] /\ r.reserved \in [Scopes -> Nat]
  BY DEF RelayRows
<1>4. A \in [Scopes -> Nat] /\ B \in [Scopes -> Nat]
  BY <1>2, <1>3, CounterTypes
<1> HIDE DEF A, B, r2
<1>5. /\ r2 \in RelayRows /\ r2.ready = r.ready /\ r2.data = r.data /\ r2.stored = r.stored
      /\ r2.uploading = A /\ r2.reserved = B
  BY <1>1, <1>4, RowReserved
<1> QED
  BY <1>5 DEF A, B, r2

\* An upload fails.
LEMMA PutFailing ==
    ASSUME RelayInv, NEW u \in Uploads0, puts[u].at \in AtWork, PutFails(u)
    PROVE  /\ CountersHold(relay, puts)' /\ puts'[u].at = "gone" /\ relay'.data = relay.data
           /\ relay'.ready = relay.ready /\ \A v \in Uploads0 \ {u} : puts'[v] = puts[v]
<1>1. PICK q : q = puts'
  OBVIOUS
<1>2. PICK r2 : r2 = relay'
  OBVIOUS
<1>3. puts \in [Uploads0 -> PutRows] /\ CountersHold(relay, puts) /\ relay \in RelayRows
  BY DEF RelayInv, CountersHold
<1> DEFINE row == [NoPut EXCEPT !.at = "gone"]
<1>4. row \in PutRows /\ row.at = "gone" /\ row.size = 0
  BY RelayAssumption DEF PutRows, NoPut, PutSteps, Scopes
<1>5. q = [puts EXCEPT ![u] = row]
  BY <1>1 DEF PutFails
<1> HIDE DEF row
<1>6. /\ q \in [Uploads0 -> PutRows] /\ q[u].at = "gone" /\ q[u].size = 0
      /\ \A v \in Uploads0 \ {u} : q[v] = puts[v]
  BY <1>3, <1>4, <1>5
<1>7. /\ r2 \in RelayRows /\ r2.ready = relay.ready /\ r2.data = relay.data /\ r2.stored = relay.stored
      /\ r2.uploading = Minus(relay.uploading, ScopesOf(puts, u), 1)
      /\ r2.reserved = Minus(relay.reserved, ScopesOf(puts, u), puts[u].size)
  BY <1>2, <1>3, ReleaseRow DEF PutFails
<1>8. CountersHold(r2, q)
  BY <1>3, <1>6, <1>7, FailCounts
<1> QED
  BY <1>1, <1>2, <1>6, <1>7, <1>8

\* The file of an upload that goes on, or fails.
LEMMA FilesGo ==
    ASSUME NEW r, NEW p, NEW f, FilesKnown(r, p, f), NEW u \in Uploads0, p[u].at \in AtWork,
           NEW r2, r2.data = r.data, r2.ready = r.ready, NEW q, NEW g \in [Uploads0 -> {"none", "tmp", "bin"}],
           \A v \in Uploads0 \ {u} : q[v] = p[v] /\ g[v] = f[v],
           g[u] # "none" => /\ q[u].at \in AtWork \ {"reserved"}
                            /\ q[u].at \in {"writing", "verified"} => g[u] = "tmp"
    PROVE  FilesKnown(r2, q, g)
<1>1. ASSUME NEW v \in Uploads0, g[v] # "none"
      PROVE  /\ q[v].at \notin {"none", "reserved"}
             /\ q[v].at \in {"writing", "verified"} => g[v] = "tmp"
             /\ r2.ready => v \in r2.data \/ q[v].at \in AtWork
  <2>1. CASE v = u
    BY <1>1, <2>1 DEF AtWork
  <2>2. CASE v # u
    BY <1>1, <2>2 DEF FilesKnown
  <2> QED
    BY <2>1, <2>2
<1> QED
  BY <1>1 DEF FilesKnown

\* openTemp, the body and the rename of an upload.
LEMMA UploadRelay ==
    ASSUME RelayInv, NEW u \in Uploads0, OpenPut(u) \/ ReceiveBody(u) \/ RenamePut(u)
    PROVE  RelayInv'
<1>1. PICK g : g = relayFile'
  OBVIOUS
<1>2. PICK q : q = puts'
  OBVIOUS
<1>3. PICK r2 : r2 = relay'
  OBVIOUS
<1>4. /\ relayFile \in [Uploads0 -> {"none", "tmp", "bin"}] /\ FilesKnown(relay, puts, relayFile)
      /\ puts[u].at \in AtWork /\ relayClock' = relayClock /\ relayClock \in 0 .. MaxRelayClock
  BY DEF RelayInv, FilesKnown, AtWork, OpenPut, ReceiveBody, RenamePut
<1>5. /\ g \in [Uploads0 -> {"none", "tmp", "bin"}]
      /\ \A v \in Uploads0 \ {u} : g[v] = relayFile[v]
  BY <1>1, <1>4 DEF OpenPut, ReceiveBody, RenamePut
<1>6. \/ /\ PutFails(u) /\ g[u] = "none"
      \/ \E at \in AtWork \ {"reserved"} :
            PutGoes(u, at) /\ UNCHANGED relay /\ (at \in {"writing", "verified"} => g[u] \in {"none", "tmp"})
  <2>1. /\ puts[u].at = "reserved" => relayFile[u] = "none"
        /\ puts[u].at \in {"writing", "verified"} => relayFile[u] \in {"none", "tmp"}
    BY <1>4 DEF FilesKnown
  <2>2. CASE OpenPut(u)
    BY <1>1, <1>4, <2>1, <2>2 DEF OpenPut, AtWork
  <2>3. CASE ReceiveBody(u)
    BY <1>1, <1>4, <2>1, <2>3 DEF ReceiveBody, AtWork
  <2>4. CASE RenamePut(u)
    BY <1>1, <1>4, <2>1, <2>4 DEF RenamePut, AtWork
  <2> QED
    BY <2>2, <2>3, <2>4
<1>7. CASE PutFails(u) /\ g[u] = "none"
  <2>1. /\ CountersHold(r2, q) /\ q[u].at = "gone" /\ r2.data = relay.data /\ r2.ready = relay.ready
        /\ \A v \in Uploads0 \ {u} : q[v] = puts[v]
    BY <1>2, <1>3, <1>4, <1>7, PutFailing
  <2>2. FilesKnown(r2, q, g)
    BY <1>4, <1>5, <1>7, <2>1, FilesGo
  <2> QED
    BY <1>1, <1>2, <1>3, <1>4, <2>1, <2>2 DEF RelayInv
<1>8. ASSUME NEW at \in AtWork \ {"reserved"}, PutGoes(u, at), UNCHANGED relay,
             at \in {"writing", "verified"} => g[u] \in {"none", "tmp"}
      PROVE  RelayInv'
  <2>1. /\ CountersHold(r2, q) /\ q[u].at = at /\ \A v \in Uploads0 \ {u} : q[v] = puts[v]
    BY <1>2, <1>3, <1>4, <1>8, PutGoing
  <2>2. FilesKnown(r2, q, g)
    BY <1>3, <1>4, <1>5, <1>8, <2>1, FilesGo
  <2> QED
    BY <1>1, <1>2, <1>3, <1>4, <2>1, <2>2 DEF RelayInv
<1> QED
  BY <1>6, <1>7, <1>8

\* Rows whose records or readiness change.
Storing(r, d, a) == [r EXCEPT !.data = d, !.stored = a]
Readied(r, v) == [r EXCEPT !.ready = v]
LEMMA RowStoring ==
    ASSUME NEW r \in RelayRows, NEW d \in SUBSET Uploads0, NEW a \in [Scopes -> Nat]
    PROVE  /\ Storing(r, d, a) \in RelayRows /\ Storing(r, d, a).data = d /\ Storing(r, d, a).stored = a
           /\ Storing(r, d, a).ready = r.ready /\ Storing(r, d, a).reserved = r.reserved
           /\ Storing(r, d, a).uploading = r.uploading
BY DEF RelayRows, Storing

\* The same for readiness.
LEMMA RowReadying ==
    ASSUME NEW r \in RelayRows, NEW v \in BOOLEAN
    PROVE  /\ Readied(r, v) \in RelayRows /\ Readied(r, v).data = r.data /\ Readied(r, v).stored = r.stored
           /\ Readied(r, v).ready = v /\ Readied(r, v).reserved = r.reserved
           /\ Readied(r, v).uploading = r.uploading
BY DEF RelayRows, Readied

\* The store is emptied.
LEMMA ResetRow ==
    ASSUME RelayInv, NEW v \in BOOLEAN
    PROVE  /\ CountersHold([ResetStored(relay) EXCEPT !.ready = v], puts)
           /\ [ResetStored(relay) EXCEPT !.ready = v].data = {}
<1> DEFINE r1 == Storing(relay, {}, Zero)
           r2 == Readied(r1, v)
<1>1. relay \in RelayRows /\ CountersHold(relay, puts) /\ {} \in SUBSET Uploads0 /\ Zero \in [Scopes -> Nat]
      /\ \A s \in Scopes : Zero[s] = 0
  BY DEF RelayInv, CountersHold, Zero
<1>2. /\ r1 \in RelayRows /\ r1.data = {} /\ r1.stored = Zero /\ r1.reserved = relay.reserved
      /\ r1.uploading = relay.uploading
  BY <1>1, RowStoring
<1> HIDE DEF r1
<1>3. /\ r2 \in RelayRows /\ r2.data = {} /\ r2.stored = Zero /\ r2.reserved = relay.reserved
      /\ r2.uploading = relay.uploading
  BY <1>2, RowReadying
<1> HIDE DEF r2
<1>4. CountersHold(r2, puts)
  BY <1>1, <1>3, ResetCounts
<1>5. r2 = [ResetStored(relay) EXCEPT !.ready = v]
  BY DEF r1, r2, Storing, Readied, ResetStored
<1> QED
  BY <1>3, <1>4, <1>5

\* The store is not ready any more.
LEMMA UnreadyRow ==
    ASSUME RelayInv
    PROVE  CountersHold([relay EXCEPT !.ready = FALSE], puts) /\ [relay EXCEPT !.ready = FALSE].ready = FALSE
<1> DEFINE r2 == Readied(relay, FALSE)
<1>1. relay \in RelayRows /\ CountersHold(relay, puts) /\ {} \in SUBSET Uploads0 /\ Zero \in [Scopes -> Nat]
  BY DEF RelayInv, CountersHold, Zero
<1>2. /\ r2 \in RelayRows /\ r2.data = relay.data /\ r2.stored = relay.stored /\ r2.ready = FALSE
      /\ r2.reserved = relay.reserved /\ r2.uploading = relay.uploading
  BY <1>1, RowReadying
<1> HIDE DEF r2
<1>3. CountersHold(r2, puts)
  BY <1>1, <1>2, ReadyCounts
<1>4. r2 = [relay EXCEPT !.ready = FALSE]
  BY DEF r2, Readied
<1> QED
  BY <1>2, <1>3, <1>4

\* The upload is stored.
LEMMA CommitRelay ==
    ASSUME RelayInv, NEW u \in Uploads0, CommitReservation(u)
    PROVE  RelayInv'
<1>1. PICK r : /\ CleanupExpired(relay, puts[u].now, r, relayFile')
               /\ relay' = [ReleaseReservation(r, u) EXCEPT !.data = @ \cup {u},
                                                           !.stored = Plus(@, In(u), puts[u].size)]
  BY DEF CommitReservation
<1>2. PICK g : g = relayFile'
  OBVIOUS
<1>3. PICK q : q = puts'
  OBVIOUS
<1>4. PICK r2 : r2 = relay'
  OBVIOUS
<1>5. /\ CountersHold(r, puts) /\ FilesKnown(r, puts, g) /\ r.ready = relay.ready
  BY <1>1, <1>2, ExpiredAreRecords, DeleteRecordKeeps DEF CleanupExpired
<1>6. /\ r \in RelayRows /\ puts \in [Uploads0 -> PutRows] /\ puts[u].at \in AtWork
      /\ relayClock' = relayClock /\ relayClock \in 0 .. MaxRelayClock /\ "stored" \in PutSteps
      /\ "stored" \notin AtWork
  BY <1>5 DEF CountersHold, RelayInv, CommitReservation, AtWork, PutSteps
<1> DEFINE r1 == ReleaseReservation(r, u)
           a == Plus(r.stored, ScopesOf(puts, u), puts[u].size)
           d == r.data \cup {u}
<1>7. /\ r1 \in RelayRows /\ r1.ready = r.ready /\ r1.data = r.data /\ r1.stored = r.stored
      /\ r1.uploading = Minus(r.uploading, ScopesOf(puts, u), 1)
      /\ r1.reserved = Minus(r.reserved, ScopesOf(puts, u), puts[u].size)
  BY <1>6, ReleaseRow
<1> HIDE DEF r1
<1>8. d \in SUBSET Uploads0 /\ a \in [Scopes -> Nat]
  <2>1. r.data \in SUBSET Uploads0 /\ r.stored \in [Scopes -> Nat]
    BY <1>6 DEF RelayRows
  <2>2. puts[u].size \in PSizes \cup {0}
    BY <1>6 DEF PutRows
  <2>3. \A k \in PSizes \cup {0} : k \in Nat
    BY RelayAssumption
  <2>4. puts[u].size \in Nat
    BY <2>2, <2>3
  <2> QED
    BY <2>1, <2>4, CounterTypes
<1>9. r2 = Storing(r1, d, a)
  BY <1>1, <1>4, <1>7 DEF Storing, r1, In, ScopesOf
<1> HIDE DEF a, d
<1>10. /\ r2 \in RelayRows /\ r2.data = d /\ r2.stored = a /\ r2.ready = r.ready
       /\ r2.uploading = Minus(r.uploading, ScopesOf(puts, u), 1)
       /\ r2.reserved = Minus(r.reserved, ScopesOf(puts, u), puts[u].size)
  BY <1>7, <1>8, <1>9, RowStoring
<1>11. q = [puts EXCEPT ![u].at = "stored"]
  BY <1>3 DEF CommitReservation, PutGoes
<1>12. /\ q \in [Uploads0 -> PutRows] /\ q[u].at = "stored" /\ q[u].machine = puts[u].machine
       /\ q[u].size = puts[u].size /\ \A v \in Uploads0 \ {u} : q[v] = puts[v]
  BY <1>6, <1>11, PutRow
<1>13. CountersHold(r2, q)
  <2>1. r2.data = r.data \cup {u} /\ r2.stored = Plus(r.stored, ScopesOf(puts, u), puts[u].size)
    BY <1>10 DEF a, d
  <2> QED
    BY <1>5, <1>6, <1>10, <1>12, <2>1, CommitCounts
<1>14. FilesKnown(r2, q, g)
  <2>1. r.data \subseteq r2.data /\ u \in r2.data
    BY <1>10 DEF d
  <2>2. ASSUME NEW v \in Uploads0, g[v] # "none"
        PROVE  /\ q[v].at \notin {"none", "reserved"}
               /\ q[v].at \in {"writing", "verified"} => g[v] = "tmp"
               /\ r2.ready => v \in r2.data \/ q[v].at \in AtWork
    <3>1. CASE v = u
      BY <1>12, <2>1, <3>1
    <3>2. CASE v # u
      BY <1>5, <1>10, <1>12, <2>1, <2>2, <3>2 DEF FilesKnown
    <3> QED
      BY <3>1, <3>2
  <2> QED
    BY <1>5, <2>2 DEF FilesKnown
<1> QED
  BY <1>2, <1>3, <1>4, <1>6, <1>13, <1>14 DEF RelayInv

\* Records that are dropped, and files that disappear.
LEMMA ReadRelay ==
    ASSUME RelayInv, NEW u \in Uploads0, GetPresentation(u) \/ FileLost(u)
    PROVE  RelayInv'
<1>1. CASE GetPresentation(u)
  <2> DEFINE E == Expired(relay, relayClock)
             X == IF relayFile[u] = "bin" THEN {} ELSE {u} \cap relay.data
  <2>0. E \in SUBSET relay.data /\ X \in SUBSET relay.data
    BY ExpiredAreRecords
  <2>9. \E r \in {RemoveRecord(relay, gone) : gone \in SUBSET relay.data}, ids \in {E, E \cup X} :
            DeleteRecordFile(relay, ids, r, relayFile') /\ relay' = r
    BY <1>1 DEF GetPresentation
  <2> HIDE DEF E, X
  <2>1. PICK r, ids : /\ ids \in {E, E \cup X} /\ DeleteRecordFile(relay, ids, r, relayFile')
                      /\ relay' = r /\ puts' = puts /\ relayClock' = relayClock
    BY <1>1, <2>9 DEF GetPresentation
  <2>2. ids \in SUBSET relay.data
    BY <2>0, <2>1
  <2>3. PICK g : g = relayFile'
    OBVIOUS
  <2>4. CountersHold(r, puts) /\ FilesKnown(r, puts, g)
    BY <2>1, <2>2, <2>3, DeleteRecordKeeps
  <2> QED
    BY <2>1, <2>3, <2>4 DEF RelayInv
<1>2. CASE FileLost(u)
  BY <1>2 DEF FileLost, RelayInv, FilesKnown
<1> QED
  BY <1>1, <1>2

\* Maintenance, and the end of the service.
LEMMA MaintainRelay ==
    ASSUME RelayInv, RelayMaintenance \/ ClearRelay
    PROVE  RelayInv'
<1>1. PICK g : g = relayFile'
  OBVIOUS
<1>2. PICK r : r = relay'
  OBVIOUS
<1>3. puts' = puts /\ relayClock' = relayClock
  BY DEF RelayMaintenance, ClearRelay
<1>4. \/ CleanupExpired(relay, relayClock, r, g)
      \/ \E v \in BOOLEAN : r = [ResetStored(relay) EXCEPT !.ready = v] /\ g = [u \in Uploads0 |-> "none"]
      \/ r = [relay EXCEPT !.ready = FALSE] /\ g = relayFile
  <2>1. CASE RelayMaintenance
    <3>1. IF relay.ready THEN CleanupExpired(relay, relayClock, r, g) ELSE InitializeRoot(r, g)
      BY <1>1, <1>2, <2>1 DEF RelayMaintenance
    <3>2. InitializeRoot(r, g) =>
              \/ \E v \in BOOLEAN : r = [ResetStored(relay) EXCEPT !.ready = v] /\ g = [u \in Uploads0 |-> "none"]
              \/ r = [relay EXCEPT !.ready = FALSE] /\ g = relayFile
      BY DEF InitializeRoot
    <3> QED
      BY <3>1, <3>2
  <2>2. CASE ClearRelay
    BY <1>1, <1>2, <2>2 DEF ClearRelay
  <2> QED
    BY <2>1, <2>2
<1>5. CASE CleanupExpired(relay, relayClock, r, g)
  BY <1>1, <1>2, <1>3, <1>5, ExpiredAreRecords, DeleteRecordKeeps DEF CleanupExpired, RelayInv
<1>6. ASSUME NEW v \in BOOLEAN, r = [ResetStored(relay) EXCEPT !.ready = v], g = [u \in Uploads0 |-> "none"]
      PROVE  RelayInv'
  <2>1. CountersHold(r, puts)
    BY <1>6, ResetRow
  <2>2. FilesKnown(r, puts, g)
    BY <1>6 DEF FilesKnown
  <2> QED
    BY <1>1, <1>2, <1>3, <2>1, <2>2 DEF RelayInv
<1>7. CASE r = [relay EXCEPT !.ready = FALSE] /\ g = relayFile
  <2>1. CountersHold(r, puts) /\ r.ready = FALSE
    BY <1>7, UnreadyRow
  <2>2. FilesKnown(r, puts, g)
    BY <1>7, <2>1 DEF FilesKnown, RelayInv
  <2> QED
    BY <1>1, <1>2, <1>3, <2>1, <2>2 DEF RelayInv
<1> QED
  BY <1>4, <1>5, <1>6, <1>7

\* An empty store counts for uploads none of which is under way.
LEMMA EmptyCounts ==
    ASSUME NEW q \in [Uploads0 -> PutRows], IsFiniteSet(BytesOf(q, Uploads0)),
           \A v \in Uploads0 : q[v].at \notin AtWork
    PROVE  CountersHold(EmptyRelay, q)
<1>1. EmptyRelay \in RelayRows /\ EmptyRelay.data = {} /\ \A s \in Scopes : Zero[s] = 0
  BY DEF EmptyRelay, RelayRows, Zero
<1>2. \A s \in Scopes : Busy(q, s) = {} /\ Stored(EmptyRelay, q, s) = {}
  BY <1>1 DEF Busy, Stored
<1>3. TotalOf(q, {}) = 0 /\ Cardinality({}) = 0
  BY FS_EmptySet, BytesAre DEF TotalOf, BytesOf
<1>4. Exact(EmptyRelay, q)
  BY <1>1, <1>2, <1>3 DEF Exact, EmptyRelay
<1>5. Within(EmptyRelay)
  BY <1>1, <1>3, RelayAssumption DEF Within, EmptyRelay, Scopes, Zero
<1> QED
  BY <1>1, <1>4, <1>5 DEF CountersHold

\* What a restart leaves of an upload.
Gone(n, m) == [NoPut EXCEPT !.at = "gone", !.size = n, !.machine = m]
LEMMA OldPut ==
    ASSUME NEW n \in PSizes \cup {0}, NEW m \in Scopes
    PROVE  Gone(n, m) \in PutRows /\ Gone(n, m).at = "gone" /\ Gone(n, m).size = n
<1> DEFINE a == [NoPut EXCEPT !.at = "gone"]
           b == [a EXCEPT !.size = n]
           c == [b EXCEPT !.machine = m]
<1>0. a = [at |-> "gone", machine |-> "hub", size |-> 0, now |-> 0, ends |-> 0]
  BY DEF NoPut
<1> HIDE DEF a
<1>3. b = [at |-> "gone", machine |-> "hub", size |-> n, now |-> 0, ends |-> 0]
  BY <1>0
<1> HIDE DEF b
<1>4. c = [at |-> "gone", machine |-> m, size |-> n, now |-> 0, ends |-> 0]
  BY <1>3
<1>5. c = Gone(n, m)
  BY DEF a, b, Gone
<1> HIDE DEF c
<1>1. Gone(n, m) = [at |-> "gone", machine |-> m, size |-> n, now |-> 0, ends |-> 0]
  BY <1>4, <1>5
<1>2. 0 \in 0 .. MaxRelayClock /\ 0 \in 0 .. MaxRelayClock + 2 /\ "gone" \in PutSteps
  BY RelayAssumption DEF PutSteps
<1> QED
  BY <1>1, <1>2 DEF PutRows

\* The Hub starts again: the directory stays, and no record of it.
LEMMA RestartRelay ==
    ASSUME RelayInv, RelayRestarts
    PROVE  RelayInv'
<1>1. PICK q : q = puts'
  OBVIOUS
<1>2. /\ puts \in [Uploads0 -> PutRows] /\ IsFiniteSet(BytesOf(puts, Uploads0))
      /\ relayClock' = relayClock /\ relayClock \in 0 .. MaxRelayClock
      /\ FilesKnown(relay, puts, relayFile) /\ relayFile' = relayFile
  BY DEF RelayInv, CountersHold, RelayRestarts
<1> DEFINE old(v) == Gone(puts[v].size, puts[v].machine)
<1>3. ASSUME NEW v \in Uploads0
      PROVE  /\ old(v) \in PutRows /\ old(v).at = "gone" /\ old(v).size = puts[v].size
             /\ NoPut \in PutRows /\ NoPut.at = "none" /\ NoPut.size = 0
  <2>1. puts[v].size \in PSizes \cup {0} /\ puts[v].machine \in Scopes
    BY <1>2 DEF PutRows
  <2>2. 0 \in 0 .. MaxRelayClock /\ 0 \in 0 .. MaxRelayClock + 2 /\ "hub" \in Scopes
    BY RelayAssumption DEF Scopes
  <2>4. old(v) \in PutRows /\ old(v).at = "gone" /\ old(v).size = puts[v].size
    BY <2>1, OldPut
  <2>5. NoPut \in PutRows /\ NoPut.at = "none" /\ NoPut.size = 0
    BY <2>2 DEF NoPut, PutRows, PutSteps
  <2> QED
    BY <2>4, <2>5
<1>4. q = [v \in Uploads0 |-> IF puts[v].at = "none" THEN NoPut ELSE old(v)]
  BY <1>1 DEF RelayRestarts, Gone
<1> HIDE DEF old
<1>5. ASSUME NEW v \in Uploads0
      PROVE  /\ q[v] \in PutRows /\ q[v].at \in {"none", "gone"} /\ q[v].size \in {0, puts[v].size}
             /\ puts[v].at # "none" => q[v].at = "gone"
  BY <1>3, <1>4
<1>6. q \in [Uploads0 -> PutRows]
  BY <1>4, <1>5
<1>7. IsFiniteSet(BytesOf(q, Uploads0))
  BY <1>2, <1>5, FewerBytes
<1>8. CountersHold(EmptyRelay, q)
  BY <1>5, <1>6, <1>7, EmptyCounts DEF AtWork
<1>9. FilesKnown(EmptyRelay, q, relayFile)
  BY <1>2, <1>5 DEF FilesKnown, EmptyRelay
<1> QED
  BY <1>1, <1>2, <1>8, <1>9 DEF RelayInv, RelayRestarts

\* Every step keeps the invariant.
LEMMA RelaySteps ==
    RelayInv /\ [RelayNext]_relayVars => RelayInv'
<1> SUFFICES ASSUME RelayInv, [RelayNext]_relayVars
             PROVE  RelayInv'
  OBVIOUS
<1>1. ASSUME NEW u \in Uploads0, PutStep(u)
      PROVE  RelayInv'
  <2>1. CASE \E m \in PMachines, n \in PSizes, ttl \in {1, 2} : ReservePut(u, m, n, ttl)
    <3>1. PICK m \in PMachines, n \in PSizes, ttl \in {1, 2} : ReservePut(u, m, n, ttl)
      BY <2>1
    <3> QED
      BY <3>1, ReserveRelay
  <2>2. CASE OpenPut(u) \/ ReceiveBody(u) \/ RenamePut(u)
    BY <2>2, UploadRelay
  <2>3. CASE CommitReservation(u)
    BY <2>3, CommitRelay
  <2> QED
    BY <1>1, <2>1, <2>2, <2>3 DEF PutStep
<1>2. ASSUME NEW u \in Uploads0, GetPresentation(u) \/ FileLost(u)
      PROVE  RelayInv'
  BY <1>2, ReadRelay
<1>3. CASE RelayMaintenance \/ ClearRelay
  BY <1>3, MaintainRelay
<1>4. CASE RelayRestarts
  BY <1>4, RestartRelay
<1>5. CASE RelayTick
  <2>1. relayClock + 1 \in 0 .. MaxRelayClock
    BY <1>5, RelayAssumption DEF RelayTick, RelayInv
  <2> QED
    BY <1>5, <2>1 DEF RelayTick, RelayInv
<1>6. CASE UNCHANGED relayVars
  BY <1>6 DEF relayVars, RelayInv
<1> QED
  BY <1>1, <1>2, <1>3, <1>4, <1>5, <1>6 DEF RelayNext

\* At the start there is nothing.
LEMMA RelayStart ==
    RelayInit => RelayInv
<1> SUFFICES ASSUME RelayInit
             PROVE  RelayInv
  OBVIOUS
<1> DEFINE q == [u \in Uploads0 |-> NoPut]
<1>1. NoPut \in PutRows /\ NoPut.at = "none" /\ NoPut.size = 0
  BY RelayAssumption DEF NoPut, PutRows, PutSteps, Scopes
<1>2. q \in [Uploads0 -> PutRows] /\ \A v \in Uploads0 : q[v].at = "none" /\ q[v].size = 0
  BY <1>1
<1> HIDE DEF q
<1>3. BytesOf(q, Uploads0) = {}
  <2>1. \A v \in Uploads0 : 1 .. q[v].size = {}
    BY <1>2
  <2> QED
    BY <2>1, BytesAre
<1>4. CountersHold(EmptyRelay, q)
  BY <1>2, <1>3, EmptyCounts, FS_EmptySet DEF AtWork
<1>5. FilesKnown(EmptyRelay, q, [u \in Uploads0 |-> "none"])
  BY DEF FilesKnown
<1> QED
  BY <1>4, <1>5, RelayAssumption DEF RelayInv, RelayInit, q

\* What the invariant says of the disk.
LEMMA RelayDisk ==
    RelayInv => DiskIsBounded
<1> SUFFICES ASSUME RelayInv, relay.ready
             PROVE  /\ Total(OnDisk("hub")) <= MaxHubBytes
                    /\ \A m \in PMachines : Total(OnDisk(m)) <= MaxMachBytes
                    /\ Cardinality(OnDisk("hub")) <= MaxEntries
  BY DEF DiskIsBounded
<1>1. /\ IsFiniteSet(BytesOf(puts, Uploads0)) /\ Exact(relay, puts) /\ Within(relay)
      /\ relay.data \subseteq Uploads0 /\ \A u \in relay.data : puts[u].at = "stored"
      /\ "hub" \in Scopes /\ PMachines \subseteq Scopes
  BY DEF RelayInv, CountersHold, RelayRows, Scopes
<1>2. ASSUME NEW s \in Scopes
      PROVE  /\ Stored(relay, puts, s) \in SUBSET Uploads0 /\ Busy(puts, s) \in SUBSET Uploads0
             /\ Stored(relay, puts, s) \cap Busy(puts, s) = {}
             /\ OnDisk(s) \in SUBSET (Stored(relay, puts, s) \cup Busy(puts, s))
  BY <1>1 DEF RelayInv, FilesKnown, OnDisk, Stored, Busy, In, ScopesOf, AtWork
<1>3. ASSUME NEW s \in Scopes
      PROVE  Total(OnDisk(s)) <= relay.stored[s] + relay.reserved[s] /\ Total(OnDisk(s)) \in Nat
             /\ relay.stored[s] + relay.reserved[s] \in Nat
  <2>0. relay.stored[s] = TotalOf(puts, Stored(relay, puts, s)) /\ relay.reserved[s] = TotalOf(puts, Busy(puts, s))
    BY <1>1 DEF Exact
  <2>1. Total(OnDisk(s)) = TotalOf(puts, OnDisk(s))
    BY DEF Total, TotalOf, Bytes, BytesOf
  <2> DEFINE D == OnDisk(s)
             S == Stored(relay, puts, s)
             B == Busy(puts, s)
  <2>2. S \in SUBSET Uploads0 /\ B \in SUBSET Uploads0 /\ S \cap B = {} /\ D \in SUBSET (S \cup B)
        /\ (S \cup B) \in SUBSET Uploads0
    BY <1>2
  <2> HIDE DEF D, S, B
  <2>3. TotalOf(puts, S \cup B) = TotalOf(puts, S) + TotalOf(puts, B)
    BY <1>1, <2>2, TotalOfBoth
  <2>4. TotalOf(puts, D) <= TotalOf(puts, S \cup B)
    BY <1>1, <2>2, TotalOfSome
  <2>5. TotalOf(puts, D) \in Nat /\ TotalOf(puts, S \cup B) \in Nat
    BY <1>1, <2>2, TotalOfSome
  <2> QED
    BY <2>0, <2>1, <2>3, <2>4, <2>5 DEF D, S, B
<1>4. Total(OnDisk("hub")) <= MaxHubBytes
  BY <1>1, <1>3, RelayAssumption DEF Within
<1>5. ASSUME NEW m \in PMachines PROVE Total(OnDisk(m)) <= MaxMachBytes
  <2>1. relay.stored[m] + relay.reserved[m] <= MaxMachBytes
    BY <1>1 DEF Within
  <2> QED
    BY <1>1, <1>3, <2>1, RelayAssumption
<1>6. Cardinality(OnDisk("hub")) <= MaxEntries
  <2> DEFINE S == Stored(relay, puts, "hub")
             B == Busy(puts, "hub")
             D == OnDisk("hub")
  <2>1. S = relay.data
    BY DEF Stored, ScopesOf
  <2>2. relay.uploading["hub"] = Cardinality(B)
    BY <1>1 DEF Exact
  <2>3. Cardinality(relay.data) + relay.uploading["hub"] <= MaxEntries
    BY <1>1 DEF Within
  <2>4. S \in SUBSET Uploads0 /\ B \in SUBSET Uploads0 /\ S \cap B = {} /\ D \in SUBSET (S \cup B)
    BY <1>1, <1>2
  <2> HIDE DEF S, B, D
  <2>5. /\ IsFiniteSet(S) /\ IsFiniteSet(B) /\ Cardinality(S) \in Nat /\ Cardinality(B) \in Nat
        /\ Cardinality({}) = 0
    BY <2>4, FiniteUploads
  <2>6. IsFiniteSet(S \cup B) /\ Cardinality(S \cup B) = Cardinality(S) + Cardinality(B) - Cardinality(S \cap B)
    BY <2>5, FS_Union
  <2>7. Cardinality(D) <= Cardinality(S \cup B) /\ Cardinality(D) \in Nat
    BY <2>4, <2>6, FS_Subset, FS_CardinalityType
  <2>8. Cardinality(S \cup B) = Cardinality(S) + Cardinality(B)
    <3>1. Cardinality(S \cap B) = 0
      BY <2>4, <2>5
    <3> QED
      BY <2>5, <2>6, <3>1
  <2>9. Cardinality(S) + Cardinality(B) <= MaxEntries
    BY <2>1, <2>2, <2>3
  <2>10. Cardinality(D) <= MaxEntries
    BY <2>5, <2>7, <2>8, <2>9, RelayAssumption
  <2> QED
    BY <2>10 DEF D
<1> QED
  BY <1>4, <1>5, <1>6

\* What it says of the counters.
LEMMA RelayCounters ==
    RelayInv => CountersAreExact
<1> SUFFICES ASSUME RelayInv, NEW s \in Scopes
             PROVE  /\ relay.stored[s] = Total({u \in relay.data : s \in In(u)})
                    /\ relay.reserved[s] = Total(Busy(puts, s))
                    /\ relay.uploading[s] = Cardinality(Busy(puts, s))
  BY DEF CountersAreExact, Busy, AtWork, In, ScopesOf
<1>1. /\ relay.stored[s] = TotalOf(puts, Stored(relay, puts, s))
      /\ relay.reserved[s] = TotalOf(puts, Busy(puts, s))
      /\ relay.uploading[s] = Cardinality(Busy(puts, s))
  BY DEF RelayInv, CountersHold, Exact
<1>2. \A S : Total(S) = TotalOf(puts, S)
  BY DEF Total, TotalOf, Bytes, BytesOf
<1> QED
  BY <1>1, <1>2 DEF Stored, In, ScopesOf

\* The types are part of it.
LEMMA RelayTypes ==
    RelayInv => RelayTypeOK
BY DEF RelayInv, CountersHold, FilesKnown, RelayTypeOK, RelayRows, PutRows, PutSteps

(***************************************************************************)
(* However many uploads reserve, fail and finish while the store is        *)
(* cleaned, cleared and started again, the directory holds no more than    *)
(* the quotas allow and the counters are the sums they stand for           *)
(* (presentationStore: reserve, release, commit, deleteRecordFileLocked).  *)
(***************************************************************************)
THEOREM RelayStaysExact == RelaySpec => []RelayIsExact
<1>1. RelayInv => RelayIsExact
  BY RelayDisk, RelayCounters DEF RelayIsExact
<1> QED
  BY <1>1, RelayStart, RelaySteps, PTL DEF RelaySpec

\* Type correctness of the relay (presentationStore).
THEOREM RelayStaysTyped == RelaySpec => []RelayTypeOK
BY RelayStart, RelaySteps, RelayTypes, PTL DEF RelaySpec

-----------------------------------------------------------------------------
(***************************************************************************)
(* The types of the parts that have a bound to keep: what the type         *)
(* invariants say beyond the invariants above.                             *)
(***************************************************************************)
\* The types of the setup: a token in the table and in the file is that of some start.
LEMMA SetupTyped ==
    /\ SetupInit => SetupTypeOK
    /\ SetupTypeOK /\ [SetupNext]_setupVars => SetupTypeOK'
<1>0. MaxStarts \in Nat
  BY SetupAssumption
<1>1. ASSUME SetupInit PROVE SetupTypeOK
  <2>1. admin \in {NoAdmin, 0, 1} /\ adminSession \in [AdminSessions -> {"none", "old", "live", "revoked"}]
    BY <1>1 DEF SetupInit, NoAdmin
  <2>2. 0 \in 0..MaxStarts /\ FALSE \in BOOLEAN
    BY <1>0
  <2>3. owners \in [1..MaxOwners -> {"none", "bootstrap", "admin"}]
    BY <1>1 DEF SetupInit
  <2> QED
    BY <1>1, <2>1, <2>2, <2>3 DEF SetupInit, SetupTypeOK
<1>2. ASSUME SetupTypeOK, [SetupNext]_setupVars PROVE SetupTypeOK'
  <2>1. SetupTypes'
    BY <1>2, SetupTypesStep DEF SetupTypeOK, SetupTypes
  <2>2. starts' \in 0..MaxStarts /\ bootRow' \in 0..MaxStarts /\ bootFile' \in 0..MaxStarts
    <3>1. CASE EnsureAdminAccount \/ UNCHANGED setupVars
      BY <1>0, <1>2, <3>1 DEF EnsureAdminAccount, setupVars, bootstrap, SetupTypeOK
    <3>2. CASE EnsureBootstrap \/ SetupHubEnds
      BY <1>0, <1>2, <3>2 DEF EnsureBootstrap, EnsureBootstrapToken, SetupHubEnds, bootstrap, SetupTypeOK
    <3>3. CASE Setup \/ AdminLogin \/ AdminLogout \/ BootExpires
      BY <1>0, <1>2, <3>3 DEF Setup, BootstrapOwnerAccount, AdminLogin, AdminLogout, BootExpires,
                              bootstrap, SetupTypeOK
    <3>4. CASE \E q \in Creators : CreateUser(q) \/ ClearBootstrapTokens(q)
      BY <1>0, <1>2, <3>4 DEF CreateUser, ClearBootstrapTokens, SetupTypeOK
    <3> QED
      BY <1>2, <3>1, <3>2, <3>3, <3>4 DEF SetupNext
  <2>3. bootSpent' \in BOOLEAN /\ admin' \in {NoAdmin, 0, 1} /\ clearing' \subseteq Creators
    <3>1. CASE EnsureAdminAccount \/ UNCHANGED setupVars
      BY <1>2, <3>1 DEF EnsureAdminAccount, RotateAdminPassword, administrator, setupVars, bootstrap, SetupTypeOK
    <3>2. CASE EnsureBootstrap \/ SetupHubEnds
      BY <1>2, <3>2 DEF EnsureBootstrap, EnsureBootstrapToken, SetupHubEnds, administrator, bootstrap, SetupTypeOK
    <3>3. CASE Setup \/ AdminLogin \/ AdminLogout \/ BootExpires
      BY <1>2, <3>3 DEF Setup, BootstrapOwnerAccount, AdminLogin, AdminLogout, BootExpires,
                        bootstrap, administrator, SetupTypeOK
    <3>4. CASE \E q \in Creators : CreateUser(q) \/ ClearBootstrapTokens(q)
      BY <1>2, <3>4 DEF CreateUser, ClearBootstrapTokens, administrator, SetupTypeOK
    <3> QED
      BY <1>2, <3>1, <3>2, <3>3, <3>4 DEF SetupNext
  <2> QED
    BY <2>1, <2>2, <2>3 DEF SetupTypes, SetupTypeOK
<1> QED
  BY <1>1, <1>2

\* What the accounts have besides what the quotas count.
AcctRest == password \in 0..MaxChanges /\ session \in [Sessions -> {"none", "live", "ended"}]

\* The types of the accounts: the limiter counts the requests in flight beyond its limit.
AcctTyped == AcctInv /\ AcctRest

LEMMA AcctTypedIs ==
    /\ AcctInit => AcctTyped
    /\ AcctTyped /\ [AcctNext]_acctVars => AcctTyped'
    /\ AcctTyped => AcctTypeOK
<1>0. MaxChanges \in Nat
  BY AccountsAssumption
<1>1. ASSUME AcctInit PROVE AcctTyped
  BY <1>0, <1>1, AcctStarts DEF AcctInit, AcctTyped, AcctRest
<1>2. ASSUME AcctTyped, [AcctNext]_acctVars PROVE AcctTyped'
  <2>1. AcctInv'
    BY <1>2, QuotaStep, LimiterStep, AcctTypesStep DEF AcctTyped, AcctInv
  <2>2. AcctRest'
    <3>1. CASE SecretStep \/ HubRestarts \/ UNCHANGED acctVars \/ WindowPasses \/ Logout \/ SessionExpires
      BY <1>2, <3>1 DEF SecretStep, HubRestarts, acctVars, WindowPasses, Logout, SessionExpires, AcctRest, AcctTyped
    <3>2. ASSUME NEW q \in AReqs, ChangeCommit(q) PROVE AcctRest'
      BY <1>0, <1>2, <3>2 DEF ChangeCommit, AcctRest, AcctTyped
    <3>3. ASSUME NEW q \in AReqs, CreateWebSession(q) PROVE AcctRest'
      BY <1>2, <3>3 DEF CreateWebSession, AcctRest, AcctTyped
    <3>4. ASSUME NEW q \in AReqs, \/ LoginBegin(q) \/ LoginVerify(q) \/ ChangeBegin(q)
                                  \/ CountTokens(q) \/ CountKeys(q) \/ InsertToken(q) \/ InsertKey(q)
          PROVE  AcctRest'
      BY <1>2, <3>4 DEF LoginBegin, LoginVerify, ChangeBegin, CountTokens, CountKeys, InsertToken,
                        InsertKey, AddSecret, AcctRest, AcctTyped
    <3> QED
      BY <1>2, <3>1, <3>2, <3>3, <3>4 DEF AcctNext, AcctRequests
  <2> QED
    BY <2>1, <2>2 DEF AcctTyped
<1>3. ASSUME AcctTyped PROVE AcctTypeOK
  <2>1. /\ Cardinality(AtStep("verify")) \in Nat /\ Cardinality(AReqs) \in Nat /\ LoginLimit \in Nat
        /\ failures \in Nat /\ failures + Cardinality(AtStep("verify")) < LoginLimit + Cardinality(AReqs)
    BY <1>3, AtStepIsFinite, AccountsAssumption DEF AtStep, AcctTyped, AcctInv, AcctTypes
  <2>2. failures \in 0..(LoginLimit + Cardinality(AReqs))
    BY <2>1
  <2> QED
    BY <1>3, <2>2 DEF AcctTyped, AcctRest, AcctInv, AcctTypes, AcctTypeOK
<1> QED
  BY <1>1, <1>2, <1>3

\* What the prune has besides its plan: a directory that was never made has no files, so
\* that what is removed was in one that was.
StageRest ==
    /\ vaults \subseteq Trees /\ wiped \subseteq (1 .. MaxTrees) \X StageFiles
    /\ \A c \in Candidates : staging[c].id = 0 => staging[c].files = {}
    /\ sprune.tree.id = 0 => sprune.tree.files = {}

StageTyped == StageInv /\ StageRest

\* The steps of the prune, of those who write next to it, and of its caller.
LEMMA StageRestStep ==
    ASSUME StageTyped, [StagingNext]_stagingVars
    PROVE  StageRest'
<1>1. MaxTrees \in Nat /\ NoTree \in Trees /\ NoTree.id = 0 /\ NoTree.files = {} /\ SRest.tree = NoTree
  BY StagingAssumption DEF NoTree, Trees, SRest
<1>2. StageTypes /\ StageIsPlanned /\ StageRest
  BY DEF StageTyped, StageInv
<1>3. sprune.tree \in Trees /\ \A c \in Candidates : staging[c] \in Trees
  BY <1>2 DEF StageTypes
<1>4. ASSUME NEW c \in Candidates, BuildStage(c) PROVE StageRest'
  <2> DEFINE new == [id |-> trees + 1, files |-> {}]
  <2>1. staging' = [staging EXCEPT ![c] = new] /\ UNCHANGED <<vaults, sprune, wiped>>
    BY <1>4 DEF BuildStage
  <2>2. new.files = {}
    OBVIOUS
  <2> HIDE DEF new
  <2>3. ASSUME NEW d \in Candidates, staging'[d].id = 0 PROVE staging'[d].files = {}
    <3>1. CASE d = c
      BY <1>2, <2>1, <2>2, <3>1 DEF StageTypes
    <3>2. CASE d # c
      BY <1>2, <2>1, <2>3, <3>2 DEF StageTypes, StageRest
    <3> QED
      BY <3>1, <3>2
  <2> QED
    BY <1>2, <2>1, <2>3 DEF StageRest
<1>5. ASSUME NEW c \in Candidates, NEW f \in StageFiles, WriteStage(c, f) PROVE StageRest'
  <2> DEFINE new == [staging[c] EXCEPT !.files = @ \cup {f}]
  <2>1. staging' = [staging EXCEPT ![c] = new] /\ UNCHANGED <<vaults, sprune, wiped>> /\ staging[c] # NoTree
    BY <1>5 DEF WriteStage
  <2>2. new.id # 0
    BY <1>2, <1>3, <2>1 DEF Trees, NoTree, StageRest
  <2> HIDE DEF new
  <2>3. ASSUME NEW d \in Candidates, staging'[d].id = 0 PROVE staging'[d].files = {}
    <3>1. CASE d = c
      BY <1>2, <2>1, <2>2, <2>3, <3>1 DEF StageTypes
    <3>2. CASE d # c
      BY <1>2, <2>1, <2>3, <3>2 DEF StageTypes, StageRest
    <3> QED
      BY <3>1, <3>2
  <2> QED
    BY <1>2, <2>1, <2>3 DEF StageRest
<1>6. CASE ListStaging \/ ScanStaging \/ RecheckStaging \/ CheckIsolated \/ StagingPruned
  <2>1. UNCHANGED <<staging, vaults, wiped>>
    BY <1>6 DEF ListStaging, ScanStaging, RecheckStaging, CheckIsolated, StagingPruned, StopsHere
  <2>2. sprune'.tree \in {sprune.tree, NoTree}
    <3>1. CASE ListStaging \/ StagingPruned
      BY <1>1, <3>1, RestIsPlanned DEF ListStaging, StagingPruned, StopsHere, Goes, SRest
    <3>2. CASE ScanStaging
      BY <1>1, <1>2, <3>2 DEF ScanStaging, Goes, StageTypes
    <3>3. CASE RecheckStaging \/ CheckIsolated
      BY <1>1, <1>2, <3>3 DEF RecheckStaging, CheckIsolated, Goes, StageTypes
    <3> QED
      BY <1>6, <3>1, <3>2, <3>3
  <2> QED
    BY <1>1, <1>2, <2>1, <2>2 DEF StageRest
<1>7. ASSUME NEW c \in Finished, IsolateStagingCandidate(c) PROVE StageRest'
  <2>1. c \in Candidates /\ UNCHANGED <<vaults, wiped>>
    BY <1>7 DEF Candidates, IsolateStagingCandidate
  <2>2. staging' = staging \/ staging' = [staging EXCEPT ![c] = NoTree]
    BY <1>7 DEF IsolateStagingCandidate
  <2>3. sprune'.tree = sprune.tree \/ sprune'.tree = staging[c]
    BY <1>2, <1>7 DEF IsolateStagingCandidate, Goes, StageTypes
  <2>4. ASSUME NEW d \in Candidates, staging'[d].id = 0 PROVE staging'[d].files = {}
    <3>1. staging'[d] \in {staging[d], NoTree}
      BY <1>2, <2>1, <2>2 DEF StageTypes
    <3> QED
      BY <1>1, <1>2, <2>4, <3>1 DEF StageRest
  <2> QED
    BY <1>2, <2>1, <2>3, <2>4 DEF StageRest
<1>8. CASE RemoveStagingTree
  <2>1. UNCHANGED <<staging, vaults>>
    BY <1>8 DEF RemoveStagingTree
  <2>2. ASSUME NEW f \in sprune.tree.files, wiped' = wiped \cup {<<sprune.tree.id, f>>},
               sprune' = [sprune EXCEPT !.tree.files = @ \ {f}]
        PROVE  StageRest'
    <3>1. sprune.tree.id \in 1 .. MaxTrees /\ f \in StageFiles
      BY <1>1, <1>2, <1>3, <2>2 DEF Trees, StageRest
    <3>2. sprune'.tree = [sprune.tree EXCEPT !.files = @ \ {f}]
      BY <1>2, <2>2 DEF StageTypes
    <3>3. sprune'.tree.id # 0
      BY <1>3, <3>1, <3>2 DEF Trees
    <3> QED
      BY <1>2, <2>1, <2>2, <3>1, <3>3 DEF StageRest
  <2>3. ASSUME wiped' = wiped,
               \/ sprune' = [sprune EXCEPT !.at = "next", !.cur = "", !.tree = NoTree]
               \/ sprune' = [sprune EXCEPT !.at = "restore"]
        PROVE  StageRest'
    <3>1. sprune'.tree \in {sprune.tree, NoTree}
      BY <1>2, <2>3 DEF StageTypes
    <3> QED
      BY <1>1, <1>2, <2>1, <2>3, <3>1 DEF StageRest
  <2> QED
    BY <1>8, <2>2, <2>3 DEF RemoveStagingTree, Goes
<1>9. CASE RestoreIsolated
  <2>1. wiped' = wiped /\ sprune'.tree = NoTree
    BY <1>2, <1>9 DEF RestoreIsolated, Goes, StageTypes
  <2>2. vaults' \subseteq Trees
    BY <1>2, <1>3, <1>9 DEF RestoreIsolated, StageRest
  <2>3. ASSUME NEW d \in Candidates, staging'[d].id = 0 PROVE staging'[d].files = {}
    <3>1. staging'[d] \in {staging[d], sprune.tree}
      BY <1>2, <1>9 DEF RestoreIsolated, StageTypes
    <3> QED
      BY <1>2, <2>3, <3>1 DEF StageRest
  <2> QED
    BY <1>1, <1>2, <2>1, <2>2, <2>3 DEF StageRest
<1>10. CASE PruneKilled
  <2>1. UNCHANGED <<staging, wiped>> /\ sprune'.tree = NoTree /\ vaults' \subseteq Trees
    BY <1>1, <1>2, <1>3, <1>10 DEF PruneKilled, Goes, StageRest
  <2> QED
    BY <1>1, <1>2, <2>1 DEF StageRest
<1>11. CASE UNCHANGED stagingVars
  BY <1>2, <1>11 DEF stagingVars, StageRest
<1> QED
  BY <1>4, <1>5, <1>6, <1>7, <1>8, <1>9, <1>10, <1>11 DEF StagingNext, PruneStep

\* The types of the prune.
LEMMA StageTypedIs ==
    /\ StagingInit => StageTyped
    /\ StageTyped /\ [StagingNext]_stagingVars => StageTyped'
    /\ StageTyped => StagingTypeOK
<1>1. ASSUME StagingInit PROVE StageTyped
  <2>1. NoTree \in Trees /\ NoTree.files = {} /\ SRest.tree = NoTree /\ 0 \in 0 .. MaxTrees
    BY StagingAssumption DEF NoTree, Trees, SRest
  <2>2. staging \in [Candidates -> Trees] /\ \A c \in Candidates : staging[c].files = {}
    BY <1>1, <2>1 DEF StagingInit, Unseen
  <2>3. StageInv
    BY <1>1, <2>1, <2>2, RestIsPlanned DEF StagingInit, StageInv, StageTypes, StageIsPlanned
  <2>4. StageRest
    BY <1>1, <2>1, <2>2 DEF StagingInit, StageRest
  <2> QED
    BY <2>3, <2>4 DEF StageTyped
<1>2. ASSUME StageTyped, [StagingNext]_stagingVars PROVE StageTyped'
  BY <1>2, StageStep, StageRestStep DEF StageTyped
<1>3. ASSUME StageTyped PROVE StagingTypeOK
  BY <1>3 DEF StageTyped, StageInv, StageTypes, StageRest, StagingTypeOK
<1> QED
  BY <1>1, <1>2, <1>3

\* What a backup has besides what it copies: numbers of archives that were begun, and
\* versions of files that were written.
BackupRest ==
    /\ past \subseteq Contents0
    /\ target \in [kind : {"absent", "empty", "hub", "restored"}, files : Contents0]
    /\ bkLock \in Operators \cup {NoOne}
    /\ bkCount.made <= MaxArchives
    /\ \A u \in Operators : ops[u].half <= bkCount.made
    /\ \A n \in Backups : archives[n].id <= bkCount.made /\ archives[n].made <= bkCount.made

BackupTyped == BackupInv /\ BackupRest

\* What was written is a content of the directory, and so is what was in an archive.
LEMMA WrittenIs ==
    ASSUME NEW d \in [DataFiles -> Nat], NEW w \in Nat, w <= MaxWrites, \A f \in DataFiles : d[f] <= w + 1
    PROVE  d \in Contents0
<1>1. MaxWrites \in Nat /\ Contents0 = [DataFiles -> 0 .. MaxWrites + 2]
  BY BackupAssumption DEF Contents0, Torn
<1>2. ASSUME NEW f \in DataFiles PROVE d[f] \in 0 .. MaxWrites + 2
  BY <1>1
<1> QED
  BY <1>1, <1>2

\* The files that were written are contents of the directory, whatever archive has them.
LEMMA ContentsAre ==
    ASSUME BackupInv
    PROVE  /\ data \in Contents0
           /\ past \subseteq Contents0 => Snapshots \subseteq Contents0
           /\ NoFile \in Contents0
<1>1. MaxWrites \in Nat /\ Contents0 = [DataFiles -> 0 .. MaxWrites + 2]
  BY BackupAssumption DEF Contents0, Torn
<1>2. data \in [DataFiles -> Nat] /\ bkCount.writes \in Nat /\ bkCount.writes <= MaxWrites
      /\ \A f \in DataFiles : data[f] <= bkCount.writes + 1
  BY DEF BackupInv, DataKept
<1>4. data \in Contents0
  BY <1>2, WrittenIs
<1>5. 0 \in 0 .. MaxWrites + 2
  BY <1>1
<1>6. NoFile \in Contents0
  BY <1>1, <1>5 DEF NoFile
<1>7. ASSUME past \subseteq Contents0 PROVE Snapshots \subseteq Contents0
  <2>1. ASSUME NEW d \in past
        PROVE  [f \in DataFiles |-> IF f = "hub.db-shm" THEN 0 ELSE d[f]] \in Contents0
    BY <1>1, <1>5, <1>7
  <2> QED
    BY <2>1 DEF Snapshots
<1> QED
  BY <1>4, <1>6, <1>7

\* A command that goes on leaves its number, and the rest, alone.
LEMMA GoesOnRest ==
    ASSUME BackupInv, BackupRest, NEW u \in Operators, NEW o, Becomes0(u, o),
           o.half <= bkCount.made, UNCHANGED <<past, target, bkCount>>,
           bkLock' \in {bkLock, u, NoOne},
           \A n \in Backups : archives'[n] \in {archives[n], NoArchive}
    PROVE  BackupRest'
<1>1. ops \in [Operators -> Commands0]
  BY DEF BackupInv
<1>2. ASSUME NEW v \in Operators PROVE ops'[v].half <= bkCount.made
  BY <1>1 DEF Becomes0, BackupRest
<1>3. bkCount.made \in Nat /\ NoArchive.id = 0 /\ NoArchive.made = 0
  BY DEF BackupInv, DataKept, NoArchive
<1>4. ASSUME NEW n \in Backups PROVE archives'[n].id <= bkCount.made /\ archives'[n].made <= bkCount.made
  <2>1. CASE archives'[n] = archives[n]
    BY <2>1 DEF BackupRest
  <2>2. CASE archives'[n] = NoArchive
    BY <1>3, <2>2
  <2> QED
    BY <2>1, <2>2
<1> QED
  BY <1>2, <1>4 DEF BackupRest

\* The same for one that ends.
LEMMA EndsRest ==
    ASSUME BackupInv, BackupRest, NEW u \in Operators, Ends0(u)
    PROVE  BackupRest'
<1>1. Resting0.half = 0 /\ bkCount.made \in Nat
  BY DEF Resting0, BackupInv, DataKept
<1>2. Resting0.half <= bkCount.made
  BY <1>1
<1> QED
  BY <1>2, GoesOnRest DEF Ends0, UnlockDirectory

\* The steps that copy, compare and extract, and the steps of a rotation.
LEMMA CommandRest ==
    ASSUME BackupInv, BackupRest, NEW u \in Operators,
           \/ AddFile(u) \/ AddFileTail(u) \/ ListAgain(u) \/ HashAgain(u) \/ ExtractFile(u)
           \/ ListBackups(u) \/ PlanPrune(u) \/ RecheckNext(u) \/ RemoveBackup(u) \/ RemoveFails(u)
           \/ PruneEnds(u) \/ Stops0(u) \/ \E n \in Backups : RestoreBackup(u, n) \/ InspectCandidate(u, n)
    PROVE  BackupRest'
<1>1. ops[u] \in Commands0 /\ Resting0 \in Commands0 /\ Resting0.half = 0 /\ archives \in [Backups -> Archives0]
  BY RestingTrue DEF BackupInv, CommandTrue, Resting0
<1>2. ops[u].half <= bkCount.made /\ Resting0.half <= bkCount.made
  BY <1>1 DEF BackupRest, BackupInv, DataKept
<1>3. ASSUME NEW o, Becomes0(u, o), o.half \in {ops[u].half, 0}, UNCHANGED <<past, archives, target, bkCount>>,
             bkLock' \in {bkLock, u, NoOne}
      PROVE  BackupRest'
  BY <1>1, <1>2, <1>3, GoesOnRest
<1>4. CASE Ends0(u) \/ PruneEnds(u) \/ Stops0(u)
  BY <1>4, EndsRest DEF PruneEnds, Stops0
<1>5. CASE AddFile(u)
  <2> DEFINE o == [ops[u] EXCEPT !.at = "tail", !.got[FirstOf(ops[u].left)] = data[FirstOf(ops[u].left)]]
  <2>1. o.half = ops[u].half
    BY <1>1 DEF Commands0
  <2> QED
    BY <1>3, <1>4, <1>5, <2>1 DEF AddFile
<1>6. CASE AddFileTail(u)
  <2> DEFINE f == FirstOf(ops[u].left)
             left == ops[u].left \ {f}
             o == [ops[u] EXCEPT !.left = left, !.at = IF left = {} THEN "list" ELSE "copy",
                                 !.got[f] = IF data[f] \in {0, @} THEN @ ELSE Torn]
  <2>1. o.half = ops[u].half
    BY <1>1 DEF Commands0
  <2>2. Becomes0(u, o) /\ UNCHANGED <<past, archives, target, bkCount, bkLock>>
    BY <1>6 DEF AddFileTail
  <2> HIDE DEF o
  <2> QED
    BY <1>3, <2>1, <2>2
<1>7. CASE ListAgain(u) \/ HashAgain(u) \/ PlanPrune(u) \/ RemoveFails(u)
  <2>1. ASSUME NEW at, NEW left,
               Becomes0(u, [ops[u] EXCEPT !.at = at, !.left = left]) \/ Becomes0(u, [ops[u] EXCEPT !.left = left, !.at = at]),
               UNCHANGED <<data, past, archives, target, bkLock, bkCount>>
        PROVE  BackupRest'
    <3>1. /\ [ops[u] EXCEPT !.at = at, !.left = left].half = ops[u].half
          /\ [ops[u] EXCEPT !.left = left, !.at = at].half = ops[u].half
      BY <1>1 DEF Commands0
    <3> QED
      BY <1>3, <2>1, <3>1
  <2>2. ASSUME NEW at, NEW plan,
               Becomes0(u, [ops[u] EXCEPT !.at = at, !.plan = plan]) \/ Becomes0(u, [ops[u] EXCEPT !.at = at]),
               UNCHANGED <<data, past, archives, target, bkLock, bkCount>>
        PROVE  BackupRest'
    <3>1. /\ [ops[u] EXCEPT !.at = at, !.plan = plan].half = ops[u].half
          /\ [ops[u] EXCEPT !.at = at].half = ops[u].half
      BY <1>1 DEF Commands0
    <3> QED
      BY <1>3, <2>2, <3>1
  <2>3. CASE ListAgain(u)
    BY <1>4, <2>1, <2>3 DEF ListAgain
  <2>4. CASE HashAgain(u)
    BY <1>4, <2>1, <2>4, Zenon DEF HashAgain
  <2>5. CASE PlanPrune(u)
    BY <1>4, <2>2, <2>5, Zenon DEF PlanPrune
  <2>6. CASE RemoveFails(u)
    BY <2>2, <2>6 DEF RemoveFails
  <2> QED
    BY <1>7, <2>3, <2>4, <2>5, <2>6
<1>8. CASE ExtractFile(u)
  <2> DEFINE f == FirstOf(ops[u].left)
             left == ops[u].left \ {f}
             o == [ops[u] EXCEPT !.got[f] = ops[u].seen[ops[u].name].files[f], !.left = left,
                                 !.at = IF left = {} THEN "clear" ELSE "extract"]
  <2>1. o.half = ops[u].half
    BY <1>1 DEF Commands0
  <2>2. Becomes0(u, o) /\ UNCHANGED <<past, archives, target, bkCount, bkLock>>
    BY <1>8 DEF ExtractFile
  <2> HIDE DEF o
  <2> QED
    BY <1>3, <2>1, <2>2
<1>9. CASE ListBackups(u)
  <2> DEFINE o == [Resting0 EXCEPT !.at = "inspect", !.left = {n \in Backups : archives[n] # NoArchive}]
  <2>1. o.half = 0
    BY <1>1 DEF Commands0
  <2>2. Becomes0(u, o) /\ UNCHANGED <<past, archives, target, bkCount>> /\ bkLock' \in {bkLock, u, NoOne}
    BY <1>9 DEF ListBackups, LockDirectory
  <2> HIDE DEF o
  <2> QED
    BY <1>3, <2>1, <2>2
<1>10. CASE RecheckNext(u)
  <2>1. PICK n \in ops[u].plan :
          Ends0(u) \/ /\ Becomes0(u, [ops[u] EXCEPT !.at = "remove", !.name = n, !.plan = @ \ {n}])
                      /\ UNCHANGED <<data, past, archives, target, bkLock, bkCount>>
    BY <1>10 DEF RecheckNext
  <2> DEFINE o == [ops[u] EXCEPT !.at = "remove", !.name = n, !.plan = @ \ {n}]
  <2>2. o.half = ops[u].half
    BY <1>1 DEF Commands0
  <2> HIDE DEF o
  <2> QED
    BY <1>3, <1>4, <2>1, <2>2 DEF o
<1>11. CASE RemoveBackup(u)
  <2> DEFINE o == [ops[u] EXCEPT !.at = "next"]
  <2>1. o.half = ops[u].half
    BY <1>1 DEF Commands0
  <2>2. Becomes0(u, o) /\ UNCHANGED <<past, target, bkCount, bkLock>>
        /\ \A n \in Backups : archives'[n] \in {archives[n], NoArchive}
    BY <1>1, <1>11 DEF RemoveBackup
  <2> HIDE DEF o
  <2> QED
    BY <1>2, <2>1, <2>2, GoesOnRest
<1>12. ASSUME NEW n \in Backups, RestoreBackup(u, n) PROVE BackupRest'
  <2> DEFINE o == [Resting0 EXCEPT !.at = "extract", !.name = n, !.seen[n] = archives[n],
                                    !.left = {f \in DataFiles : archives[n].files[f] # 0}]
  <2>1. o.half = 0
    BY <1>1 DEF Commands0
  <2>2. Becomes0(u, o) /\ UNCHANGED <<past, archives, target, bkCount, bkLock>>
    BY <1>12 DEF RestoreBackup
  <2> HIDE DEF o
  <2> QED
    BY <1>3, <2>1, <2>2
<1>13. ASSUME NEW n \in Backups, InspectCandidate(u, n) PROVE BackupRest'
  <2> DEFINE at == IF ops[u].left = {n} THEN "recheck" ELSE "inspect"
             o == [ops[u] EXCEPT !.seen[n] = archives[n], !.left = @ \ {n}, !.at = at]
  <2>1. CASE Ends0(u)
    BY <1>4, <2>1
  <2>2. CASE Becomes0(u, o) /\ UNCHANGED <<data, past, archives, target, bkLock, bkCount>>
    <3>1. o.half = ops[u].half
      BY <1>1 DEF Commands0
    <3> HIDE DEF o
    <3> QED
      BY <1>3, <2>2, <3>1
  <2> QED
    BY <1>13, <2>1, <2>2 DEF InspectCandidate
<1> QED
  BY <1>4, <1>5, <1>6, <1>7, <1>8, <1>9, <1>10, <1>11, <1>12, <1>13

\* The steps that make archives and directories, and the Hub.
LEMMA BackupRestStep ==
    ASSUME BackupInv, BackupInv', BackupRest, [BackupNext]_bkVars
    PROVE  BackupRest'
<1>1. /\ ops \in [Operators -> Commands0] /\ archives \in [Backups -> Archives0]
      /\ bkCount \in [writes : Nat, made : Nat] /\ MaxArchives \in Nat
  BY BackupAssumption DEF BackupInv, DataKept
<1>2. NoFile \in Contents0 /\ data' \in Contents0 /\ Snapshots \subseteq Contents0
  <2>1. /\ data' \in [DataFiles -> Nat] /\ bkCount'.writes \in Nat /\ bkCount'.writes <= MaxWrites
        /\ \A f \in DataFiles : data'[f] <= bkCount'.writes + 1
    BY DEF BackupInv, DataKept
  <2>2. data' \in Contents0
    BY <2>1, WrittenIs
  <2> QED
    BY <2>2, ContentsAre DEF BackupRest
<1>3. ASSUME NEW f \in DataFiles, HubWrites(f) PROVE BackupRest'
  <2>1. bkCount'.made = bkCount.made /\ past' = past \cup {data'} /\ UNCHANGED <<archives, target, bkLock, ops>>
    BY <1>1, <1>3 DEF HubWrites
  <2> QED
    BY <1>2, <2>1 DEF BackupRest
<1>4. ASSUME NEW n \in Backups, Rot(n) PROVE BackupRest'
  <2>1. \A m \in Backups : archives'[m].id = archives[m].id /\ archives'[m].made = archives[m].made
    BY <1>1, <1>4 DEF Rot, Archives0
  <2> QED
    BY <1>4, <2>1 DEF Rot, BackupRest
<1>5. CASE HubStarts
  BY <1>2, <1>5 DEF HubStarts, BackupRest
<1>6. ASSUME NEW u \in Operators, NEW n \in Backups, CreateBackup(u, n) PROVE BackupRest'
  <2> DEFINE m == bkCount.made + 1
             o == [Resting0 EXCEPT !.at = "copy", !.name = n, !.left = CollectFiles,
                                   !.listed = CollectFiles, !.half = m]
  <2>1. bkCount'.made = m /\ bkCount.made < MaxArchives /\ Becomes0(u, o)
        /\ UNCHANGED <<past, archives, target>> /\ bkLock' \in {bkLock, u}
    BY <1>1, <1>6 DEF CreateBackup, LockDirectory
  <2>2. o.half = m
    BY DEF Resting0
  <2>3. m \in Nat /\ m <= MaxArchives /\ bkCount.made <= m /\ bkCount.made \in Nat
    BY <1>1, <2>1
  <2> HIDE DEF m, o
  <2>4. ASSUME NEW v \in Operators PROVE ops'[v].half <= bkCount'.made
    <3>1. ops[v].half \in Nat /\ ops[v].half <= bkCount.made
      BY <1>1 DEF BackupRest, Commands0
    <3>2. ops'[v] = IF v = u THEN o ELSE ops[v]
      BY <1>1, <2>1 DEF Becomes0
    <3> QED
      BY <2>1, <2>2, <2>3, <3>1, <3>2
  <2>5. ASSUME NEW k \in Backups PROVE archives'[k].id <= bkCount'.made /\ archives'[k].made <= bkCount'.made
    <3>1. archives[k].id \in Nat /\ archives[k].made \in Nat
          /\ archives[k].id <= bkCount.made /\ archives[k].made <= bkCount.made
      BY <1>1 DEF BackupRest, Archives0
    <3> QED
      BY <2>1, <2>3, <3>1
  <2> QED
    BY <2>1, <2>3, <2>4, <2>5 DEF BackupRest
<1>7. ASSUME NEW u \in Operators, PublishBackup(u) PROVE BackupRest'
  <2> DEFINE a == [id |-> ops[u].half, made |-> ops[u].half, files |-> ops[u].got, sound |-> TRUE]
  <2>1. /\ archives' = [archives EXCEPT ![ops[u].name] = a] /\ Becomes0(u, Resting0)
        /\ UNCHANGED <<past, target, bkCount>> /\ bkLock' \in {bkLock, NoOne}
    BY <1>7 DEF PublishBackup, UnlockDirectory
  <2>2. a.id <= bkCount.made /\ a.made <= bkCount.made /\ Resting0.half = 0 /\ 0 <= bkCount.made
    BY <1>1 DEF BackupRest, Resting0
  <2> HIDE DEF a
  <2>3. ASSUME NEW k \in Backups PROVE archives'[k].id <= bkCount.made /\ archives'[k].made <= bkCount.made
    <3>1. archives'[k] \in {archives[k], a}
      BY <1>1, <2>1
    <3> QED
      BY <2>2, <3>1 DEF BackupRest
  <2>4. ASSUME NEW v \in Operators PROVE ops'[v].half <= bkCount.made
    BY <1>1, <2>1, <2>2 DEF Becomes0, BackupRest
  <2> QED
    BY <2>1, <2>3, <2>4 DEF BackupRest
<1>8. ASSUME NEW u \in Operators, ClearTarget(u) PROVE BackupRest'
  <2>1. CASE Ends0(u)
    BY <2>1, EndsRest
  <2>2. CASE /\ target' = [target EXCEPT !.kind = "absent"] /\ Becomes0(u, [ops[u] EXCEPT !.at = "move"])
             /\ UNCHANGED <<data, past, archives, bkLock, bkCount>>
    <3>1. target' \in [kind : {"absent", "empty", "hub", "restored"}, files : Contents0]
      BY <2>2 DEF BackupRest
    <3>2. \A v \in Operators : ops'[v].half = ops[v].half
      BY <1>1, <2>2 DEF Becomes0, Commands0
    <3> QED
      BY <2>2, <3>1, <3>2 DEF BackupRest
  <2> QED
    BY <1>8, <2>1, <2>2 DEF ClearTarget
<1>9. ASSUME NEW u \in Operators, PublishRestored(u) PROVE BackupRest'
  <2>1. CASE Ends0(u)
    BY <2>1, EndsRest
  <2>2. CASE /\ target' = [kind |-> "restored", files |-> ops[u].got] /\ Becomes0(u, Resting0)
             /\ UNCHANGED <<data, past, archives, bkLock, bkCount>>
    <3>1. target'.kind = "restored" /\ Snapshots' = Snapshots
      BY <2>2 DEF Snapshots
    <3>2. target'.files \in Contents0
      BY <1>2, <3>1 DEF BackupInv, BackupIsSnapshot
    <3>3. target' \in [kind : {"absent", "empty", "hub", "restored"}, files : Contents0]
      BY <2>2, <3>2
    <3>4. Resting0.half = 0 /\ 0 <= bkCount.made
      BY <1>1 DEF Resting0
    <3>5. ASSUME NEW v \in Operators PROVE ops'[v].half <= bkCount.made
      BY <1>1, <2>2, <3>4 DEF Becomes0, BackupRest
    <3> QED
      BY <2>2, <3>3, <3>5 DEF BackupRest
  <2> QED
    BY <1>9, <2>1, <2>2 DEF PublishRestored
<1>10. CASE UNCHANGED bkVars
  BY <1>10 DEF bkVars, BackupRest
<1> QED
  BY <1>3, <1>4, <1>5, <1>6, <1>7, <1>8, <1>9, <1>10, CommandRest DEF BackupNext, OperatorStep

\* The types of the backups.
LEMMA BackupTypedIs ==
    /\ BackupInit => BackupTyped
    /\ BackupTyped /\ [BackupNext]_bkVars => BackupTyped'
    /\ BackupTyped => BackupTypeOK
<1>1. ASSUME BackupInit PROVE BackupTyped
  <2>1. BackupInv
    BY <1>1, BackupStarts
  <2>2. data \in Contents0 /\ NoFile \in Contents0 /\ MaxArchives \in Nat
    BY <2>1, ContentsAre, BackupAssumption
  <2>3. /\ past \subseteq Contents0 /\ target \in [kind : {"absent", "empty", "hub", "restored"}, files : Contents0]
        /\ bkLock \in Operators \cup {NoOne} /\ bkCount.made = 0
    BY <1>1, <2>2 DEF BackupInit
  <2>4. Resting0.half = 0 /\ NoArchive.id = 0 /\ NoArchive.made = 0
    BY DEF Resting0, NoArchive
  <2>5. BackupRest
    BY <1>1, <2>2, <2>3, <2>4 DEF BackupInit, BackupRest
  <2> QED
    BY <2>1, <2>5 DEF BackupTyped
<1>2. ASSUME BackupTyped, [BackupNext]_bkVars PROVE BackupTyped'
  <2>1. BackupInv'
    BY <1>2, BackupStep DEF BackupTyped
  <2> QED
    BY <1>2, <2>1, BackupRestStep DEF BackupTyped
<1>3. ASSUME BackupTyped PROVE BackupTypeOK
  <2>1. /\ ops \in [Operators -> Commands0] /\ archives \in [Backups -> Archives0]
        /\ bkCount \in [writes : Nat, made : Nat] /\ bkCount.writes <= MaxWrites /\ bkCount.made <= MaxArchives
        /\ MaxArchives \in Nat /\ MaxWrites \in Nat
    BY <1>3, BackupAssumption DEF BackupTyped, BackupInv, DataKept, BackupRest
  <2>2. NoFile \in Contents0 /\ data \in Contents0 /\ Snapshots \subseteq Contents0
    BY <1>3, ContentsAre DEF BackupTyped, BackupRest
  <2>3. bkCount \in [writes : 0 .. MaxWrites, made : 0 .. MaxArchives]
    BY <2>1
  <2>4. ASSUME NEW n \in Backups
        PROVE  archives[n] \in [id : 0 .. MaxArchives, made : 0 .. MaxArchives, files : Contents0, sound : BOOLEAN]
    <3>1. archives[n].files \in Contents0
      BY <1>3, <2>2 DEF BackupTyped, BackupInv, BackupIsSnapshot, NoArchive
    <3>2. archives[n] \in Archives0 /\ archives[n].id \in 0 .. MaxArchives /\ archives[n].made \in 0 .. MaxArchives
      BY <1>3, <2>1 DEF BackupTyped, BackupRest, Archives0
    <3> QED
      BY <3>1, <3>2 DEF Archives0
  <2>5. ASSUME NEW u \in Operators
        PROVE  /\ ops[u].at \in Places0 /\ ops[u].name \in Backups \cup {""}
               /\ ops[u].left \cup ops[u].listed \subseteq DataFiles \cup Backups /\ ops[u].plan \subseteq Backups
    BY <2>1 DEF Commands0
  <2> QED
    BY <1>3, <2>1, <2>2, <2>3, <2>4, <2>5 DEF BackupTyped, BackupRest, BackupTypeOK, Places0
<1> QED
  BY <1>1, <1>2, <1>3

\* Stamps of files that were replaced so often, and counts of waiting requests.
Replacements == 0 .. MaxReleases
ReadWithin(q) == q.stamp \in Stamps /\ q.got \in Stamps
LoadWithin(l) ==
    /\ l.stamp \in Stamps /\ l.hashed \in Replacements /\ l.seen \in Replacements
    /\ l.at \in {"none", "ready"} => l.waiters = 0

\* A replacement shows a stamp that was not shown before: no stamp is later in
\* either part than the files.
ShownCounted(k) ==
    /\ relFiles[k] \in Stamps /\ relShown[k] \subseteq Stamps
    /\ IsFiniteSet(relShown[k]) /\ Nothing \in relShown[k]
    /\ relFiles[k].a + relFiles[k].v < Cardinality(relShown[k])
    /\ \A s \in relShown[k] : s.a <= relFiles[k].a /\ s.v <= relFiles[k].v

FeedRest ==
    /\ \A k \in RelKeys : ShownCounted(k)
    /\ \A r \in RelReaders : ReadWithin(relReads[r])
    /\ \A m \in RelReaders : LoadWithin(relLoads[m])

FeedTyped == FeedInv /\ FeedRest

\* All that was shown, by release: what the publisher's bound counts.
Shown == UNION {{<<f, s>> : s \in relShown[f]} : f \in RelKeys}

\* There are finitely many stamps.
LEMMA StampsAreFinite == IsFiniteSet(Stamps) /\ Nothing \in Stamps
<1>1. MaxReleases \in Nat /\ IsFiniteSet(0 .. MaxReleases)
  BY ReleaseCacheAssumption, FS_Interval
<1> DEFINE R == 0 .. MaxReleases
           P == R \X R
           f == [p \in P |-> [a |-> p[1], v |-> p[2]]]
<1>2. IsFiniteSet(P)
  BY <1>1, FS_Product
<1>3. f \in [P -> Stamps]
  BY DEF Stamps
<1>4. ASSUME NEW s \in Stamps PROVE \E p \in P : f[p] = s
  <2>1. s.a \in R /\ s.v \in R /\ s = [a |-> s.a, v |-> s.v]
    BY DEF Stamps
  <2>2. <<s.a, s.v>> \in P
    BY <2>1
  <2>3. f[<<s.a, s.v>>] = s
    BY <2>1, <2>2
  <2> QED
    BY <2>2, <2>3
<1>5. f \in Surjection(P, Stamps)
  BY <1>3, <1>4 DEF Surjection
<1>6. Nothing \in Stamps
  BY <1>1 DEF Nothing, Stamps
<1> HIDE DEF P, f
<1> QED
  BY <1>2, <1>5, <1>6, FS_Surjection

\* Every replacement of one release is among all that was shown, besides what each
\* release began with.
LEMMA ReplacementsCounted ==
    ASSUME FeedRest, NEW k \in RelKeys
    PROVE  /\ IsFiniteSet(Shown)
           /\ Cardinality(RelKeys) + relFiles[k].a + relFiles[k].v <= Cardinality(Shown)
<1> DEFINE Began == {<<f, Nothing>> : f \in RelKeys}
           S == relShown[k] \ {Nothing}
           Came == {<<k, s>> : s \in S}
<1>1. IsFiniteSet(RelKeys) /\ ShownCounted(k) /\ relFiles[k].a \in Nat /\ relFiles[k].v \in Nat
  BY ReleaseCacheAssumption DEF FeedRest, ShownCounted, Stamps
<1>2. IsFiniteSet(Shown)
  <2>1. Shown \subseteq RelKeys \X Stamps
    BY DEF Shown, FeedRest, ShownCounted
  <2>2. IsFiniteSet(RelKeys \X Stamps)
    BY <1>1, StampsAreFinite, FS_Product
  <2> QED
    BY <2>1, <2>2, FS_Subset
<1>3. Began \subseteq Shown /\ Came \subseteq Shown /\ Began \cap Came = {}
  BY DEF Shown, FeedRest, ShownCounted
<1>4. IsFiniteSet(Began) /\ IsFiniteSet(Came) /\ Cardinality(Began \cup Came) <= Cardinality(Shown)
  BY <1>2, <1>3, FS_Subset
<1>5. Cardinality(RelKeys) <= Cardinality(Began)
  <2> DEFINE f == [x \in RelKeys |-> <<x, Nothing>>]
  <2>1. f \in Injection(RelKeys, Began)
    BY DEF Injection, IsInjective
  <2> HIDE DEF f, Began
  <2> QED
    BY <1>4, <2>1, FS_Injection
<1>6. Cardinality(S) <= Cardinality(Came)
  <2> DEFINE f == [x \in S |-> <<k, x>>]
  <2>1. f \in Injection(S, Came)
    BY DEF Injection, IsInjective
  <2> HIDE DEF f, Came, S
  <2> QED
    BY <1>4, <2>1, FS_Injection
<1>7. Cardinality(S) = Cardinality(relShown[k]) - 1
  BY <1>1, FS_RemoveElement DEF ShownCounted
<1>8. Cardinality(Began \cup Came) = Cardinality(Began) + Cardinality(Came)
  <2>1. Cardinality(Began \cap Came) = 0
    BY <1>3, FS_EmptySet
  <2>2. Cardinality(Began) \in Nat /\ Cardinality(Came) \in Nat
    BY <1>4, FS_CardinalityType
  <2> HIDE DEF Began, Came
  <2>3. Cardinality(Began \cup Came) = Cardinality(Began) + Cardinality(Came) - Cardinality(Began \cap Came)
    BY <1>4, FS_Union
  <2> QED
    BY <2>1, <2>2, <2>3
<1>9. /\ Cardinality(RelKeys) \in Nat /\ Cardinality(Began) \in Nat /\ Cardinality(Came) \in Nat
      /\ Cardinality(relShown[k]) \in Nat /\ Cardinality(Shown) \in Nat
  BY <1>1, <1>2, <1>4, FS_CardinalityType DEF ShownCounted
<1>10. relFiles[k].a + relFiles[k].v < Cardinality(relShown[k])
  BY <1>1 DEF ShownCounted
<1> HIDE DEF Began, Came, S
<1> QED
  BY <1>1, <1>2, <1>4, <1>5, <1>6, <1>7, <1>8, <1>9, <1>10

\* A publisher stays within its bound.
LEMMA PublishRest == ASSUME FeedInv, FeedRest, Publish PROVE FeedRest'
<1>1. PICK k \in RelKeys : \E new \in {[relFiles[k] EXCEPT !.a = @ + 1], [relFiles[k] EXCEPT !.v = @ + 1]} :
        /\ Cardinality(Shown) < Cardinality(RelKeys) + MaxReleases
        /\ relFiles' = [relFiles EXCEPT ![k] = new]
        /\ relShown' = [relShown EXCEPT ![k] = @ \cup {new}]
        /\ UNCHANGED <<relReads, relLoads, relCache>>
  BY DEF Publish, Shown
<1>2. PICK new \in {[relFiles[k] EXCEPT !.a = @ + 1], [relFiles[k] EXCEPT !.v = @ + 1]} :
        /\ Cardinality(Shown) < Cardinality(RelKeys) + MaxReleases
        /\ relFiles' = [relFiles EXCEPT ![k] = new]
        /\ relShown' = [relShown EXCEPT ![k] = @ \cup {new}]
        /\ UNCHANGED <<relReads, relLoads, relCache>>
  BY <1>1
<1> DEFINE a == relFiles[k].a
           v == relFiles[k].v
<1>3. ShownCounted(k) /\ relFiles[k] \in Stamps /\ MaxReleases \in Nat /\ a \in Nat /\ v \in Nat
  BY ReleaseCacheAssumption DEF FeedRest, ShownCounted, Stamps
<1>4. a + v < MaxReleases
  <2>1. IsFiniteSet(Shown) /\ Cardinality(RelKeys) + a + v <= Cardinality(Shown)
    BY ReplacementsCounted
  <2>2. Cardinality(RelKeys) \in Nat /\ Cardinality(Shown) \in Nat
    BY <2>1, ReleaseCacheAssumption, FS_CardinalityType
  <2> HIDE DEF a, v
  <2> QED
    BY <1>2, <1>3, <2>1, <2>2
<1>5. /\ new.a \in Nat /\ new.v \in Nat /\ new = [a |-> new.a, v |-> new.v]
      /\ \/ new.a = a + 1 /\ new.v = v
         \/ new.a = a /\ new.v = v + 1
  BY <1>3 DEF Stamps
<1>6. new \in Stamps
  <2>1. new.a \in 0 .. MaxReleases /\ new.v \in 0 .. MaxReleases
    <3> HIDE DEF a, v
    <3> QED
      BY <1>3, <1>4, <1>5
  <2> QED
    BY <1>5, <2>1 DEF Stamps
<1>7. relFiles'[k] = new /\ relShown'[k] = relShown[k] \cup {new}
      /\ \A f \in RelKeys : f # k => relFiles'[f] = relFiles[f] /\ relShown'[f] = relShown[f]
  BY <1>2 DEF FeedInv, FeedTypes
<1>8. ShownCounted(k)'
  <2>1. new \notin relShown[k]
    BY <1>3, <1>5 DEF ShownCounted
  <2>2. IsFiniteSet(relShown[k] \cup {new}) /\ Cardinality(relShown[k] \cup {new}) = Cardinality(relShown[k]) + 1
        /\ Cardinality(relShown[k]) \in Nat
    BY <1>3, <2>1, FS_AddElement, FS_CardinalityType DEF ShownCounted
  <2>3. a + v < Cardinality(relShown[k]) /\ relShown[k] \subseteq Stamps /\ Nothing \in relShown[k]
        /\ \A s \in relShown[k] : s.a <= a /\ s.v <= v
    BY <1>3 DEF ShownCounted
  <2>4. new.a + new.v < Cardinality(relShown[k] \cup {new})
    <3> HIDE DEF a, v
    <3> QED
      BY <1>3, <1>5, <2>2, <2>3
  <2>5. ASSUME NEW s \in relShown[k] \cup {new} PROVE s.a <= new.a /\ s.v <= new.v
    <3>1. CASE s = new
      BY <1>5, <3>1
    <3>2. CASE s \in relShown[k]
      <4>1. s.a \in Nat /\ s.v \in Nat /\ s.a <= a /\ s.v <= v
        BY <2>3, <3>2 DEF Stamps
      <4> HIDE DEF a, v
      <4> QED
        BY <1>3, <1>5, <4>1
    <3> QED
      BY <3>1, <3>2
  <2> QED
    BY <1>6, <1>7, <2>2, <2>3, <2>4, <2>5 DEF ShownCounted
<1>9. ASSUME NEW f \in RelKeys PROVE ShownCounted(f)'
  BY <1>7, <1>8 DEF FeedRest, ShownCounted
<1> QED
  BY <1>2, <1>9 DEF FeedRest

\* A request keeps its bounds when it goes on.
LEMMA ReadsGoOn ==
    ASSUME NEW q \in ReadRecords, ReadWithin(q), NEW f \in Stamps, NEW k, NEW g \in Stamps, NEW at, NEW what, NEW on
    PROVE  /\ ReadWithin([q EXCEPT !.at = at, !.key = k, !.stamp.a = f.a])
           /\ ReadWithin([q EXCEPT !.at = at, !.stamp.v = f.v])
           /\ ReadWithin([q EXCEPT !.at = at, !.answer = what])
           /\ ReadWithin([q EXCEPT !.at = at, !.answer = what, !.got = g])
           /\ ReadWithin([q EXCEPT !.at = at, !.on = on])
           /\ ReadWithin([q EXCEPT !.at = at])
           /\ ReadWithin(WaitsFor(q, on))
<1>1. q.stamp \in Stamps /\ q.got \in Stamps
  BY DEF ReadWithin
<1>2. ReadWithin([q EXCEPT !.at = at, !.key = k, !.stamp.a = f.a])
  BY <1>1 DEF ReadWithin, ReadRecords, Stamps
<1>3. ReadWithin([q EXCEPT !.at = at, !.stamp.v = f.v])
  BY <1>1 DEF ReadWithin, ReadRecords, Stamps
<1>4. ReadWithin([q EXCEPT !.at = at, !.answer = what, !.got = g])
  BY <1>1 DEF ReadWithin, ReadRecords
<1>5. /\ ReadWithin([q EXCEPT !.at = at, !.answer = what])
      /\ ReadWithin([q EXCEPT !.at = at, !.on = on])
      /\ ReadWithin([q EXCEPT !.at = at])
      /\ ReadWithin(WaitsFor(q, on))
  BY <1>1 DEF ReadWithin, ReadRecords, WaitsFor
<1> QED
  BY <1>2, <1>3, <1>4, <1>5

\* A load keeps its bounds when it goes on.
LEMMA LoadsGoOn ==
    ASSUME NEW l \in LoadRecords, LoadWithin(l), NEW f \in Replacements, NEW u
    PROVE  /\ LoadWithin([l EXCEPT !.at = "artifact", !.hashed = f])
           /\ LoadWithin([l EXCEPT !.at = "version", !.seen = f])
           /\ \A e : LoadWithin([l EXCEPT !.at = "finish", !.err = e])
           /\ LoadWithin([l EXCEPT !.at = "ready", !.waiters = 0])
           /\ LoadWithin([l EXCEPT !.used = u])
           /\ l.at \notin {"none", "ready"} => LoadWithin(JoinedLoad(l, u)) /\ LoadWithin(LeftLoad(l))
<1>1. /\ l.stamp \in Stamps /\ l.hashed \in Replacements /\ l.seen \in Replacements
      /\ l.at \in {"none", "ready"} => l.waiters = 0
  BY DEF LoadWithin
<1>2. LoadWithin([l EXCEPT !.at = "artifact", !.hashed = f])
  BY <1>1 DEF LoadWithin, LoadRecords
<1>3. LoadWithin([l EXCEPT !.at = "version", !.seen = f])
  BY <1>1 DEF LoadWithin, LoadRecords
<1>4. ASSUME NEW e PROVE LoadWithin([l EXCEPT !.at = "finish", !.err = e])
  BY <1>1 DEF LoadWithin, LoadRecords
<1>5. LoadWithin([l EXCEPT !.at = "ready", !.waiters = 0])
  BY <1>1 DEF LoadWithin, LoadRecords
<1>6. LoadWithin([l EXCEPT !.used = u])
  BY <1>1 DEF LoadWithin, LoadRecords
<1>7. ASSUME l.at \notin {"none", "ready"} PROVE LoadWithin(JoinedLoad(l, u)) /\ LoadWithin(LeftLoad(l))
  <2>1. /\ JoinedLoad(l, u).at = l.at /\ JoinedLoad(l, u).stamp = l.stamp
        /\ JoinedLoad(l, u).hashed = l.hashed /\ JoinedLoad(l, u).seen = l.seen
    BY DEF JoinedLoad, LoadRecords
  <2>2. /\ LeftLoad(l).at = l.at /\ LeftLoad(l).stamp = l.stamp
        /\ LeftLoad(l).hashed = l.hashed /\ LeftLoad(l).seen = l.seen
    BY DEF LeftLoad, LoadRecords
  <2> QED
    BY <1>1, <1>7, <2>1, <2>2 DEF LoadWithin
<1> QED
  BY <1>2, <1>3, <1>4, <1>5, <1>6, <1>7

\* A load that begins.
LEMMA LoadBegins ==
    ASSUME NEW q \in ReadRecords, ReadWithin(q), NEW u
    PROVE  LoadWithin(NewLoad(q, u))
<1>1. 0 \in Replacements /\ q.stamp \in Stamps
  BY ReleaseCacheAssumption DEF Replacements, ReadWithin
<1> DEFINE n == NewLoad(q, u)
<1>2. n.stamp = q.stamp /\ n.hashed = 0 /\ n.seen = 0 /\ n.at = "hash"
  BY DEF NewLoad, NoLoad
<1> QED
  BY <1>1, <1>2 DEF LoadWithin

\* The files of one release, as far as the rest is concerned.
LEMMA FilesWithin ==
    ASSUME FeedInv, FeedRest
    PROVE  /\ \A k \in RelKeys : relFiles[k] \in Stamps /\ relFiles[k].a \in Replacements /\ relFiles[k].v \in Replacements
           /\ \A r \in RelReaders : relReads[r] \in ReadRecords /\ ReadWithin(relReads[r])
           /\ \A m \in RelReaders : relLoads[m] \in LoadRecords /\ LoadWithin(relLoads[m])
  BY DEF FeedInv, FeedTypes, FeedRest, ShownCounted, Stamps, Replacements

\* A step of requests and loads leaves the files alone.
LEMMA RecordsRest ==
    ASSUME FeedRest, UNCHANGED <<relFiles, relShown>>,
           \A r \in RelReaders : ReadWithin(relReads'[r]),
           \A m \in RelReaders : LoadWithin(relLoads'[m])
    PROVE  FeedRest'
<1>1. \A k \in RelKeys : ShownCounted(k)'
  BY DEF FeedRest, ShownCounted
<1>2. \A r \in RelReaders : ReadWithin(relReads[r])'
  BY DEF ReadWithin
<1>3. \A m \in RelReaders : LoadWithin(relLoads[m])'
  BY DEF LoadWithin
<1> QED
  BY <1>1, <1>2, <1>3 DEF FeedRest

\* One request goes on, and the others wait.
LEMMA OneGoesOn ==
    ASSUME FeedInv, FeedRest, NEW r \in RelReaders, NEW w, relReads' = [relReads EXCEPT ![r] = w], ReadWithin(w)
    PROVE  \A s \in RelReaders : ReadWithin(relReads'[s])
  BY DEF FeedInv, FeedTypes, FeedRest

\* The same for a load.
LEMMA OneLoadGoesOn ==
    ASSUME FeedInv, FeedRest, NEW m \in RelReaders, NEW l, relLoads' = [relLoads EXCEPT ![m] = l], LoadWithin(l)
    PROVE  \A n \in RelReaders : LoadWithin(relLoads'[n])
  BY DEF FeedInv, FeedTypes, FeedRest

\* A request.
LEMMA ReadRest == ASSUME FeedInv, FeedRest, NEW r \in RelReaders, ReadStep(r) PROVE FeedRest'
<1>1. PICK q \in ReadRecords : q = relReads[r]
  BY FilesWithin
<1>2. ReadWithin(q) /\ ReadTrue(q) /\ WaitTrue(q) /\ q.stamp \in Stamps /\ Nothing \in Stamps
  BY <1>1, FilesWithin, StampsAreFinite DEF FeedInv, ReadWithin
<1>3. UNCHANGED <<relFiles, relShown>>
  BY DEF ReadStep, ReleaseManifest, ReleaseManifestInputs, CacheGet, TryAgain, CacheWait, WaitCancelled
<1>4. ASSUME NEW w, relReads' = [relReads EXCEPT ![r] = w], ReadWithin(w),
             \A m \in RelReaders : LoadWithin(relLoads'[m])
      PROVE  FeedRest'
  BY <1>3, <1>4, OneGoesOn, RecordsRest
<1>5. ASSUME relLoads' = relLoads PROVE \A m \in RelReaders : LoadWithin(relLoads'[m])
  BY <1>5, FilesWithin
<1>6. ASSUME NEW what, Says(r, what), \A m \in RelReaders : LoadWithin(relLoads'[m]) PROVE FeedRest'
  <2>1. ReadWithin([q EXCEPT !.at = "over", !.answer = what])
    BY <1>2, ReadsGoOn
  <2> QED
    BY <1>1, <1>4, <1>6, <2>1 DEF Says
<1>7. CASE ReleaseManifest(r)
  <2>1. relLoads' = relLoads
    BY <1>7 DEF ReleaseManifest
  <2>2. ASSUME NEW k \in RelKeys,
               relReads' = [relReads EXCEPT ![r] = [@ EXCEPT !.at = "version", !.key = k, !.stamp.a = relFiles[k].a]]
        PROVE  FeedRest'
    <3> DEFINE w == [q EXCEPT !.at = "version", !.key = k, !.stamp.a = relFiles[k].a]
    <3>1. relReads' = [relReads EXCEPT ![r] = w]
      BY <1>1, <2>2
    <3>2. PICK f \in Stamps : f = relFiles[k]
      BY FilesWithin
    <3>3. ReadWithin([q EXCEPT !.at = "version", !.key = k, !.stamp.a = f.a])
      BY <1>2, ReadsGoOn
    <3>4. ReadWithin(w)
      BY <3>2, <3>3
    <3> HIDE DEF w
    <3> QED
      BY <1>4, <1>5, <2>1, <3>1, <3>4
  <2> QED
    BY <1>5, <1>6, <1>7, <2>1, <2>2 DEF ReleaseManifest
<1>8. CASE relReads[r].at = "version" /\ ReleaseManifestInputs(r)
  <2>1. relLoads' = relLoads
    BY <1>8 DEF ReleaseManifestInputs
  <2>2. ASSUME relReads' = [relReads EXCEPT ![r] = [@ EXCEPT !.at = "get", !.stamp.v = relFiles[relReads[r].key].v]]
        PROVE  FeedRest'
    <3> DEFINE w == [q EXCEPT !.at = "get", !.stamp.v = relFiles[q.key].v]
    <3>1. relReads' = [relReads EXCEPT ![r] = w]
      BY <1>1, <2>2
    <3>2. PICK f \in Stamps : f = relFiles[q.key]
      BY <1>1, <1>2, <1>8, FilesWithin DEF ReadTrue
    <3>3. ReadWithin([q EXCEPT !.at = "get", !.stamp.v = f.v])
      BY <1>2, ReadsGoOn
    <3>4. ReadWithin(w)
      BY <3>2, <3>3
    <3> HIDE DEF w
    <3> QED
      BY <1>4, <1>5, <2>1, <3>1, <3>4
  <2> QED
    BY <1>5, <1>6, <1>8, <2>1, <2>2 DEF ReleaseManifestInputs
<1>9. CASE relReads[r].at = "get" /\ GetEntry(r)
  <2>1. PICK k \in RelKeys : k = q.key
    BY <1>1, <1>2, <1>9 DEF ReadTrue
  <2>2. PICK m \in RelReaders : m = relCache.entries[k] /\ m # NoEntry
    BY <1>1, <1>9, <2>1 DEF GetEntry, FeedInv, FeedTypes
  <2>3. PICK l \in LoadRecords : l = relLoads[m]
    BY FilesWithin
  <2>4. LoadWithin(l) /\ EntryTrue(k) /\ l.at # "none"
    BY <2>2, <2>3, FilesWithin DEF FeedInv, EntryTrue
  <2>5. CASE /\ relLoads' = [relLoads EXCEPT ![m].used = relCache.clock + 1]
             /\ relReads' = [relReads EXCEPT ![r] = [@ EXCEPT !.at = "over", !.answer = "manifest",
                                                              !.got = [a |-> relLoads[m].hashed, v |-> q.stamp.v]]]
    <3> DEFINE g == [a |-> l.hashed, v |-> q.stamp.v]
               w == [q EXCEPT !.at = "over", !.answer = "manifest", !.got = g]
               n == [l EXCEPT !.used = relCache.clock + 1]
    <3>1. g \in Stamps
      BY <1>2, <2>4 DEF Stamps, LoadWithin, Replacements
    <3>2. relReads' = [relReads EXCEPT ![r] = w] /\ relLoads' = [relLoads EXCEPT ![m] = n]
      BY <1>1, <2>3, <2>5
    <3> HIDE DEF g
    <3>3. ReadWithin(w)
      BY <1>2, <3>1, ReadsGoOn
    <3>4. 0 \in Replacements
      BY ReleaseCacheAssumption DEF Replacements
    <3>5. LoadWithin(n)
      BY <2>4, <3>4, LoadsGoOn
    <3> HIDE DEF w, n
    <3> QED
      BY <1>4, <3>2, <3>3, <3>5, OneLoadGoesOn
  <2>6. CASE /\ Loading(k)
             /\ relLoads' = [relLoads EXCEPT ![m] = JoinedLoad(@, relCache.clock + 1)]
             /\ relReads' = [relReads EXCEPT ![r] = WaitsFor(@, m)]
    <3> DEFINE w == WaitsFor(q, m)
               n == JoinedLoad(l, relCache.clock + 1)
    <3>1. relReads' = [relReads EXCEPT ![r] = w] /\ relLoads' = [relLoads EXCEPT ![m] = n]
      BY <1>1, <2>3, <2>6
    <3>2. l.at \notin {"none", "ready"}
      BY <2>2, <2>3, <2>4, <2>6 DEF Loading
    <3>3. 0 \in Replacements
      BY ReleaseCacheAssumption DEF Replacements
    <3>4. LoadWithin(n)
      BY <2>4, <3>2, <3>3, LoadsGoOn
    <3>5. ReadWithin(w)
      BY <1>2, ReadsGoOn
    <3> HIDE DEF w, n
    <3> QED
      BY <1>4, <3>1, <3>4, <3>5, OneLoadGoesOn
  <2> QED
    BY <1>1, <1>9, <2>1, <2>2, <2>5, <2>6 DEF GetEntry
<1>10. CASE NewEntry(r)
  <2> DEFINE n == NewLoad(q, relCache.clock + 1)
             w == WaitsFor(q, r)
  <2>1. relLoads' = [relLoads EXCEPT ![r] = n] /\ relReads' = [relReads EXCEPT ![r] = w]
    BY <1>1, <1>10 DEF NewEntry
  <2>2. LoadWithin(n)
    BY <1>2, LoadBegins
  <2>3. ReadWithin(w)
    BY <1>2, ReadsGoOn
  <2> HIDE DEF n, w
  <2> QED
    BY <1>4, <2>1, <2>2, <2>3, OneLoadGoesOn
<1>11. CASE AllLoading(r)
  <2>1. PICK c \in Cached : relReads' = [relReads EXCEPT ![r] = [@ EXCEPT !.at = "full", !.on = relCache.entries[c]]]
    BY <1>11 DEF AllLoading
  <2>2. ReadWithin([q EXCEPT !.at = "full", !.on = relCache.entries[c]])
    BY <1>2, ReadsGoOn
  <2> QED
    BY <1>1, <1>4, <1>5, <1>11, <2>1, <2>2 DEF AllLoading
<1>12. CASE TryAgain(r)
  <2>1. ReadWithin([q EXCEPT !.at = "get"])
    BY <1>2, ReadsGoOn
  <2>2. relReads' = [relReads EXCEPT ![r] = [q EXCEPT !.at = "get"]] /\ relLoads' = relLoads
    BY <1>1, <1>12 DEF TryAgain, RGoes
  <2> QED
    BY <1>4, <1>5, <2>1, <2>2
<1>13. CASE relReads[r].at = "wait" /\ CacheWait(r)
  <2>1. PICK m \in RelReaders : m = relReads[r].on
    BY <1>1, <1>2, <1>13 DEF ReadTrue
  <2>2. PICK l \in LoadRecords : l = relLoads[m] /\ LoadWithin(l)
    BY FilesWithin
  <2> DEFINE g == [a |-> l.hashed, v |-> l.stamp.v]
             says == IF l.err = NoEntry THEN "manifest" ELSE l.err
             w == [q EXCEPT !.at = "over", !.answer = says, !.got = g]
  <2>3. relReads' = [relReads EXCEPT ![r] = w] /\ relLoads' = relLoads
    BY <1>1, <1>13, <2>1, <2>2 DEF CacheWait
  <2>4. g \in Stamps
    BY <2>2 DEF LoadWithin, Stamps, Replacements
  <2> HIDE DEF g, says
  <2>5. ReadWithin(w)
    BY <1>2, <2>4, ReadsGoOn
  <2> HIDE DEF w
  <2> QED
    BY <1>4, <1>5, <2>3, <2>5
<1>14. CASE relReads[r].at \in {"full", "wait"} /\ WaitCancelled(r)
  <2>1. PICK m \in RelReaders : m = relReads[r].on
    BY <1>1, <1>2, <1>14 DEF ReadTrue
  <2>2. PICK l \in LoadRecords : l = relLoads[m] /\ LoadWithin(l)
    BY FilesWithin
  <2>3. Says(r, "own")
    BY <1>14 DEF WaitCancelled
  <2>4. CASE relLoads' = relLoads
    BY <1>5, <1>6, <2>3, <2>4
  <2>5. CASE /\ relReads[r].at = "wait" /\ relLoads[m].at # "ready"
             /\ relLoads' = [relLoads EXCEPT ![m] = LeftLoad(@)]
    <3> DEFINE n == LeftLoad(l)
    <3>1. l.at \notin {"none", "ready"}
      BY <1>1, <1>2, <2>1, <2>2, <2>5 DEF WaitTrue
    <3>2. 0 \in Replacements
      BY ReleaseCacheAssumption DEF Replacements
    <3>3. LoadWithin(n)
      BY <2>2, <3>1, <3>2, LoadsGoOn
    <3>4. relLoads' = [relLoads EXCEPT ![m] = n]
      BY <2>2, <2>5
    <3> HIDE DEF n
    <3> QED
      BY <1>6, <2>3, <3>3, <3>4, OneLoadGoesOn
  <2> QED
    BY <1>14, <2>1, <2>4, <2>5 DEF WaitCancelled
<1> QED
  BY <1>7, <1>8, <1>9, <1>10, <1>11, <1>12, <1>13, <1>14 DEF ReadStep, CacheGet

\* A load.
LEMMA LoadRest == ASSUME FeedInv, FeedRest, NEW m \in RelReaders, LoadStep(m) PROVE FeedRest'
<1>1. PICK l \in LoadRecords : l = relLoads[m] /\ LoadWithin(l) /\ LoadTrue(l) /\ l.at # "none"
  BY FilesWithin DEF FeedInv, LoadStep
<1>2. l.key \in RelKeys
  BY <1>1 DEF LoadTrue
<1>3. PICK a \in Replacements : a = relFiles[l.key].a
  BY <1>2, FilesWithin
<1>4. UNCHANGED <<relFiles, relShown, relReads>>
  BY DEF LoadStep, FileSHA256Context, InspectReleaseFile, SignManifest, CacheLoad, LoadGoes
<1>5. ASSUME NEW n, relLoads' = [relLoads EXCEPT ![m] = n], LoadWithin(n) PROVE FeedRest'
  <2>1. \A r \in RelReaders : ReadWithin(relReads'[r])
    BY <1>4, FilesWithin
  <2> QED
    BY <1>4, <1>5, <2>1, OneLoadGoesOn, RecordsRest
<1>6. ASSUME NEW e, relLoads' = [relLoads EXCEPT ![m] = [relLoads[m] EXCEPT !.at = "finish", !.err = e]] PROVE FeedRest'
  <2>1. LoadWithin([l EXCEPT !.at = "finish", !.err = e])
    BY <1>1, <1>3, LoadsGoOn
  <2> QED
    BY <1>1, <1>5, <1>6, <2>1
<1>7. CASE FileSHA256Context(m)
  <2>1. LoadWithin([l EXCEPT !.at = "artifact", !.hashed = a])
    BY <1>1, LoadsGoOn
  <2> QED
    BY <1>1, <1>3, <1>5, <1>6, <1>7, <2>1 DEF FileSHA256Context, LoadGoes
<1>8. CASE InspectReleaseFile(m)
  <2>1. LoadWithin([l EXCEPT !.at = "version", !.seen = a])
    BY <1>1, LoadsGoOn
  <2> QED
    BY <1>1, <1>3, <1>5, <1>8, <2>1 DEF InspectReleaseFile, LoadGoes
<1>9. CASE SignManifest(m)
  BY <1>6, <1>9 DEF SignManifest, LoadGoes
<1>10. CASE CacheLoad(m)
  <2>1. LoadWithin([l EXCEPT !.at = "ready", !.waiters = 0])
    BY <1>1, <1>3, LoadsGoOn
  <2> QED
    BY <1>1, <1>5, <1>10, <2>1 DEF CacheLoad
<1> QED
  BY <1>7, <1>8, <1>9, <1>10 DEF LoadStep

\* The types of the feed.
LEMMA FeedTypedIs ==
    /\ ReleaseCacheInit => FeedTyped
    /\ FeedTyped /\ [ReleaseCacheNext]_relCacheVars => FeedTyped'
    /\ FeedTyped => ReleaseCacheTypeOK
<1>1. ASSUME ReleaseCacheInit PROVE FeedTyped
  <2>1. FeedInv /\ Nothing \in Stamps /\ 0 \in Replacements
    BY <1>1, FeedInitInv, StampsAreFinite, ReleaseCacheAssumption DEF Replacements
  <2>2. IsFiniteSet({Nothing}) /\ Cardinality({Nothing}) = 1 /\ Nothing.a = 0 /\ Nothing.v = 0
    BY FS_Singleton DEF Nothing
  <2>3. \A k \in RelKeys : ShownCounted(k)
    <3>1. ASSUME NEW k \in RelKeys PROVE ShownCounted(k)
      <4>1. relFiles[k] = Nothing /\ relShown[k] = {Nothing}
        BY <1>1 DEF ReleaseCacheInit
      <4> QED
        BY <2>1, <2>2, <4>1 DEF ShownCounted
    <3> QED
      BY <3>1
  <2>4. NoRead.stamp = Nothing /\ NoRead.got = Nothing
    BY DEF NoRead
  <2>5. /\ NoLoad.stamp = Nothing /\ NoLoad.hashed = 0 /\ NoLoad.seen = 0 /\ NoLoad.waiters = 0
    BY DEF NoLoad
  <2>6. FeedRest
    BY <1>1, <2>1, <2>3, <2>4, <2>5 DEF ReleaseCacheInit, FeedRest, ReadWithin, LoadWithin
  <2> QED
    BY <2>1, <2>6 DEF FeedTyped
<1>2. ASSUME FeedTyped, [ReleaseCacheNext]_relCacheVars PROVE FeedTyped'
  <2>1. FeedInv' /\ FeedInv /\ FeedRest
    BY <1>2, FeedStep DEF FeedTyped
  <2>2. CASE UNCHANGED relCacheVars
    BY <2>1, <2>2 DEF relCacheVars, FeedTyped, FeedRest, ShownCounted
  <2> QED
    BY <1>2, <2>1, <2>2, PublishRest, ReadRest, LoadRest DEF ReleaseCacheNext, FeedTyped
<1>3. ASSUME FeedTyped PROVE ReleaseCacheTypeOK
  <2>1. FeedTypes /\ \A k \in RelKeys : relFiles[k] \in Stamps /\ relShown[k] \subseteq Stamps
    BY <1>3 DEF FeedTyped, FeedInv, FeedRest, ShownCounted
  <2>2. relFiles \in [RelKeys -> Stamps] /\ relShown \in [RelKeys -> SUBSET Stamps]
    BY <2>1 DEF FeedTypes
  <2>3. ASSUME NEW r \in RelReaders
        PROVE  relReads[r] \in [at : {"none", "version", "get", "full", "wait", "over"},
                        key : RelKeys \cup {NoEntry}, stamp : Stamps, on : RelReaders \cup {NoEntry},
                        answer : {NoEntry, "manifest", "failed", "canceled", "own"}, got : Stamps]
    <3>1. PICK q \in ReadRecords : q = relReads[r]
      BY <2>1 DEF FeedTypes
    <3>2. q.stamp \in Stamps /\ q.got \in Stamps
      BY <1>3, <3>1 DEF FeedTyped, FeedRest, ReadWithin
    <3> QED
      BY <3>1, <3>2 DEF ReadRecords
  <2>4. ASSUME NEW m \in RelReaders
        PROVE  relLoads[m] \in [at : LoadAts, key : RelKeys \cup {NoEntry}, stamp : Stamps,
                        hashed : 0 .. MaxReleases, seen : 0 .. MaxReleases,
                        waiters : 0 .. Cardinality(RelReaders), cancelled : BOOLEAN,
                        err : {NoEntry, "failed", "canceled"}, used : Nat]
    <3>1. PICK l \in LoadRecords : l = relLoads[m]
      BY <2>1 DEF FeedTypes
    <3>2. LoadWithin(l) /\ WaitersCounted(m)
      BY <1>3, <3>1 DEF FeedTyped, FeedRest, FeedInv
    <3>3. l.waiters \in 0 .. Cardinality(RelReaders)
      <4>1. WaitersOf(m) \subseteq RelReaders /\ IsFiniteSet(RelReaders)
        BY ReleaseCacheAssumption DEF WaitersOf
      <4>2. /\ Cardinality(WaitersOf(m)) \in Nat /\ Cardinality(RelReaders) \in Nat
            /\ Cardinality(WaitersOf(m)) <= Cardinality(RelReaders)
        BY <4>1, FS_Subset, FS_CardinalityType
      <4>3. l.waiters = 0 \/ l.waiters = Cardinality(WaitersOf(m))
        BY <3>1, <3>2 DEF LoadWithin, WaitersCounted
      <4> QED
        BY <4>2, <4>3
    <3>4. l.stamp \in Stamps /\ l.hashed \in 0 .. MaxReleases /\ l.seen \in 0 .. MaxReleases
      BY <3>2 DEF LoadWithin, Replacements
    <3> QED
      BY <3>1, <3>3, <3>4 DEF LoadRecords
  <2>5. relReads \in [RelReaders -> ReadRecords] /\ relLoads \in [RelReaders -> LoadRecords]
        /\ relCache \in [entries : [RelKeys -> RelReaders \cup {NoEntry}], clock : Nat]
    BY <2>1 DEF FeedTypes
  <2> QED
    BY <2>2, <2>3, <2>4, <2>5 DEF ReleaseCacheTypeOK
<1> QED
  BY <1>1, <1>2, <1>3

-----------------------------------------------------------------------------
(***************************************************************************)
(* The parts of the Hub in one behaviour.  hubPart names the part that     *)
(* runs; it keeps its own invariant, and the others stay as they began.    *)
(***************************************************************************)
HubTypesInv ==
    /\ hubPart = "results" => ResInv
    /\ hubPart = "oauth" => OAuthInv
    /\ hubPart = "setup" => SetupTypeOK
    /\ hubPart \in {"logins", "secrets"} => AcctTyped
    /\ hubPart \in CloudParts => CompletionInv
    /\ hubPart = "backup" => BackupTyped
    /\ hubPart = "staging" => StageTyped
    /\ hubPart = "relay" => RelayInv
    /\ hubPart = "releases" => FeedTyped

\* The parts of the Hub have different names.
LEMMA PartsDiffer ==
    /\ \A p \in CloudParts : p \notin {"results", "oauth", "setup", "logins", "secrets", "backup",
                                       "staging", "relay", "releases"}
    /\ \A p \in {"logins", "secrets"} : p \notin {"results", "oauth", "setup", "backup", "staging",
                                                  "relay", "releases"}
  BY DEF CloudParts

\* Every part begins with its invariant.
LEMMA HubTypesFirst == HubInit => HubTypesInv
  BY ResInitInv, OAuthInitInv, SetupTyped, AcctTypedIs, CompletionFirst, BackupTypedIs, StageTypedIs,
     RelayStart, FeedTypedIs DEF HubInit, HubTypesInv

\* A step of the results.
LEMMA ResStep == ResInv /\ [ResNext]_resVars => ResInv'
  BY PublishBeginKeeps, CallKeeps, OthersKeep DEF ResNext

\* A step of the part that runs keeps its invariant.
LEMMA HubTypesStep == HubTypesInv /\ [HubNext]_<<hubPart, hubVars>> => HubTypesInv'
  <1> SUFFICES ASSUME HubTypesInv, [HubNext]_<<hubPart, hubVars>> PROVE HubTypesInv'
    OBVIOUS
  <1>1. UNCHANGED hubPart
    BY DEF HubNext
  <1>2. /\ hubPart = "results" => [ResNext]_resVars
        /\ hubPart = "oauth" => [OAuthNext]_oauthVars
        /\ hubPart = "setup" => [SetupNext]_setupVars
        /\ hubPart \in {"logins", "secrets"} => [AcctNext]_acctVars
        /\ hubPart \in CloudParts => [CompletionNext]_ccVars
        /\ hubPart = "backup" => [BackupNext]_bkVars
        /\ hubPart = "staging" => [StagingNext]_stagingVars
        /\ hubPart = "relay" => [RelayNext]_relayVars
        /\ hubPart = "releases" => [ReleaseCacheNext]_relCacheVars
    <2>1. CASE HubNext
      BY <2>1, PartsDiffer DEF HubNext
    <2>2. CASE UNCHANGED <<hubPart, hubVars>>
      BY <2>2 DEF hubVars
    <2> QED
      BY <2>1, <2>2
  <1>3. /\ hubPart = "results" => ResInv'
        /\ hubPart = "oauth" => OAuthInv'
        /\ hubPart = "setup" => SetupTypeOK'
        /\ hubPart \in {"logins", "secrets"} => AcctTyped'
    BY <1>2, ResStep, OAuthStep, SetupTyped, AcctTypedIs DEF HubTypesInv
  <1>4. hubPart \in CloudParts => CompletionInv'
    BY <1>2, CompletionStepKeeps DEF HubTypesInv
  <1>5. /\ hubPart = "backup" => BackupTyped'
        /\ hubPart = "staging" => StageTyped'
        /\ hubPart = "relay" => RelayInv'
        /\ hubPart = "releases" => FeedTyped'
    BY <1>2, BackupTypedIs, StageTypedIs, RelaySteps, FeedTypedIs DEF HubTypesInv
  <1> QED
    BY <1>1, <1>3, <1>4, <1>5 DEF HubTypesInv, CloudParts

\* What is known of a document, and of the completions, says its types.
LEMMA CloudTypes == CompletionInv => CloudTypeOK /\ CompletionTypeOK
  <1> SUFFICES ASSUME CompletionInv PROVE CloudTypeOK /\ CompletionTypeOK
    OBVIOUS
  <1>1. doc \in Docs /\ creq \in [Callers -> CloudRequests]
    BY DEF CompletionInv, CloudInv, DocTrue
  <1>2. prompts \in [Keys -> Nat]
    BY DEF CompletionInv, CloudInv
  <1> QED
    BY <1>1, <1>2 DEF CloudTypeOK, CloudRequests, CompletionInv, CompletionTypes, CompletionTypeOK,
                      RowRecords, AckRecords

\* Type correctness of the parts of the Hub, whichever of them runs.
THEOREM HubStaysTyped == HubSpec => []HubTypeOK
  <1>1. ResInv => ResTypeOK
    BY DEF ResInv
  <1>2. OAuthInv => OAuthTypeOK
    BY DEF OAuthInv
  <1>3. HubTypesInv => HubTypeOK
    BY <1>1, <1>2, AcctTypedIs, CloudTypes, BackupTypedIs, StageTypedIs, RelayTypes, FeedTypedIs
       DEF HubTypesInv, HubTypeOK
  <1> QED
    BY <1>3, HubTypesFirst, HubTypesStep, PTL DEF HubSpec
================================================================================
