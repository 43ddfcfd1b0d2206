----------------------------- MODULE ReleaseCache -----------------------------
(***************************************************************************)
(* The signed release manifests of the Hub                                 *)
(* (src/internal/hub/server/releases.go): a manifest is hashed once for    *)
(* all who ask, kept while the stamps of its two files stay the same, and  *)
(* its generation is given up when the last of those who wait goes away.   *)
(*                                                                         *)
(* A version of a file is its stamp: size, time and identity together.     *)
(***************************************************************************)
EXTENDS Naturals, FiniteSets

CONSTANTS
    RelReaders,   \* requests for a manifest
    RelKeys,      \* releases: kind, id and platform
    MaxManifests, \* maxReleaseManifestCache
    MaxReleases,  \* bound: replacements of files
    RelFaults     \* "io": a file cannot be read

ASSUME ReleaseCacheAssumption ==
    /\ MaxManifests \in Nat \ {0} /\ MaxReleases \in Nat /\ RelFaults \subseteq {"io"}
    /\ IsFiniteSet(RelReaders) /\ IsFiniteSet(RelKeys) /\ "none" \notin RelReaders

VARIABLES
    relFiles,  \* by release: the stamps of the artifact and of version.txt
    relShown,  \* the pairs that stood on disk together
    relReads,  \* releaseManifest, by request
    relLoads,  \* releaseManifestCacheEntry and its load, by the request that made it
    relCache   \* entries: the maker of the entry of each release, and the uses in order

relCacheVars == <<relFiles, relShown, relReads, relLoads, relCache>>

Stamps == [a : 0 .. MaxReleases, v : 0 .. MaxReleases]
Nothing == [a |-> 0, v |-> 0]
NoEntry == "none"
NoRead == [at |-> "none", key |-> NoEntry, stamp |-> Nothing, on |-> NoEntry, answer |-> NoEntry,
           got |-> Nothing]
NoLoad == [at |-> "none", key |-> NoEntry, stamp |-> Nothing, hashed |-> 0, seen |-> 0, waiters |-> 0,
           cancelled |-> FALSE, err |-> NoEntry, used |-> 0]
LoadAts == {"none", "hash", "artifact", "version", "finish", "ready"}

ReleaseCacheTypeOK ==
    /\ relFiles \in [RelKeys -> Stamps] /\ relShown \in [RelKeys -> SUBSET Stamps]
    /\ relReads \in [RelReaders -> [at : {"none", "version", "get", "full", "wait", "over"},
                        key : RelKeys \cup {NoEntry}, stamp : Stamps, on : RelReaders \cup {NoEntry},
                        answer : {NoEntry, "manifest", "failed", "canceled", "own"}, got : Stamps]]
    /\ relLoads \in [RelReaders -> [at : LoadAts, key : RelKeys \cup {NoEntry}, stamp : Stamps,
                        hashed : 0 .. MaxReleases, seen : 0 .. MaxReleases,
                        waiters : 0 .. Cardinality(RelReaders), cancelled : BOOLEAN,
                        err : {NoEntry, "failed", "canceled"}, used : Nat]]
    /\ relCache \in [entries : [RelKeys -> RelReaders \cup {NoEntry}], clock : Nat]

ReleaseCacheInit ==
    /\ relFiles = [k \in RelKeys |-> Nothing] /\ relShown = [k \in RelKeys |-> {Nothing}]
    /\ relReads = [r \in RelReaders |-> NoRead] /\ relLoads = [r \in RelReaders |-> NoLoad]
    /\ relCache = [entries |-> [k \in RelKeys |-> NoEntry], clock |-> 0]

Cached == {k \in RelKeys : relCache.entries[k] # NoEntry}
Loading(k) == relLoads[relCache.entries[k]].at # "ready"
RGoes(r, at) == relReads' = [relReads EXCEPT ![r].at = at]
Says(r, what) == relReads' = [relReads EXCEPT ![r] = [@ EXCEPT !.at = "over", !.answer = what]]
Forget(k) == [relCache EXCEPT !.entries[k] = NoEntry]

----------------------------------------------------------------------------
\* A publisher replaces one file by a rename.
Publish ==
    \E k \in RelKeys : \E new \in {[relFiles[k] EXCEPT !.a = @ + 1], [relFiles[k] EXCEPT !.v = @ + 1]} :
        /\ Cardinality(UNION {{<<f, s>> : s \in relShown[f]} : f \in RelKeys})
               < Cardinality(RelKeys) + MaxReleases
        /\ relFiles' = [relFiles EXCEPT ![k] = new]
        /\ relShown' = [relShown EXCEPT ![k] = @ \cup {new}]
        /\ UNCHANGED <<relReads, relLoads, relCache>>

\* releaseManifestInputs: the stamp of the artifact first ...
ReleaseManifest(r) ==
    /\ \E k \in RelKeys :
           \/ relReads' = [relReads EXCEPT ![r] = [@ EXCEPT !.at = "version", !.key = k,
                                                            !.stamp.a = relFiles[k].a]]
           \/ "io" \in RelFaults /\ Says(r, "failed")
    /\ UNCHANGED <<relFiles, relShown, relLoads, relCache>>

\* ... then version.txt, opened once and read with its stamp.
ReleaseManifestInputs(r) ==
    /\ \/ relReads' = [relReads EXCEPT ![r] = [@ EXCEPT !.at = "get",
                                                        !.stamp.v = relFiles[relReads[r].key].v]]
       \/ "io" \in RelFaults /\ Says(r, "failed")
    /\ UNCHANGED <<relFiles, relShown, relLoads, relCache>>

----------------------------------------------------------------------------
\* get: one critical section.

\* A generation that begins, that one more waits for, that one leaves; and a
\* request that begins to wait.
NewLoad(q, now) == [NoLoad EXCEPT !.at = "hash", !.key = q.key, !.stamp = q.stamp, !.waiters = 1, !.used = now]
JoinedLoad(l, now) == [l EXCEPT !.used = now, !.waiters = @ + 1]
LeftLoad(l) == [l EXCEPT !.waiters = @ - 1, !.cancelled = (l.waiters = 1)]
WaitsFor(q, m) == [q EXCEPT !.at = "wait", !.on = m]

\* The entry has the stamp asked for: its result, or a place among its waiters.
GetEntry(r) ==
    LET q == relReads[r]  k == q.key  m == relCache.entries[k]
    IN  /\ m # NoEntry /\ relLoads[m].stamp = q.stamp
        /\ relCache' = [relCache EXCEPT !.clock = @ + 1]
        /\ \/ /\ ~Loading(k)
              /\ relLoads' = [relLoads EXCEPT ![m].used = relCache.clock + 1]
              /\ relReads' = [relReads EXCEPT ![r] = [@ EXCEPT !.at = "over", !.answer = "manifest",
                                                               !.got = [a |-> relLoads[m].hashed, v |-> q.stamp.v]]]
           \/ /\ Loading(k)
              /\ relLoads' = [relLoads EXCEPT ![m] = JoinedLoad(@, relCache.clock + 1)]
              /\ relReads' = [relReads EXCEPT ![r] = WaitsFor(@, m)]

\* A new entry; the least recently used of those that are ready makes room.
NewEntry(r) ==
    LET q == relReads[r]  k == q.key  m == relCache.entries[k]
        ready == {c \in Cached : ~Loading(c)}
    IN  /\ ~(m # NoEntry /\ relLoads[m].stamp = q.stamp)
        /\ \/ /\ m # NoEntry \/ Cardinality(Cached) < MaxManifests
              /\ relCache' = [entries |-> [relCache.entries EXCEPT ![k] = r], clock |-> relCache.clock + 1]
           \/ /\ m = NoEntry /\ Cardinality(Cached) >= MaxManifests
              /\ \E old \in ready :
                     /\ \A c \in ready :
                            relLoads[relCache.entries[old]].used <= relLoads[relCache.entries[c]].used
                     /\ relCache' = [entries |-> [relCache.entries EXCEPT ![old] = NoEntry, ![k] = r],
                                     clock |-> relCache.clock + 1]
        /\ relLoads' = [relLoads EXCEPT ![r] = NewLoad(q, relCache.clock + 1)]
        /\ relReads' = [relReads EXCEPT ![r] = WaitsFor(@, r)]

\* All of a full cache is loading: wait for one of them and try again.
AllLoading(r) ==
    LET q == relReads[r]
    IN  /\ relCache.entries[q.key] = NoEntry /\ Cardinality(Cached) >= MaxManifests
        /\ \A c \in Cached : Loading(c)
        /\ \E c \in Cached : relReads' = [relReads EXCEPT ![r] = [@ EXCEPT !.at = "full",
                                                                   !.on = relCache.entries[c]]]
        /\ relCache' = [relCache EXCEPT !.clock = @ + 1] /\ UNCHANGED relLoads

CacheGet(r) ==
    /\ GetEntry(r) \/ NewEntry(r) \/ AllLoading(r)
    /\ UNCHANGED <<relFiles, relShown>>

\* select: the entry waited for is ready.
TryAgain(r) ==
    /\ relLoads[relReads[r].on].at = "ready" /\ RGoes(r, "get")
    /\ UNCHANGED <<relFiles, relShown, relLoads, relCache>>

\* wait: entry.manifest, entry.err.
CacheWait(r) ==
    LET l == relLoads[relReads[r].on]
    IN  /\ l.at = "ready"
        /\ relReads' = [relReads EXCEPT ![r] =
               [@ EXCEPT !.at = "over", !.answer = IF l.err = NoEntry THEN "manifest" ELSE l.err,
                         !.got = [a |-> l.hashed, v |-> l.stamp.v]]]
        /\ UNCHANGED <<relFiles, relShown, relLoads, relCache>>

\* Cancels and leaves the entry in the cache, for comparison.
CancelAndKeep(r) ==
    LET m == relReads[r].on
    IN  /\ Says(r, "own")
        /\ \/ relReads[r].at = "wait" /\ relLoads[m].at # "ready"
              /\ relLoads' = [relLoads EXCEPT ![m] = LeftLoad(@)]
           \/ (relReads[r].at = "full" \/ relLoads[m].at = "ready") /\ UNCHANGED relLoads
        /\ UNCHANGED <<relFiles, relShown, relCache>>

\* wait: the client of the request goes away, perhaps the last one.
WaitCancelled(r) ==
    LET m == relReads[r].on  last == relLoads[m].waiters = 1
    IN  /\ Says(r, "own")
        /\ \/ /\ relReads[r].at = "wait" /\ relLoads[m].at # "ready"
              /\ relLoads' = [relLoads EXCEPT ![m] = LeftLoad(@)]
              /\ relCache' = IF last /\ relCache.entries[relLoads[m].key] = m
                             THEN Forget(relLoads[m].key) ELSE relCache
           \/ /\ relReads[r].at = "full" \/ relLoads[m].at = "ready"
              /\ UNCHANGED <<relLoads, relCache>>
        /\ UNCHANGED <<relFiles, relShown>>

\* The request of the client, from the stamp to the answer.
ReadStep(r) ==
    \/ relReads[r].at = "none" /\ ReleaseManifest(r)
    \/ relReads[r].at = "version" /\ ReleaseManifestInputs(r)
    \/ relReads[r].at = "get" /\ CacheGet(r)
    \/ relReads[r].at = "full" /\ (TryAgain(r) \/ WaitCancelled(r))
    \/ relReads[r].at = "wait" /\ (CacheWait(r) \/ WaitCancelled(r))

----------------------------------------------------------------------------
\* load: the goroutine of an entry.

LoadGoes(m, l) ==
    /\ relLoads' = [relLoads EXCEPT ![m] = l]
    /\ UNCHANGED <<relFiles, relShown, relReads, relCache>>

\* FileSHA256Context reads what is there now; a cancelled context ends it.
FileSHA256Context(m) ==
    \/ LoadGoes(m, [relLoads[m] EXCEPT !.at = "artifact", !.hashed = relFiles[relLoads[m].key].a])
    \/ relLoads[m].cancelled /\ LoadGoes(m, [relLoads[m] EXCEPT !.at = "finish", !.err = "canceled"])
    \/ "io" \in RelFaults /\ LoadGoes(m, [relLoads[m] EXCEPT !.at = "finish", !.err = "failed"])

InspectReleaseFile(m) ==
    LoadGoes(m, [relLoads[m] EXCEPT !.at = "version", !.seen = relFiles[relLoads[m].key].a])

\* The files are not looked at again, for comparison.
MatchesAnything(l, v) == TRUE

\* releaseManifestStamp.matches.
StampMatches(l, v) == l.seen = l.stamp.a /\ v = l.stamp.v

\* The closure of releaseManifest, to its end.
SignManifest(m) ==
    LET l == relLoads[m]
    IN  LoadGoes(m, [l EXCEPT !.at = "finish",
                              !.err = IF StampMatches(l, relFiles[l.key].v) THEN NoEntry ELSE "failed"])

\* The result is set and ready is closed; an error is not kept.
CacheLoad(m) ==
    /\ relLoads' = [relLoads EXCEPT ![m] = [@ EXCEPT !.at = "ready", !.waiters = 0]]
    /\ relCache' = IF relLoads[m].err # NoEntry /\ relCache.entries[relLoads[m].key] = m
                   THEN Forget(relLoads[m].key) ELSE relCache
    /\ UNCHANGED <<relFiles, relShown, relReads>>

LoadStep(m) ==
    \/ relLoads[m].at = "hash" /\ FileSHA256Context(m)
    \/ relLoads[m].at = "artifact" /\ InspectReleaseFile(m)
    \/ relLoads[m].at = "version" /\ SignManifest(m)
    \/ relLoads[m].at = "finish" /\ CacheLoad(m)

ReleaseCacheNext ==
    \/ Publish
    \/ \E r \in RelReaders : ReadStep(r) \/ LoadStep(r)

ReleaseCacheSpec == ReleaseCacheInit /\ [][ReleaseCacheNext]_relCacheVars

----------------------------------------------------------------------------
\* A client that stays never gets the cancellation of one that went away:
\* the generation is cancelled only with its last waiter, and nobody joins it
\* after that (get and wait).
NobodysCancelIsShared == \A r \in RelReaders : relReads[r].answer # "canceled"

\* A signed manifest names an artifact and a version that stood on disk
\* together, however the publisher's renames fall between the reads.
ManifestIsSnapshot ==
    \A r \in RelReaders : relReads[r].answer = "manifest" => relReads[r].got \in relShown[relReads[r].key]

\* The cache keeps to its limit.
CacheIsBounded == Cardinality(Cached) <= MaxManifests

\* Of the release feed: a manifest is of files that stood together, and nobody
\* gets the cancellation of another client.
ManifestsAreSound == ManifestIsSnapshot /\ NobodysCancelIsShared /\ CacheIsBounded
=============================================================================
