------------------------------ MODULE NodeProofs ------------------------------
(***************************************************************************)
(* Proofs about what the Node does for its user: no session of a machine   *)
(* task is shown (SessionVisibility), the application keeps one runtime    *)
(* (NodeApp), no edit of a file undoes another (FileEdit), a creation of a *)
(* session that is tried again creates no second one (SessionCreate), and  *)
(* a Claude session has one process and is kept (ClaudeAdapter).           *)
(* Each component is proved by itself; none refers to the others.  The     *)
(* types of all of them, with the Codex adapter (CodexProofs), end the     *)
(* module: whichever part of MCAgent runs, it is typed.                    *)
(***************************************************************************)
EXTENDS MCAgent, CodexProofs, FiniteSetTheorems, TLAPS

(***************************************************************************)
(* Session visibility: what a caller is, and a record of the store.        *)
(***************************************************************************)
SessionRows == [at : {"none", "live", "archived", "deleted"}, kind : VKinds, prov : Providers]
VisSteps == {"idle", "start", "record", "recorded", "archive", "archiveForget", "delete",
                "forget", "replay", "threads", "listed"}
VisRows == [op : {"none", "create", "list", "delete"}, at : VisSteps,
               id : 0 .. MaxVSessions, kind : VKinds, prov : Providers,
               known : SUBSET VIds, hidden : SUBSET VIds, shown : SUBSET VIds]
Stores == [internal : SUBSET VIds, visible : SUBSET VIds, bad : BOOLEAN]
Sidecars == [internal : SUBSET VIds, visible : SUBSET VIds]

(***************************************************************************)
(* The types that the argument needs.                                      *)
(***************************************************************************)
VTypes ==
    /\ vstore \in Stores /\ vdisk \in Sidecars /\ vsess \in [VIds -> SessionRows]
    /\ vcall \in [VCallers -> VisRows] /\ vhidden \in SUBSET VIds
    /\ \A c \in VCallers : vcall[c].at \notin {"idle", "start", "threads", "listed"} =>
          vcall[c].id \in VIds

(***************************************************************************)
(* A store that is not in doubt is what the file says.                     *)
(***************************************************************************)
StoreIsSidecar == ~vstore.bad => vstore.internal = vdisk.internal

SessionGone(n) == vsess[n].at = "deleted"

(***************************************************************************)
(* What was answered as internal is recorded until it is deleted.          *)
(***************************************************************************)
HiddenIsRecorded == \A n \in vhidden : vsess[n].at # "none" /\ (SessionGone(n) \/ n \in vdisk.internal)

Makes(c) == vcall[c].at \in {"record", "recorded"}
Undoes(c) == vcall[c].at \in {"archiveForget", "forget"} /\ ~SessionGone(vcall[c].id)

(***************************************************************************)
(* A session that is being made, or cleaned up after, belongs to one       *)
(* caller, and its creation has not been answered.                         *)
(***************************************************************************)
OneMaker ==
    \A c \in VCallers : Makes(c) \/ Undoes(c) =>
        /\ vsess[vcall[c].id].at # "none" /\ vcall[c].id \notin vhidden
        /\ \A d \in VCallers \ {c} : Makes(d) => vcall[d].id # vcall[c].id

(***************************************************************************)
(* persistSessionVisibility has put the record on disk.                    *)
(***************************************************************************)
RecordedIsOnDisk ==
    \A c \in VCallers : vcall[c].at = "recorded" /\ vcall[c].kind = "internal" =>
        SessionGone(vcall[c].id) \/ vcall[c].id \in vdisk.internal

(***************************************************************************)
(* A list knows the records of the hidden sessions that are still there.   *)
(***************************************************************************)
ListsKnow == \A c \in VCallers : \A n \in vcall[c].hidden \ vcall[c].known : SessionGone(n)

VisInv ==
    /\ VTypes /\ StoreIsSidecar /\ HiddenIsRecorded /\ OneMaker /\ RecordedIsOnDisk
    /\ ListsKnow /\ InternalStaysHidden

(***************************************************************************)
(* A caller that rests.                                                    *)
(***************************************************************************)
LEMMA RestingCaller ==
    /\ NoVCall \in VisRows /\ NoVCall.at = "idle"
    /\ NoVCall.hidden = {} /\ NoVCall.shown = {}
  <1>1. 0 \in 0 .. MaxVSessions
    BY VisibilityAssumption
  <1> QED
    BY <1>1 DEF NoVCall, VisRows, VisSteps, VKinds, Providers

\* At the start nothing was answered.
LEMMA VisStarts == VisInit => VisInv
  <1> SUFFICES ASSUME VisInit PROVE VisInv
    OBVIOUS
  <1>1. /\ vstore \in Stores /\ vdisk \in Sidecars /\ vhidden = {}
        /\ vstore.internal = vdisk.internal
    BY DEF VisInit, Stores, Sidecars
  <1>2. vsess \in [VIds -> SessionRows]
    BY DEF VisInit, SessionRows, VKinds, Providers
  <1>3. vcall = [c \in VCallers |-> NoVCall]
    BY DEF VisInit
  <1>4. VTypes
    BY <1>1, <1>2, <1>3, RestingCaller DEF VTypes
  <1>5. \A c \in VCallers : /\ vcall[c].at = "idle" /\ vcall[c].hidden = {} /\ vcall[c].shown = {}
    BY <1>3, RestingCaller
  <1> QED
    BY <1>1, <1>4, <1>5 DEF VisInv, StoreIsSidecar, HiddenIsRecorded, OneMaker, RecordedIsOnDisk,
       ListsKnow, InternalStaysHidden, Makes, Undoes

(***************************************************************************)
(* The store: a change of one record leaves the others, on disk as well.   *)
(***************************************************************************)
LEMMA SaveOne ==
    ASSUME VTypes, StoreIsSidecar, ~vstore.bad, NEW int \in SUBSET VIds, NEW vis \in SUBSET VIds,
           SaveVisibility(int, vis)
    PROVE  /\ vstore' \in Stores /\ vdisk' \in Sidecars
           /\ ~vstore'.bad => vstore'.internal = int /\ vdisk'.internal = int
           /\ vdisk'.internal = int \/ vdisk'.internal = vdisk.internal
  <1>1. CASE /\ vstore' = [internal |-> int, visible |-> vis, bad |-> FALSE]
             /\ vdisk' = [internal |-> int, visible |-> vis]
    BY <1>1 DEF Stores, Sidecars
  <1>2. CASE vstore' = [vstore EXCEPT !.bad = TRUE] /\ UNCHANGED vdisk
    BY <1>2 DEF VTypes, Stores, Sidecars
  <1>3. CASE /\ vstore' = [internal |-> int, visible |-> vis, bad |-> TRUE]
             /\ vdisk' = [internal |-> int, visible |-> vis]
    BY <1>3 DEF Stores, Sidecars
  <1> QED
    BY <1>1, <1>2, <1>3 DEF SaveVisibility

\* PutVisibility changes one record at most.
LEMMA PutOne ==
    ASSUME VTypes, StoreIsSidecar, NEW n \in VIds, NEW kind \in VKinds, PutVisibility(n, kind)
    PROVE  /\ vstore' \in Stores /\ vdisk' \in Sidecars /\ StoreIsSidecar'
           /\ \A m \in VIds \ {n} : m \in vdisk.internal => m \in vdisk'.internal
           /\ kind = "internal" /\ n \in vdisk.internal => n \in vdisk'.internal
  <1>1. CASE UNCHANGED <<vstore, vdisk>>
    BY <1>1 DEF VTypes, StoreIsSidecar
  <1>2. CASE ~vstore.bad /\
             SaveVisibility(IF kind = "internal" THEN vstore.internal \cup {n} ELSE vstore.internal \ {n},
                            IF kind = "visible" THEN vstore.visible \cup {n} ELSE vstore.visible \ {n})
    <2>1. /\ vstore.internal \in SUBSET VIds /\ vstore.visible \in SUBSET VIds
          /\ vstore.internal = vdisk.internal
      BY <1>2 DEF VTypes, Stores, StoreIsSidecar
    <2> DEFINE int == IF kind = "internal" THEN vstore.internal \cup {n} ELSE vstore.internal \ {n}
               vis == IF kind = "visible" THEN vstore.visible \cup {n} ELSE vstore.visible \ {n}
    <2>2. int \in SUBSET VIds /\ vis \in SUBSET VIds
      BY <2>1
    <2>3. /\ vstore' \in Stores /\ vdisk' \in Sidecars
          /\ ~vstore'.bad => vstore'.internal = int /\ vdisk'.internal = int
          /\ vdisk'.internal = int \/ vdisk'.internal = vdisk.internal
      BY <1>2, <2>2, SaveOne
    <2> QED
      BY <2>1, <2>3 DEF StoreIsSidecar, VKinds
  <1> QED
    BY <1>1, <1>2 DEF PutVisibility

\* ForgetVisibility removes one record at most.
LEMMA ForgetOne ==
    ASSUME VTypes, StoreIsSidecar, NEW n \in VIds, ForgetVisibility(n)
    PROVE  /\ vstore' \in Stores /\ vdisk' \in Sidecars /\ StoreIsSidecar'
           /\ \A m \in VIds \ {n} : m \in vdisk.internal => m \in vdisk'.internal
  <1>1. CASE UNCHANGED <<vstore, vdisk>>
    BY <1>1 DEF VTypes, StoreIsSidecar
  <1>2. CASE ~vstore.bad /\ SaveVisibility(vstore.internal \ {n}, vstore.visible \ {n})
    <2>1. /\ vstore.internal \ {n} \in SUBSET VIds /\ vstore.visible \ {n} \in SUBSET VIds
          /\ vstore.internal = vdisk.internal
      BY <1>2 DEF VTypes, Stores, StoreIsSidecar
    <2> QED
      BY <1>2, <2>1, SaveOne DEF StoreIsSidecar
  <1> QED
    BY <1>1, <1>2 DEF ForgetVisibility

(***************************************************************************)
(* A caller becomes r.  What its step has to keep: records and sessions    *)
(* that others rely on, and what its own next step relies on.              *)
(***************************************************************************)
CallBecomes(c, r) == vcall' = [vcall EXCEPT ![c] = r]

RowUnder(r, n) == /\ r.id = n
                  /\ \/ r.at \in {"record", "recorded"}
                     \/ r.at \in {"archiveForget", "forget"} /\ ~SessionGone(n)

\* A caller becomes r and the others stay.
LEMMA VisPut ==
    ASSUME VTypes, NEW c \in VCallers, NEW r \in VisRows, CallBecomes(c, r)
    PROVE  /\ vcall' \in [VCallers -> VisRows] /\ vcall'[c] = r
           /\ \A d \in VCallers \ {c} : vcall'[d] = vcall[d]
  BY DEF VTypes, CallBecomes

\* What a caller may change: sessions, the store and what was answered.
LEMMA CallerKeeps ==
    ASSUME VisInv, NEW c \in VCallers, NEW r \in VisRows, CallBecomes(c, r),
           r.at \notin {"idle", "start", "threads", "listed"} => r.id \in VIds,
           vstore' \in Stores, vdisk' \in Sidecars, StoreIsSidecar',
           vsess' \in [VIds -> SessionRows], vhidden' \in SUBSET VIds, vhidden \subseteq vhidden',
           \A n \in VIds : vsess[n].at # "none" => vsess'[n].at # "none",
           \A n \in VIds : SessionGone(n) => vsess'[n].at = "deleted",
           \A n \in VIds : n \in vdisk.internal =>
               n \in vdisk'.internal \/ SessionGone(n) \/ RowUnder(vcall[c], n),
           \A n \in vhidden' \ vhidden : /\ n = vcall[c].id /\ Makes(c)
                                         /\ SessionGone(n) \/ n \in vdisk'.internal,
           r.at \in {"record", "recorded"}
               \/ (r.at \in {"archiveForget", "forget"} /\ vsess'[r.id].at # "deleted") =>
               /\ vsess'[r.id].at # "none" /\ r.id \notin vhidden'
               /\ \/ vsess[r.id].at = "none"
                  \/ r.id = vcall[c].id /\ Makes(c)
                  \/ r.id = vcall[c].id /\ Undoes(c) /\ r.at \notin {"record", "recorded"},
           r.at = "recorded" /\ r.kind = "internal" =>
               vsess'[r.id].at = "deleted" \/ r.id \in vdisk'.internal,
           \A n \in r.hidden \ r.known : vsess'[n].at = "deleted",
           r.shown \cap r.hidden = {}
    PROVE  VisInv'
  <1>1. /\ vcall' \in [VCallers -> VisRows] /\ vcall'[c] = r
        /\ \A d \in VCallers \ {c} : vcall'[d] = vcall[d]
    BY VisPut DEF VisInv
  <1>2. VTypes'
    BY <1>1 DEF VisInv, VTypes
  <1>3. \A d \in VCallers : Makes(d) \/ Undoes(d) => vcall[d].id \in VIds
    BY DEF VisInv, VTypes, Makes, Undoes
  <1>4. \A n \in VIds : RowUnder(vcall[c], n) =>
            /\ n \notin vhidden /\ n = vcall[c].id /\ (Makes(c) \/ Undoes(c))
            /\ \A d \in VCallers \ {c} : Makes(d) => vcall[d].id # n
    BY DEF VisInv, OneMaker, RowUnder, Makes, Undoes
  <1>5. HiddenIsRecorded'
    <2> SUFFICES ASSUME NEW n \in vhidden'
                 PROVE  vsess'[n].at # "none" /\ (vsess'[n].at = "deleted" \/ n \in vdisk'.internal)
      BY DEF HiddenIsRecorded, SessionGone
    <2>1. CASE n \in vhidden
      BY <1>4, <2>1 DEF VisInv, VTypes, HiddenIsRecorded
    <2>2. CASE n \notin vhidden
      <3>1. n = vcall[c].id /\ Makes(c) /\ (SessionGone(n) \/ n \in vdisk'.internal)
        BY <2>2
      <3>2. vsess[n].at # "none" /\ n \in VIds
        BY <1>3, <3>1 DEF VisInv, OneMaker
      <3> QED
        BY <3>1, <3>2
    <2> QED
      BY <2>1, <2>2
  <1>6. OneMaker'
    <2> SUFFICES ASSUME NEW d \in VCallers, (Makes(d) \/ Undoes(d))'
                 PROVE  /\ vsess'[vcall'[d].id].at # "none" /\ vcall'[d].id \notin vhidden'
                        /\ \A e \in VCallers \ {d} : Makes(e)' => vcall'[e].id # vcall'[d].id
      BY DEF OneMaker
    <2>1. CASE d = c
      <3>1. /\ vsess'[r.id].at # "none" /\ r.id \notin vhidden'
            /\ \/ vsess[r.id].at = "none"
               \/ r.id = vcall[c].id /\ (Makes(c) \/ Undoes(c))
        BY <1>1, <2>1 DEF Makes, Undoes, SessionGone
      <3>2. \A e \in VCallers \ {c} : Makes(e) => vcall[e].id # r.id
        BY <3>1 DEF VisInv, OneMaker
      <3> QED
        BY <1>1, <2>1, <3>1, <3>2 DEF Makes
    <2>2. CASE d # c
      <3>1. vcall'[d] = vcall[d] /\ (Makes(d) \/ Undoes(d))
        BY <1>1, <1>3, <2>2 DEF Makes, Undoes, SessionGone, VisInv, VTypes
      <3>2. vsess[vcall[d].id].at # "none" /\ vcall[d].id \notin vhidden /\ vcall[d].id \in VIds
        BY <1>3, <3>1 DEF VisInv, OneMaker
      <3>3. vcall[d].id \notin vhidden'
        BY <2>2, <3>1, <3>2 DEF VisInv, OneMaker
      <3>4. Makes(c)' => r.id # vcall[d].id
        BY <1>1, <2>2, <3>1, <3>2 DEF VisInv, OneMaker, Makes
      <3>5. \A e \in VCallers \ {d} : Makes(e)' => vcall'[e].id # vcall[d].id
        BY <1>1, <2>2, <3>1, <3>4 DEF VisInv, OneMaker, Makes
      <3> QED
        BY <3>1, <3>2, <3>3, <3>5
    <2> QED
      BY <2>1, <2>2
  <1>7. RecordedIsOnDisk'
    BY <1>1, <1>3, <1>4 DEF VisInv, RecordedIsOnDisk, SessionGone, Makes
  <1>8. ListsKnow' /\ InternalStaysHidden'
    BY <1>1 DEF VisInv, VTypes, VisRows, ListsKnow, InternalStaysHidden, SessionGone
  <1> QED
    BY <1>2, <1>5, <1>6, <1>7, <1>8 DEF VisInv

\* The caller goes on to its next step, or returns.
LEMMA CallerGoes ==
    ASSUME VTypes, NEW c \in VCallers, NEW at \in VisSteps, VGoes(c, at)
    PROVE  \E r \in VisRows : /\ CallBecomes(c, r) /\ r.at = at
                              /\ r.id = vcall[c].id /\ r.kind = vcall[c].kind
                              /\ r.known = vcall[c].known /\ r.hidden = vcall[c].hidden
                              /\ r.shown = vcall[c].shown
  <1>1. vcall[c] \in VisRows
    BY DEF VTypes
  <1>2. PICK r : r = [vcall[c] EXCEPT !.at = at]
    OBVIOUS
  <1>3. /\ r \in VisRows /\ r.at = at /\ r.id = vcall[c].id /\ r.kind = vcall[c].kind
        /\ r.known = vcall[c].known /\ r.hidden = vcall[c].hidden /\ r.shown = vcall[c].shown
    BY <1>1, <1>2 DEF VisRows
  <1>4. CallBecomes(c, r)
    BY <1>2 DEF VGoes, CallBecomes
  <1> QED
    BY <1>3, <1>4

\* The store and the sessions as they are, and a caller that is not at work on
\* a session: its step keeps everything.
LEMMA RestingKeeps ==
    ASSUME VisInv, NEW c \in VCallers, NEW r \in VisRows, CallBecomes(c, r), VFrame, UNCHANGED vsess,
           r.at \notin {"record", "recorded", "archiveForget", "forget"},
           r.at \notin {"idle", "start", "threads", "listed"} => r.id \in VIds,
           \A n \in r.hidden \ r.known : vsess[n].at = "deleted",
           r.shown \cap r.hidden = {}
    PROVE  VisInv'
  <1>1. UNCHANGED <<vstore, vdisk, vhidden, vsess>>
    BY DEF VFrame
  <1>2. /\ vstore' \in Stores /\ vdisk' \in Sidecars /\ StoreIsSidecar'
        /\ vsess' \in [VIds -> SessionRows] /\ vhidden' \in SUBSET VIds
    BY <1>1 DEF VisInv, VTypes, StoreIsSidecar
  <1> QED
    BY <1>1, <1>2, CallerKeeps DEF SessionGone

\* A caller returns.
LEMMA ReturnKeeps ==
    ASSUME VisInv, NEW c \in VCallers, VReturns(c), VFrame, UNCHANGED vsess
    PROVE  VisInv'
  <1>1. CallBecomes(c, NoVCall)
    BY DEF VReturns, CallBecomes
  <1> QED
    BY <1>1, RestingCaller, RestingKeeps

----------------------------------------------------------------------------
(***************************************************************************)
(* session.create                                                          *)
(***************************************************************************)
\* What a caller at work knows of its session.
LEMMA AtWork ==
    ASSUME VisInv, NEW c \in VCallers
    PROVE  /\ vcall[c] \in VisRows /\ vcall[c].kind \in VKinds /\ vcall[c].prov \in Providers
           /\ vcall[c].at \notin {"idle", "start", "threads", "listed"} => vcall[c].id \in VIds
           /\ \A n \in vcall[c].hidden \ vcall[c].known : vsess[n].at = "deleted"
           /\ vcall[c].shown \cap vcall[c].hidden = {}
           /\ vstore \in Stores /\ vdisk \in Sidecars /\ StoreIsSidecar
           /\ vsess \in [VIds -> SessionRows] /\ vhidden \in SUBSET VIds
  <1>1. vcall[c] \in VisRows
    BY DEF VisInv, VTypes
  <1>2. vcall[c].kind \in VKinds /\ vcall[c].prov \in Providers
    BY <1>1 DEF VisRows
  <1> QED
    BY <1>1, <1>2 DEF VisInv, VTypes, ListsKnow, InternalStaysHidden, SessionGone

\* The specification of a creation is resolved.
LEMMA ResolveVisKeeps ==
    ASSUME VisInv, NEW c \in VCallers, NEW kind \in VKinds, NEW p \in Providers,
           ResolveSessionVisibility(c, kind, p)
    PROVE  VisInv'
  <1>1. PICK r : r = [NoVCall EXCEPT !.op = "create", !.at = "start", !.kind = kind, !.prov = p]
    OBVIOUS
  <1>2. r \in VisRows /\ r.at = "start" /\ r.hidden = {} /\ r.shown = {}
    BY <1>1, RestingCaller DEF VisRows, VisSteps
  <1>3. CallBecomes(c, r) /\ VFrame /\ UNCHANGED vsess
    BY <1>1 DEF ResolveSessionVisibility, CallBecomes
  <1> QED
    BY <1>2, <1>3, RestingKeeps

\* A session that was not there: nobody else works on it, no list knows it.
LEMMA MakeKeeps ==
    ASSUME VisInv, NEW c \in VCallers, MakeSession(c)
    PROVE  VisInv'
  <1>1. VFrame /\ UNCHANGED <<vstore, vdisk, vhidden>> /\ vcall[c].at = "start"
    BY DEF MakeSession, VFrame
  <1>2. CASE VReturns(c) /\ UNCHANGED vsess
    BY <1>1, <1>2, ReturnKeeps
  <1>3. CASE \E n \in VIds :
               /\ Fresh(n)
               /\ vsess' = [vsess EXCEPT ![n] = [at |-> "live", kind |-> vcall[c].kind,
                                                prov |-> vcall[c].prov]]
               /\ \/ vcall' = [vcall EXCEPT ![c].at = "record", ![c].id = n]
                  \/ VReturns(c)
    <2>1. PICK n \in VIds :
             /\ Fresh(n)
             /\ vsess' = [vsess EXCEPT ![n] = [at |-> "live", kind |-> vcall[c].kind,
                                              prov |-> vcall[c].prov]]
             /\ \/ vcall' = [vcall EXCEPT ![c].at = "record", ![c].id = n]
                \/ VReturns(c)
      BY <1>3
    <2>2. vsess[n].at = "none"
      BY <2>1 DEF Fresh
    <2>3. /\ vsess' \in [VIds -> SessionRows] /\ vsess'[n].at = "live"
          /\ \A m \in VIds \ {n} : vsess'[m] = vsess[m]
      <3>1. PICK x : x = [at |-> "live", kind |-> vcall[c].kind, prov |-> vcall[c].prov]
        OBVIOUS
      <3>2. x \in SessionRows /\ x.at = "live"
        BY <3>1, AtWork DEF SessionRows
      <3> QED
        BY <2>1, <3>1, <3>2, AtWork
    <2>4. \A m \in VIds : /\ vsess[m].at # "none" => vsess'[m].at # "none"
                          /\ SessionGone(m) => vsess'[m].at = "deleted"
      BY <2>2, <2>3 DEF SessionGone
    <2>5. n \notin vhidden
      BY <2>2 DEF VisInv, HiddenIsRecorded
    <2>6. /\ vstore' \in Stores /\ vdisk' \in Sidecars /\ StoreIsSidecar' /\ vhidden' \in SUBSET VIds
          /\ vhidden' = vhidden /\ vdisk' = vdisk
      BY <1>1, AtWork DEF StoreIsSidecar
    <2>7. CASE VReturns(c)
      <3>1. CallBecomes(c, NoVCall)
        BY <2>7 DEF VReturns, CallBecomes
      <3> QED
        BY <2>3, <2>4, <2>6, <3>1, RestingCaller, CallerKeeps
    <2>8. CASE vcall' = [vcall EXCEPT ![c].at = "record", ![c].id = n]
      <3>1. PICK r : r = [vcall[c] EXCEPT !.at = "record", !.id = n]
        OBVIOUS
      <3>2. n \in 0 .. MaxVSessions
        BY VisibilityAssumption DEF VIds
      <3>3. /\ r \in VisRows /\ r.at = "record" /\ r.id = n /\ r.known = vcall[c].known
            /\ r.hidden = vcall[c].hidden /\ r.shown = vcall[c].shown
        BY <3>1, <3>2, AtWork DEF VisRows, VisSteps
      <3>4. CallBecomes(c, r)
        BY <2>8, <3>1, AtWork DEF CallBecomes, VisInv, VTypes
      <3>5. \A m \in r.hidden \ r.known : vsess'[m].at = "deleted"
        BY <2>4, <3>3, AtWork DEF VisRows, SessionGone
      <3> QED
        BY <2>2, <2>3, <2>4, <2>5, <2>6, <3>3, <3>4, <3>5, AtWork, CallerKeeps
    <2> QED
      BY <2>1, <2>7, <2>8
  <1> QED
    BY <1>2, <1>3 DEF MakeSession

\* persistSessionVisibility goes on only with the record, which is on disk.
LEMMA PersistKeeps ==
    ASSUME VisInv, NEW c \in VCallers, PersistSessionVisibility(c)
    PROVE  VisInv'
  <1> DEFINE n == vcall[c].id
  <1>1. /\ vcall[c].at = "record" /\ n \in VIds /\ PutVisibility(n, vcall[c].kind)
        /\ UNCHANGED <<vsess, vhidden>> /\ Makes(c)
    BY AtWork DEF PersistSessionVisibility, Makes
  <1>2. /\ vstore' \in Stores /\ vdisk' \in Sidecars /\ StoreIsSidecar'
        /\ \A m \in VIds \ {n} : m \in vdisk.internal => m \in vdisk'.internal
    BY <1>1, AtWork, PutOne DEF VisInv
  <1>3. /\ vsess' \in [VIds -> SessionRows] /\ vhidden' \in SUBSET VIds
        /\ vsess[n].at # "none" /\ n \notin vhidden
    BY <1>1, AtWork DEF VisInv, OneMaker
  <1>4. \A m \in VIds : m \in vdisk.internal => m \in vdisk'.internal \/ RowUnder(vcall[c], m)
    BY <1>1, <1>2 DEF RowUnder
  <1>5. CASE VReturns(c)
    <2>1. CallBecomes(c, NoVCall)
      BY <1>5 DEF VReturns, CallBecomes
    <2> QED
      BY <1>1, <1>2, <1>3, <1>4, <2>1, RestingCaller, CallerKeeps DEF SessionGone
  <1>6. CASE VGoes(c, "archive")
    <2>1. PICK r \in VisRows :
             /\ CallBecomes(c, r) /\ r.at = "archive" /\ r.id = n /\ r.known = vcall[c].known
             /\ r.hidden = vcall[c].hidden /\ r.shown = vcall[c].shown
      BY <1>6, CallerGoes DEF VisInv, VisSteps
    <2> QED
      BY <1>1, <1>2, <1>3, <1>4, <2>1, AtWork, CallerKeeps DEF SessionGone
  <1>7. CASE HasRecord(n, vcall[c].kind) /\ VGoes(c, "recorded")
    <2>1. PICK r \in VisRows :
             /\ CallBecomes(c, r) /\ r.at = "recorded" /\ r.id = n /\ r.kind = vcall[c].kind
             /\ r.known = vcall[c].known
             /\ r.hidden = vcall[c].hidden /\ r.shown = vcall[c].shown
      BY <1>7, CallerGoes DEF VisInv, VisSteps
    <2>2. r.kind = "internal" => n \in vdisk'.internal
      BY <1>2, <1>7, <2>1 DEF HasRecord, StoreIsSidecar
    <2> QED
      BY <1>1, <1>2, <1>3, <1>4, <2>1, <2>2, AtWork, CallerKeeps DEF SessionGone
  <1> QED
    BY <1>5, <1>6, <1>7 DEF PersistSessionVisibility

\* The answer: the session is hidden, and its record is on disk.
LEMMA EndsKeep ==
    ASSUME VisInv, NEW c \in VCallers, CreateEnds(c)
    PROVE  VisInv'
  <1> DEFINE n == vcall[c].id
  <1>1. /\ vcall[c].at = "recorded" /\ n \in VIds /\ Makes(c)
        /\ UNCHANGED <<vstore, vdisk, vsess>>
    BY AtWork DEF CreateEnds, Makes
  <1>2. /\ vstore' \in Stores /\ vdisk' \in Sidecars /\ StoreIsSidecar'
        /\ vsess' \in [VIds -> SessionRows] /\ vsess[n].at # "none" /\ n \notin vhidden
    BY <1>1, AtWork DEF VisInv, OneMaker, StoreIsSidecar
  <1>3. vcall[c].kind = "internal" => SessionGone(n) \/ n \in vdisk.internal
    BY <1>1 DEF VisInv, RecordedIsOnDisk
  <1>4. CASE VReturns(c) /\ vhidden' = IF vcall[c].kind = "internal" THEN vhidden \cup {n} ELSE vhidden
    <2>1. CallBecomes(c, NoVCall)
      BY <1>4 DEF VReturns, CallBecomes
    <2>2. vhidden' \in SUBSET VIds /\ vhidden \subseteq vhidden'
      BY <1>1, <1>4, AtWork
    <2> QED
      BY <1>1, <1>2, <1>3, <1>4, <2>1, <2>2, RestingCaller, CallerKeeps DEF SessionGone
  <1>5. CASE UNCHANGED vhidden /\ VGoes(c, "archiveForget")
    <2>1. PICK r \in VisRows :
             /\ CallBecomes(c, r) /\ r.at = "archiveForget" /\ r.id = n /\ r.known = vcall[c].known
             /\ r.hidden = vcall[c].hidden /\ r.shown = vcall[c].shown
      BY <1>5, CallerGoes DEF VisInv, VisSteps
    <2> QED
      BY <1>1, <1>2, <1>5, <2>1, AtWork, CallerKeeps DEF SessionGone
  <1>6. CASE UNCHANGED vhidden /\ VGoes(c, "archive")
    <2>1. PICK r \in VisRows :
             /\ CallBecomes(c, r) /\ r.at = "archive" /\ r.id = n /\ r.known = vcall[c].known
             /\ r.hidden = vcall[c].hidden /\ r.shown = vcall[c].shown
      BY <1>6, CallerGoes DEF VisInv, VisSteps
    <2> QED
      BY <1>1, <1>2, <1>6, <2>1, AtWork, CallerKeeps DEF SessionGone
  <1>7. CASE /\ UNCHANGED vhidden
             /\ vcall' = [vcall EXCEPT ![c].op = "delete", ![c].at = "delete"]
    <2>1. PICK r : r = [vcall[c] EXCEPT !.op = "delete", !.at = "delete"]
      OBVIOUS
    <2>2. /\ r \in VisRows /\ r.at = "delete" /\ r.id = n /\ r.known = vcall[c].known
          /\ r.hidden = vcall[c].hidden /\ r.shown = vcall[c].shown
      BY <2>1, AtWork DEF VisRows, VisSteps
    <2>3. CallBecomes(c, r)
      BY <1>7, <2>1, AtWork DEF CallBecomes, VisInv, VTypes
    <2> QED
      BY <1>1, <1>2, <1>7, <2>2, <2>3, AtWork, CallerKeeps DEF SessionGone
  <1> QED
    BY <1>4, <1>5, <1>6, <1>7 DEF CreateEnds

\* A change of the state of a session at its provider.
LEMMA SessionMoves ==
    ASSUME VisInv, NEW n \in VIds, NEW s \in {"live", "archived", "deleted"},
           vsess' = [vsess EXCEPT ![n].at = s], vsess[n].at = "deleted" => s = "deleted"
    PROVE  /\ vsess' \in [VIds -> SessionRows] /\ vsess'[n].at = s
           /\ \A m \in VIds \ {n} : vsess'[m] = vsess[m]
           /\ \A m \in VIds : vsess[m].at # "none" => vsess'[m].at # "none"
           /\ \A m \in VIds : SessionGone(m) => vsess'[m].at = "deleted"
  <1>1. vsess \in [VIds -> SessionRows]
    BY DEF VisInv, VTypes
  <1>2. PICK x : x = [vsess[n] EXCEPT !.at = s]
    OBVIOUS
  <1>3. x \in SessionRows /\ x.at = s
    BY <1>1, <1>2 DEF SessionRows
  <1>4. vsess' = [vsess EXCEPT ![n] = x]
    BY <1>2
  <1>5. /\ vsess' \in [VIds -> SessionRows] /\ vsess'[n].at = s
        /\ \A m \in VIds \ {n} : vsess'[m] = vsess[m]
    BY <1>1, <1>3, <1>4
  <1> QED
    BY <1>5 DEF SessionGone

\* A creation that failed is archived.
LEMMA ArchiveKeeps ==
    ASSUME VisInv, NEW c \in VCallers, ArchiveFailed(c)
    PROVE  VisInv'
  <1> DEFINE n == vcall[c].id
  <1>1. /\ vcall[c].at \in {"archive", "archiveForget"} /\ n \in VIds
        /\ UNCHANGED <<vstore, vdisk, vhidden>> /\ VFrame
    BY AtWork DEF ArchiveFailed, VFrame
  <1>2. /\ vstore' \in Stores /\ vdisk' \in Sidecars /\ StoreIsSidecar' /\ vhidden' \in SUBSET VIds
    BY <1>1, AtWork DEF StoreIsSidecar
  <1>3. /\ vsess' \in [VIds -> SessionRows]
        /\ \A m \in VIds : vsess[m].at # "none" => vsess'[m].at # "none"
        /\ \A m \in VIds : SessionGone(m) <=> vsess'[m].at = "deleted"
    <2>1. CASE UNCHANGED vsess
      BY <2>1, AtWork DEF SessionGone
    <2>2. CASE vsess' = [vsess EXCEPT ![n].at = IF @ = "live" THEN "archived" ELSE @]
      <3>1. CASE vsess[n].at = "live"
        <4>1. vsess' = [vsess EXCEPT ![n].at = "archived"]
          BY <2>2, <3>1
        <4> QED
          BY <1>1, <3>1, <4>1, SessionMoves DEF SessionGone
      <3>2. CASE vsess[n].at # "live"
        <4>1. vsess' = vsess
          BY <1>1, <2>2, <3>2, AtWork DEF SessionRows
        <4> QED
          BY <4>1, AtWork DEF SessionGone
      <3> QED
        BY <3>1, <3>2
    <2> QED
      BY <2>1, <2>2 DEF ArchiveFailed
  <1>4. CASE VReturns(c)
    <2>1. CallBecomes(c, NoVCall)
      BY <1>4 DEF VReturns, CallBecomes
    <2> QED
      BY <1>1, <1>2, <1>3, <2>1, RestingCaller, CallerKeeps
  <1>5. CASE vcall[c].at = "archiveForget" /\ VGoes(c, "forget")
    <2>1. PICK r \in VisRows :
             /\ CallBecomes(c, r) /\ r.at = "forget" /\ r.id = n /\ r.known = vcall[c].known
             /\ r.hidden = vcall[c].hidden /\ r.shown = vcall[c].shown
      BY <1>5, CallerGoes DEF VisInv, VisSteps
    <2>2. ~SessionGone(n) => Undoes(c) /\ vsess[n].at # "none" /\ n \notin vhidden
      BY <1>5 DEF VisInv, OneMaker, Undoes
    <2>3. \A m \in r.hidden \ r.known : vsess'[m].at = "deleted"
      BY <1>3, <2>1, AtWork DEF VisRows, SessionGone
    <2> QED
      BY <1>1, <1>2, <1>3, <2>1, <2>2, <2>3, AtWork, CallerKeeps
  <1> QED
    BY <1>1, <1>4, <1>5 DEF ArchiveFailed

----------------------------------------------------------------------------
(***************************************************************************)
(* session.delete, session.fork and the same create again.                 *)
(***************************************************************************)
LEMMA BeginDeleteKeeps ==
    ASSUME VisInv, NEW c \in VCallers, NEW n \in VIds, BeginDelete(c, n)
    PROVE  VisInv'
  <1>1. PICK r : r = [NoVCall EXCEPT !.op = "delete", !.at = "delete", !.id = n]
    OBVIOUS
  <1>2. r \in VisRows /\ r.at = "delete" /\ r.id = n /\ r.hidden = {} /\ r.shown = {}
    <2>1. r = [op |-> "delete", at |-> "delete", id |-> n, kind |-> "visible", prov |-> "codex",
               known |-> {}, hidden |-> {}, shown |-> {}]
      BY <1>1 DEF NoVCall
    <2>2. n \in 0 .. MaxVSessions
      BY VisibilityAssumption DEF VIds
    <2> QED
      BY <2>1, <2>2 DEF VisRows, VisSteps, VKinds, Providers
  <1>3. CallBecomes(c, r) /\ VFrame /\ UNCHANGED vsess
    BY <1>1 DEF BeginDelete, CallBecomes
  <1> QED
    BY <1>2, <1>3, RestingKeeps

\* The provider deletes a session, or does not answer.
LEMMA DeleteKeeps ==
    ASSUME VisInv, NEW c \in VCallers, DeleteAtProvider(c)
    PROVE  VisInv'
  <1> DEFINE n == vcall[c].id
  <1>1. /\ vcall[c].at = "delete" /\ n \in VIds
        /\ UNCHANGED <<vstore, vdisk, vhidden>> /\ VFrame
    BY AtWork DEF DeleteAtProvider, VFrame
  <1>2. CASE VReturns(c) /\ UNCHANGED vsess
    BY <1>1, <1>2, ReturnKeeps
  <1>3. CASE vsess' = [vsess EXCEPT ![n].at = "deleted"] /\ VGoes(c, "forget")
    <2>1. PICK r \in VisRows :
             /\ CallBecomes(c, r) /\ r.at = "forget" /\ r.id = n /\ r.known = vcall[c].known
             /\ r.hidden = vcall[c].hidden /\ r.shown = vcall[c].shown
      BY <1>3, CallerGoes DEF VisInv, VisSteps
    <2>2. /\ vsess' \in [VIds -> SessionRows] /\ vsess'[n].at = "deleted"
          /\ \A m \in VIds : vsess[m].at # "none" => vsess'[m].at # "none"
          /\ \A m \in VIds : SessionGone(m) => vsess'[m].at = "deleted"
      BY <1>1, <1>3, SessionMoves
    <2>3. /\ vstore' \in Stores /\ vdisk' \in Sidecars /\ StoreIsSidecar' /\ vhidden' \in SUBSET VIds
      BY <1>1, AtWork DEF StoreIsSidecar
    <2>4. \A m \in r.hidden \ r.known : vsess'[m].at = "deleted"
      BY <2>1, <2>2, AtWork DEF VisRows, SessionGone
    <2> QED
      BY <1>1, <2>1, <2>2, <2>3, <2>4, AtWork, CallerKeeps
  <1> QED
    BY <1>2, <1>3 DEF DeleteAtProvider

\* A record is forgotten when its session is gone or was not answered.
LEMMA ForgetKeeps ==
    ASSUME VisInv, NEW c \in VCallers, ForgetSessionVisibility(c)
    PROVE  VisInv'
  <1> DEFINE n == vcall[c].id
  <1>1. /\ vcall[c].at = "forget" /\ n \in VIds /\ ForgetVisibility(n)
        /\ UNCHANGED <<vsess, vhidden>> /\ CallBecomes(c, NoVCall)
    BY AtWork DEF ForgetSessionVisibility, VReturns, CallBecomes
  <1>2. /\ vstore' \in Stores /\ vdisk' \in Sidecars /\ StoreIsSidecar'
        /\ \A m \in VIds \ {n} : m \in vdisk.internal => m \in vdisk'.internal
    BY <1>1, ForgetOne DEF VisInv
  <1>3. \A m \in VIds : m \in vdisk.internal =>
            m \in vdisk'.internal \/ SessionGone(m) \/ RowUnder(vcall[c], m)
    BY <1>1, <1>2 DEF RowUnder
  <1>4. vsess' \in [VIds -> SessionRows] /\ vhidden' \in SUBSET VIds
    BY <1>1, AtWork
  <1> QED
    BY <1>1, <1>2, <1>3, <1>4, RestingCaller, CallerKeeps DEF SessionGone

\* Sessions that come or come back, and callers as they are.
LEMMA SessionsKeep ==
    ASSUME VisInv, UNCHANGED <<vcall, vstore, vdisk, vhidden>>, vsess' \in [VIds -> SessionRows],
           \A n \in VIds : vsess[n].at # "none" => vsess'[n].at # "none",
           \A n \in VIds : SessionGone(n) => vsess'[n].at = "deleted"
    PROVE  VisInv'
  <1>1. VTypes' /\ StoreIsSidecar' /\ HiddenIsRecorded'
    BY DEF VisInv, VTypes, StoreIsSidecar, HiddenIsRecorded, SessionGone
  <1>2. \A c \in VCallers : Makes(c) \/ Undoes(c) => vcall[c].id \in VIds
    BY DEF VisInv, VTypes, Makes, Undoes
  <1>3. \A c \in VCallers : (Makes(c) \/ Undoes(c))' => vcall[c].id \in VIds /\ (Makes(c) \/ Undoes(c))
    BY DEF VisInv, VTypes, Makes, Undoes, SessionGone
  <1>4. OneMaker'
    BY <1>2, <1>3 DEF VisInv, OneMaker, Makes
  <1>5. RecordedIsOnDisk'
    BY <1>2 DEF VisInv, RecordedIsOnDisk, Makes, SessionGone
  <1>6. \A c \in VCallers : vcall[c].hidden \in SUBSET VIds
    BY DEF VisInv, VTypes, VisRows
  <1>7. ListsKnow' /\ InternalStaysHidden'
    BY <1>6 DEF VisInv, ListsKnow, InternalStaysHidden, SessionGone
  <1> QED
    BY <1>1, <1>4, <1>5, <1>7 DEF VisInv

\* A fork is a new visible session.
LEMMA ForkKeeps ==
    ASSUME VisInv, NEW c \in VCallers, NEW n \in VIds, Fork(c, n)
    PROVE  VisInv'
  <1>1. PICK m \in VIds : Fresh(m) /\ vsess' = [vsess EXCEPT ![m] = [vsess[n] EXCEPT !.kind = "visible"]]
    BY DEF Fork
  <1>2. vsess \in [VIds -> SessionRows]
    BY DEF VisInv, VTypes
  <1>3. PICK x : x = [vsess[n] EXCEPT !.kind = "visible"]
    OBVIOUS
  <1>4. x \in SessionRows /\ x.at = "live"
    BY <1>2, <1>3 DEF SessionRows, VKinds, Fork
  <1>5. vsess[m].at = "none"
    BY <1>1 DEF Fresh
  <1>6. /\ vsess' \in [VIds -> SessionRows] /\ vsess'[m].at = "live"
        /\ \A k \in VIds \ {m} : vsess'[k] = vsess[k]
    BY <1>1, <1>2, <1>3, <1>4
  <1> QED
    BY <1>5, <1>6, SessionsKeep DEF Fork, VFrame, SessionGone

\* A session comes back from the archive.
LEMMA UnarchiveKeeps ==
    ASSUME VisInv, NEW n \in VIds, Unarchive(n)
    PROVE  VisInv'
  <1>1. vsess' = [vsess EXCEPT ![n].at = "live"] /\ vsess[n].at = "archived"
        /\ UNCHANGED <<vcall, vstore, vdisk, vhidden>>
    BY DEF Unarchive, VFrame
  <1> QED
    BY <1>1, SessionMoves, SessionsKeep

\* The same create comes again ...
LEMMA BeginReplayKeeps ==
    ASSUME VisInv, NEW c \in VCallers, NEW n \in VIds, BeginReplay(c, n)
    PROVE  VisInv'
  <1>1. PICK r : r = [NoVCall EXCEPT !.op = "create", !.at = "replay", !.id = n]
    OBVIOUS
  <1>2. r \in VisRows /\ r.at = "replay" /\ r.id = n /\ r.hidden = {} /\ r.shown = {}
    <2>1. r = [op |-> "create", at |-> "replay", id |-> n, kind |-> "visible", prov |-> "codex",
               known |-> {}, hidden |-> {}, shown |-> {}]
      BY <1>1 DEF NoVCall
    <2>2. n \in 0 .. MaxVSessions
      BY VisibilityAssumption DEF VIds
    <2> QED
      BY <2>1, <2>2 DEF VisRows, VisSteps, VKinds, Providers
  <1>3. CallBecomes(c, r) /\ VFrame /\ UNCHANGED vsess
    BY <1>1 DEF BeginReplay, CallBecomes
  <1> QED
    BY <1>2, <1>3, RestingKeeps

\* ... and records the session once more.
LEMMA ReplayKeeps ==
    ASSUME VisInv, NEW c \in VCallers, ReplayCreate(c)
    PROVE  VisInv'
  <1> DEFINE n == vcall[c].id
  <1>1. /\ vcall[c].at = "replay" /\ n \in VIds /\ PutVisibility(n, "internal")
        /\ UNCHANGED <<vsess, vhidden>> /\ CallBecomes(c, NoVCall)
    BY AtWork DEF ReplayCreate, VReturns, CallBecomes
  <1>2. /\ vstore' \in Stores /\ vdisk' \in Sidecars /\ StoreIsSidecar'
        /\ \A m \in VIds : m \in vdisk.internal => m \in vdisk'.internal
    <2>1. "internal" \in VKinds
      BY DEF VKinds
    <2> QED
      BY <1>1, <2>1, PutOne DEF VisInv
  <1>3. vsess' \in [VIds -> SessionRows] /\ vhidden' \in SUBSET VIds
    BY <1>1, AtWork
  <1> QED
    BY <1>1, <1>2, <1>3, RestingCaller, CallerKeeps DEF SessionGone

----------------------------------------------------------------------------
(***************************************************************************)
(* session.list                                                            *)
(***************************************************************************)
\* The snapshot has every hidden session that is still there.
LEMMA SnapshotKeeps ==
    ASSUME VisInv, NEW c \in VCallers, VisibilitySnapshot(c)
    PROVE  VisInv'
  <1>1. PICK p \in Providers :
          vcall' = [vcall EXCEPT ![c] = [NoVCall EXCEPT !.op = "list", !.at = "threads", !.prov = p,
                                                       !.known = vstore.internal, !.hidden = vhidden]]
    BY DEF VisibilitySnapshot
  <1>2. PICK r : r = [NoVCall EXCEPT !.op = "list", !.at = "threads", !.prov = p,
                                     !.known = vstore.internal, !.hidden = vhidden]
    OBVIOUS
  <1>3. vstore.internal \in SUBSET VIds /\ vstore.internal = vdisk.internal /\ vhidden \in SUBSET VIds
    BY AtWork DEF VisibilitySnapshot, Stores, StoreIsSidecar
  <1>4. /\ r \in VisRows /\ r.at = "threads" /\ r.known = vdisk.internal /\ r.hidden = vhidden
        /\ r.shown = {}
    BY <1>2, <1>3, RestingCaller DEF VisRows, VisSteps
  <1>5. CallBecomes(c, r) /\ VFrame /\ UNCHANGED vsess
    BY <1>1, <1>2 DEF VisibilitySnapshot, CallBecomes
  <1>6. \A n \in r.hidden \ r.known : vsess[n].at = "deleted"
    BY <1>4 DEF VisInv, HiddenIsRecorded, SessionGone
  <1> QED
    BY <1>4, <1>5, <1>6, RestingKeeps

\* The steps of session.list.
LEMMA ListKeeps ==
    ASSUME VisInv, NEW c \in VCallers, SessionList(c)
    PROVE  VisInv'
  <1> DEFINE s == {n \in VIds \ vcall[c].known : vsess[n].at = "live" /\ vsess[n].prov = vcall[c].prov}
  <1>1. PICK l : l = s
    OBVIOUS
  <1>2. PICK r : r = [vcall[c] EXCEPT !.at = "listed", !.shown = l]
    OBVIOUS
  <1>3. /\ r \in VisRows /\ r.at = "listed" /\ r.known = vcall[c].known
        /\ r.hidden = vcall[c].hidden /\ r.shown = l
    BY <1>1, <1>2, AtWork DEF VisRows, VisSteps
  <1>4. CallBecomes(c, r) /\ VFrame /\ UNCHANGED vsess
    BY <1>1, <1>2, AtWork DEF SessionList, CallBecomes, VisInv, VTypes
  <1>5. /\ \A n \in r.hidden \ r.known : vsess[n].at = "deleted"
        /\ r.shown \cap r.hidden = {}
    BY <1>1, <1>3, AtWork
  <1> QED
    BY <1>3, <1>4, <1>5, RestingKeeps

\* The process ends, and its callers with it.
LEMMA LoadKeeps ==
    ASSUME VisInv, LoadVisibility
    PROVE  VisInv'
  <1>1. /\ vcall' = [c \in VCallers |-> NoVCall] /\ UNCHANGED <<vdisk, vsess, vhidden>>
        /\ \/ vstore' = [internal |-> vdisk.internal, visible |-> vdisk.visible, bad |-> FALSE]
           \/ vstore' = [internal |-> {}, visible |-> {}, bad |-> TRUE]
    BY DEF LoadVisibility
  <1>2. /\ vdisk \in Sidecars /\ vsess \in [VIds -> SessionRows] /\ vhidden \in SUBSET VIds
    BY DEF VisInv, VTypes
  <1>3. vstore' \in Stores /\ StoreIsSidecar'
    <2>1. vdisk.internal \in SUBSET VIds /\ vdisk.visible \in SUBSET VIds
      BY <1>2 DEF Sidecars
    <2>2. CASE vstore' = [internal |-> vdisk.internal, visible |-> vdisk.visible, bad |-> FALSE]
      BY <1>1, <2>1, <2>2 DEF Stores, StoreIsSidecar
    <2>3. CASE vstore' = [internal |-> {}, visible |-> {}, bad |-> TRUE]
      BY <2>3 DEF Stores, StoreIsSidecar
    <2> QED
      BY <1>1, <2>2, <2>3
  <1>4. \A c \in VCallers : vcall'[c] = NoVCall
    BY <1>1
  <1>5. VTypes'
    BY <1>1, <1>2, <1>3, RestingCaller DEF VTypes
  <1>6. HiddenIsRecorded'
    BY <1>1 DEF VisInv, HiddenIsRecorded, SessionGone
  <1>7. OneMaker' /\ RecordedIsOnDisk' /\ ListsKnow' /\ InternalStaysHidden'
    BY <1>4, RestingCaller DEF OneMaker, RecordedIsOnDisk, ListsKnow, InternalStaysHidden, Makes, Undoes
  <1> QED
    BY <1>3, <1>5, <1>6, <1>7 DEF VisInv

\* Every step keeps it.
LEMMA VisStays == VisInv /\ [VisNext]_visVars => VisInv'
  <1> SUFFICES ASSUME VisInv, [VisNext]_visVars PROVE VisInv'
    OBVIOUS
  <1>1. CASE UNCHANGED visVars
    BY <1>1 DEF visVars, VisInv, VTypes, StoreIsSidecar, HiddenIsRecorded, OneMaker,
       RecordedIsOnDisk, ListsKnow, InternalStaysHidden, Makes, Undoes, SessionGone
  <1>2. ASSUME NEW c \in VCallers, VisStep(c) PROVE VisInv'
    <2>1. ListAnswered(c) => VisInv'
      BY ReturnKeeps DEF ListAnswered
    <2> QED
      BY <1>2, <2>1, ResolveVisKeeps, MakeKeeps, PersistKeeps, EndsKeep, ArchiveKeeps, DeleteKeeps,
         ForgetKeeps, BeginDeleteKeeps, ForkKeeps, BeginReplayKeeps, ReplayKeeps, SnapshotKeeps,
         ListKeeps DEF VisStep
  <1> QED
    BY <1>1, <1>2, UnarchiveKeeps, LoadKeeps DEF VisNext

(***************************************************************************)
(* session.list never shows a session whose creation had been answered as  *)
(* internal when the list began (visibilitySnapshot,                       *)
(* persistSessionVisibility): for any number of callers, sessions and      *)
(* records, and under all faults.                                          *)
(***************************************************************************)
THEOREM HiddenStayHidden == VisSpec => []InternalStaysHidden
  <1>1. VisInv => InternalStaysHidden
    BY DEF VisInv
  <1> QED
    BY VisStarts, VisStays, <1>1, PTL DEF VisSpec

----------------------------------------------------------------------------
(***************************************************************************)
(* The application.                                                        *)
(***************************************************************************)
UiSteps == {"idle", "form", "fetch", "configure", "save", "set", "restart", "wait", "late", "start",
            "cleanup"}
UiRows == [at : UiSteps, op : {"", "config", "working", "connect", "ensure"}, page : LocalConfig,
           old : LocalConfig, next : LocalConfig, done : 0 .. MaxRuntimes, ver : 0 .. MaxVersions]
RuntimeRows == [cfg : LocalConfig, st : {"none", "running", "stopping", "gone"}]

(***************************************************************************)
(* The runtime that lives is the current one.                              *)
(***************************************************************************)
CurrentIsLive == \A i \in RIds : i \in Live <=> i = runtimeCur

(***************************************************************************)
(* What a page installs is a release.                                      *)
(***************************************************************************)
FetchesRelease == \A p \in Pages : uiop[p].at = "fetch" => uiop[p].ver # 0

(***************************************************************************)
(* runtimeRestartAfter has a goroutine.                                    *)
(***************************************************************************)
WaiterIsThere == restartAfter # 0 => [id |-> restartAfter, at |-> "wait"] \in delayed

(***************************************************************************)
(* Who starts the next runtime, once the current one has ended: a page     *)
(* that stopped it or was too early, or a goroutine.                       *)
(***************************************************************************)
Restarting == {"wait", "late", "start"}

SomeoneStarts == \/ \E p \in Pages : uiop[p].at \in Restarting
                 \/ restartAfter # 0
                 \/ \E d \in delayed : d.at = "start"

SomeoneWaits == \/ \E p \in Pages : \/ uiop[p].at = "late"
                                    \/ uiop[p].at = "wait" /\ uiop[p].done = runtimeCur
                \/ restartAfter = runtimeCur

SomeoneRestarts ==
    appAlive /\ ~failed =>
        /\ runtimeCur = 0 => SomeoneStarts
        /\ runtimeCur # 0 => runtimes[runtimeCur].st = "running" \/ SomeoneWaits

(***************************************************************************)
(* The types that the argument needs.                                      *)
(***************************************************************************)
AppTyped ==
    /\ uiConfig \in LocalConfig /\ savedConfig \in LocalConfig
    /\ runtimes \in [RIds -> RuntimeRows]
    /\ runtimeCur \in 0 .. MaxRuntimes /\ restartAfter \in 0 .. MaxRuntimes
    /\ delayed \subseteq [id : RIds, at : {"wait", "start"}]
    /\ uiop \in [Pages -> UiRows]
    /\ hubRelease \in 1 .. MaxVersions /\ installed \subseteq 1 .. MaxVersions
    /\ compLock \in Pages \cup {Nobody}
    /\ appAlive \in BOOLEAN /\ failed \in BOOLEAN /\ uiCount \in 0 .. MaxUIOps

AppInv == AppTyped /\ FetchesRelease /\ CurrentIsLive /\ WaiterIsThere /\ SomeoneRestarts

\* The bounds are numbers.
LEMMA Bounds ==
    /\ MaxVersions \in Nat /\ MaxVersions > 0 /\ MaxRuntimes \in Nat /\ MaxRuntimes > 0
    /\ MaxUIOps \in Nat
  BY AppAssumption

\* A page at rest is one of the rows.
LEMMA NoOpHere == NoConfig \in LocalConfig /\ NoOp \in UiRows /\ NoOp.at = "idle"
  BY Bounds DEF NoConfig, LocalConfig, NoOp, UiRows, UiSteps

\* At the start the first runtime runs.
LEMMA AppStarts == AppInit => AppInv
  <1> SUFFICES ASSUME AppInit PROVE AppInv
    OBVIOUS
  <1>1. /\ uiConfig \in LocalConfig /\ savedConfig \in LocalConfig /\ runtimeCur = 1
        /\ restartAfter = 0 /\ delayed = {} /\ installed = {} /\ hubRelease = 1
        /\ uiop = [p \in Pages |-> NoOp] /\ compLock = Nobody /\ appAlive = TRUE
        /\ failed = FALSE /\ uiCount = 0
    BY NoOpHere DEF AppInit
  <1>2. [cfg |-> NoConfig, st |-> "running"] \in RuntimeRows /\ NoRuntime \in RuntimeRows
        /\ NoRuntime.st = "none"
    BY NoOpHere DEF RuntimeRows, NoRuntime
  <1>3. runtimes = [i \in RIds |-> IF i = 1 THEN [cfg |-> NoConfig, st |-> "running"] ELSE NoRuntime]
    BY DEF AppInit
  <1>4. 1 \in RIds /\ 0 \notin RIds
    BY Bounds DEF RIds
  <1>5. /\ runtimes \in [RIds -> RuntimeRows] /\ runtimes[1].st = "running"
        /\ \A i \in RIds \ {1} : runtimes[i].st = "none"
    BY <1>2, <1>3, <1>4
  <1>6. AppTyped
    <2>1. uiop \in [Pages -> UiRows]
      BY <1>1, NoOpHere
    <2>2. 1 \in 1 .. MaxVersions /\ 1 \in 0 .. MaxRuntimes /\ 0 \in 0 .. MaxRuntimes /\ 0 \in 0 .. MaxUIOps
      BY Bounds
    <2> QED
      BY <1>1, <1>5, <2>1, <2>2 DEF AppTyped
  <1>7. CurrentIsLive
    BY <1>1, <1>5 DEF CurrentIsLive, Live
  <1> QED
    BY <1>1, <1>5, <1>6, <1>7, NoOpHere DEF AppInv, FetchesRelease, WaiterIsThere, SomeoneRestarts

----------------------------------------------------------------------------
(***************************************************************************)
(* A page becomes r.                                                       *)
(***************************************************************************)
LEMMA PagePut ==
    ASSUME AppTyped, NEW p \in Pages, NEW r \in UiRows, Goes1(p, r)
    PROVE  /\ uiop' \in [Pages -> UiRows] /\ uiop'[p] = r
           /\ \A q \in Pages \ {p} : uiop'[q] = uiop[q]
  BY DEF Goes1, AppTyped

\* A page goes to at and keeps the rest of its request.
LEMMA PageTo ==
    ASSUME AppTyped, NEW p \in Pages, NEW at \in UiSteps, To1(p, at)
    PROVE  \E r \in UiRows : /\ Goes1(p, r) /\ r.at = at /\ r.done = uiop[p].done
                             /\ r.op = uiop[p].op /\ r.ver = uiop[p].ver
  <1>1. uiop[p] \in UiRows
    BY DEF AppTyped
  <1>2. PICK r : r = [uiop[p] EXCEPT !.at = at]
    OBVIOUS
  <1>3. /\ r \in UiRows /\ r.at = at /\ r.done = uiop[p].done /\ r.op = uiop[p].op
        /\ r.ver = uiop[p].ver
    BY <1>1, <1>2 DEF UiRows
  <1>4. Goes1(p, r)
    BY <1>2 DEF To1
  <1> QED
    BY <1>3, <1>4

\* What a step keeps of the rest.
AppFrameTyped ==
    /\ uiConfig' \in LocalConfig /\ savedConfig' \in LocalConfig
    /\ hubRelease' \in 1 .. MaxVersions /\ installed' \subseteq 1 .. MaxVersions
    /\ compLock' \in Pages \cup {Nobody} /\ uiCount' \in 0 .. MaxUIOps

\* A page that nobody waits for makes a step, and the runtime stays.
LEMMA PageKeeps ==
    ASSUME AppInv, NEW p \in Pages, NEW r \in UiRows, Goes1(p, r), uiop[p].at \notin Restarting,
           r.at = "fetch" => r.ver # 0, AppFrameTyped, UNCHANGED <<runVars0, appAlive>>
    PROVE  AppInv'
  <1>1. /\ uiop' \in [Pages -> UiRows] /\ uiop'[p] = r
        /\ \A q \in Pages \ {p} : uiop'[q] = uiop[q]
    BY PagePut DEF AppInv
  <1>2. UNCHANGED <<runtimes, runtimeCur, restartAfter, delayed, failed, appAlive>>
    BY DEF runVars0
  <1>3. AppTyped'
    BY <1>1, <1>2 DEF AppInv, AppFrameTyped, AppTyped
  <1>4. FetchesRelease' /\ CurrentIsLive' /\ WaiterIsThere'
    BY <1>1, <1>2 DEF AppInv, FetchesRelease, CurrentIsLive, Live, WaiterIsThere
  <1>5. \A q \in Pages : uiop[q].at \in Restarting => uiop'[q] = uiop[q]
    BY <1>1
  <1>6. SomeoneRestarts'
    BY <1>2, <1>5 DEF AppInv, SomeoneRestarts, SomeoneStarts, SomeoneWaits, Restarting
  <1> QED
    BY <1>3, <1>4, <1>6 DEF AppInv

\* The types of what a page reads.
LEMMA PageResting ==
    ASSUME AppInv, NEW p \in Pages
    PROVE  /\ uiop[p] \in UiRows /\ uiConfig \in LocalConfig /\ savedConfig \in LocalConfig
           /\ hubRelease \in 1 .. MaxVersions /\ installed \subseteq 1 .. MaxVersions
           /\ compLock \in Pages \cup {Nobody} /\ uiCount \in 0 .. MaxUIOps
           /\ uiCount < MaxUIOps => uiCount + 1 \in 0 .. MaxUIOps
  BY Bounds DEF AppInv, AppTyped

\* A configuration with another machine name, or another project.
LEMMA ConfigSet ==
    ASSUME NEW c \in LocalConfig
    PROVE  /\ [c EXCEPT !.name = 1 - @] \in LocalConfig
           /\ [c EXCEPT !.work = 1] \in LocalConfig
           /\ \A w \in 0 .. 1 : [c EXCEPT !.name = 1 - @, !.work = w] \in LocalConfig
  <1>1. c.dir \in 0 .. MaxVersions /\ c.name \in 0 .. 1 /\ c.work \in 0 .. 1
    BY DEF LocalConfig
  <1>2. 1 - c.name \in 0 .. 1 /\ 1 \in 0 .. 1
    BY <1>1
  <1>3. [c EXCEPT !.name = 1 - @] \in LocalConfig
    <2>1. [c EXCEPT !.name = 1 - @] = [dir |-> c.dir, name |-> 1 - c.name, work |-> c.work]
      BY DEF LocalConfig
    <2> QED
      BY <1>1, <1>2, <2>1 DEF LocalConfig
  <1>4. [c EXCEPT !.work = 1] \in LocalConfig
    <2>1. [c EXCEPT !.work = 1] = [dir |-> c.dir, name |-> c.name, work |-> 1]
      BY DEF LocalConfig
    <2> QED
      BY <1>1, <1>2, <2>1 DEF LocalConfig
  <1>5. ASSUME NEW w \in 0 .. 1
        PROVE  [c EXCEPT !.name = 1 - @, !.work = w] \in LocalConfig
    <2>1. PICK m : m = [c EXCEPT !.name = 1 - @]
      OBVIOUS
    <2>2. m \in LocalConfig
      BY <1>3, <2>1
    <2>3. [c EXCEPT !.name = 1 - @, !.work = w] = [m EXCEPT !.work = w]
      BY <2>1, Zenon
    <2>4. [m EXCEPT !.work = w] = [dir |-> m.dir, name |-> m.name, work |-> w]
      BY <2>2 DEF LocalConfig
    <2> QED
      BY <2>2, <2>3, <2>4 DEF LocalConfig
  <1> QED
    BY <1>3, <1>4, <1>5

(***************************************************************************)
(* The requests, up to the moment they store a configuration, and then.    *)
(***************************************************************************)
LEMMA AsksKeep ==
    ASSUME AppInv, NEW p \in Pages,
           HandleStatus(p) \/ HandleConfig(p) \/ BindWorkingProject(p) \/ HandleConnect(p)
    PROVE  AppInv'
  <1>1. /\ uiop[p] \in UiRows /\ uiConfig \in LocalConfig /\ savedConfig \in LocalConfig
        /\ hubRelease \in 1 .. MaxVersions /\ installed \subseteq 1 .. MaxVersions
        /\ compLock \in Pages \cup {Nobody} /\ uiCount \in 0 .. MaxUIOps
        /\ uiCount < MaxUIOps => uiCount + 1 \in 0 .. MaxUIOps
    BY PageResting
  <1>2. \A c \in LocalConfig : /\ [c EXCEPT !.name = 1 - @] \in LocalConfig
                               /\ [c EXCEPT !.work = 1] \in LocalConfig
                               /\ \A w \in 0 .. 1 : [c EXCEPT !.name = 1 - @, !.work = w] \in LocalConfig
    BY ConfigSet
  <1>3. uiConfig.work \in 0 .. 1
    BY <1>1 DEF LocalConfig
  <1>4. CASE HandleStatus(p)
    <2>1. PICK r : r = [NoOp EXCEPT !.at = "form", !.page = uiConfig]
      OBVIOUS
    <2>2. r \in UiRows /\ Goes1(p, r) /\ r.at = "form"
      BY <1>1, <1>4, <2>1, NoOpHere DEF HandleStatus, UiRows, UiSteps
    <2>3. AppFrameTyped /\ uiop[p].at \notin Restarting /\ UNCHANGED <<runVars0, appAlive>>
      BY <1>1, <1>4 DEF HandleStatus, AppFrameTyped, configVars, componentVars, Restarting
    <2> QED
      BY <2>2, <2>3, PageKeeps
  <1>5. CASE HandleConfig(p)
    <2>1. PICK n : n = [uiop[p].page EXCEPT !.name = 1 - @, !.work = uiConfig.work]
      OBVIOUS
    <2>2. n \in LocalConfig
      <3>1. uiop[p].page \in LocalConfig
        BY <1>1 DEF UiRows
      <3> QED
        BY <1>2, <1>3, <2>1, <3>1
    <2>3. PICK r : r = [uiop[p] EXCEPT !.at = "save", !.op = "config", !.old = uiConfig, !.next = n]
      OBVIOUS
    <2>4. r \in UiRows /\ r.at # "fetch"
      BY <1>1, <2>2, <2>3 DEF UiRows, UiSteps
    <2>5. Goes1(p, r)
      BY <1>5, <2>1, <2>3 DEF HandleConfig
    <2>6. AppFrameTyped /\ uiop[p].at \notin Restarting /\ UNCHANGED <<runVars0, appAlive>>
      BY <1>1, <1>5 DEF HandleConfig, NewRequest, AppFrameTyped, configVars, componentVars, Restarting
    <2> QED
      BY <2>4, <2>5, <2>6, PageKeeps
  <1>6. CASE BindWorkingProject(p)
    <2>1. PICK n : n = [uiConfig EXCEPT !.work = 1]
      OBVIOUS
    <2>2. n \in LocalConfig
      BY <1>1, <1>2, <2>1
    <2>3. PICK r : r = [NoOp EXCEPT !.at = "save", !.op = "working", !.old = uiConfig, !.next = n]
      OBVIOUS
    <2>4. r \in UiRows /\ r.at # "fetch"
      BY <1>1, <2>2, <2>3, NoOpHere DEF UiRows, UiSteps
    <2>5. Goes1(p, r)
      BY <1>6, <2>1, <2>3 DEF BindWorkingProject
    <2>6. AppFrameTyped /\ uiop[p].at \notin Restarting /\ UNCHANGED <<runVars0, appAlive>>
      BY <1>1, <1>6 DEF BindWorkingProject, NewRequest, AppFrameTyped, configVars, componentVars,
         Restarting
    <2> QED
      BY <2>4, <2>5, <2>6, PageKeeps
  <1>7. CASE HandleConnect(p)
    <2>1. PICK n : n = [uiConfig EXCEPT !.name = 1 - @]
      OBVIOUS
    <2>2. n \in LocalConfig /\ uiConfig' = n
      BY <1>1, <1>2, <1>7, <2>1 DEF HandleConnect
    <2>3. PICK r : r = [NoOp EXCEPT !.at = "save", !.op = "connect", !.old = uiConfig, !.next = n]
      OBVIOUS
    <2>4. r \in UiRows /\ r.at # "fetch"
      BY <1>1, <2>2, <2>3, NoOpHere DEF UiRows, UiSteps
    <2>5. Goes1(p, r)
      BY <1>7, <2>2, <2>3 DEF HandleConnect
    <2>6. AppFrameTyped /\ uiop[p].at \notin Restarting /\ UNCHANGED <<runVars0, appAlive>>
      BY <1>1, <1>7, <2>2 DEF HandleConnect, NewRequest, AppFrameTyped, componentVars, Restarting
    <2> QED
      BY <2>4, <2>5, <2>6, PageKeeps
  <1> QED
    BY <1>4, <1>5, <1>6, <1>7

\* The steps that install a component.
LEMMA EnsureKeeps ==
    ASSUME AppInv, NEW p \in Pages,
           Ensure(p) \/ PublishComponent(p) \/ EnsureFails(p) \/ ConfigureInstalledComponent(p)
           \/ CleanupInstalled(p)
    PROVE  AppInv'
  <1>1. /\ uiop[p] \in UiRows /\ uiConfig \in LocalConfig /\ savedConfig \in LocalConfig
        /\ hubRelease \in 1 .. MaxVersions /\ installed \subseteq 1 .. MaxVersions
        /\ compLock \in Pages \cup {Nobody} /\ uiCount \in 0 .. MaxUIOps
        /\ uiCount < MaxUIOps => uiCount + 1 \in 0 .. MaxUIOps
    BY PageResting
  <1>2. CASE Ensure(p)
    <2>1. PICK r : r = [NoOp EXCEPT !.at = "fetch", !.op = "ensure", !.ver = hubRelease]
      OBVIOUS
    <2>2. r \in UiRows /\ r.ver # 0
      <3>1. hubRelease \in 0 .. MaxVersions /\ hubRelease # 0
        BY <1>1, Bounds
      <3>2. \A x \in UiRows : \A v \in 0 .. MaxVersions :
                /\ [x EXCEPT !.at = "fetch", !.op = "ensure", !.ver = v] \in UiRows
                /\ [x EXCEPT !.at = "fetch", !.op = "ensure", !.ver = v].ver = v
        BY DEF UiRows, UiSteps
      <3> QED
        BY <2>1, <3>1, <3>2, NoOpHere
    <2>3. Goes1(p, r)
      BY <1>2, <2>1 DEF Ensure
    <2>4. AppFrameTyped /\ uiop[p].at \notin Restarting /\ UNCHANGED <<runVars0, appAlive>>
      BY <1>1, <1>2 DEF Ensure, NewRequest, AppFrameTyped, configVars, Restarting
    <2> QED
      BY <2>2, <2>3, <2>4, PageKeeps
  <1>3. CASE PublishComponent(p)
    <2>1. PICK r \in UiRows : Goes1(p, r) /\ r.at = "configure"
      BY <1>3, PageTo DEF PublishComponent, AppInv, UiSteps
    <2>2. installed' \subseteq 1 .. MaxVersions
      <3>1. uiop[p].ver \in 0 .. MaxVersions /\ uiop[p].ver # 0
        BY <1>1, <1>3 DEF PublishComponent, AppInv, FetchesRelease, UiRows
      <3>2. uiop[p].ver \in 1 .. MaxVersions
        BY <3>1, Bounds
      <3> QED
        BY <1>1, <1>3, <3>2 DEF PublishComponent
    <2>3. AppFrameTyped /\ uiop[p].at \notin Restarting /\ UNCHANGED <<runVars0, appAlive>>
      BY <1>1, <1>3, <2>2 DEF PublishComponent, AppFrameTyped, configVars, Restarting
    <2> QED
      BY <2>1, <2>3, PageKeeps
  <1>4. CASE EnsureFails(p)
    <2>1. AppFrameTyped /\ uiop[p].at \notin Restarting /\ UNCHANGED <<runVars0, appAlive>>
      BY <1>1, <1>4 DEF EnsureFails, AppFrameTyped, configVars, Restarting
    <2> QED
      BY <1>4, <2>1, NoOpHere, PageKeeps DEF EnsureFails
  <1>5. CASE ConfigureInstalledComponent(p)
    <2>1. PICK n : n = [uiConfig EXCEPT !.dir = uiop[p].ver]
      OBVIOUS
    <2>2. n \in LocalConfig
      BY <1>1, <2>1 DEF LocalConfig, UiRows
    <2>3. PICK r : r = [uiop[p] EXCEPT
                           !.at = IF uiConfig.dir = uiop[p].ver THEN "cleanup" ELSE "save",
                           !.old = uiConfig, !.next = n]
      OBVIOUS
    <2>4. r \in UiRows /\ r.at # "fetch"
      BY <1>1, <2>2, <2>3 DEF UiRows, UiSteps
    <2>5. Goes1(p, r)
      BY <1>5, <2>1, <2>3 DEF ConfigureInstalledComponent
    <2>6. AppFrameTyped /\ uiop[p].at \notin Restarting /\ UNCHANGED <<runVars0, appAlive>>
      BY <1>1, <1>5 DEF ConfigureInstalledComponent, AppFrameTyped, configVars, componentVars, Restarting
    <2> QED
      BY <2>4, <2>5, <2>6, PageKeeps
  <1>6. CASE CleanupInstalled(p)
    <2>1. AppFrameTyped /\ uiop[p].at \notin Restarting /\ UNCHANGED <<runVars0, appAlive>>
      BY <1>1, <1>6 DEF CleanupInstalled, AppFrameTyped, configVars, Restarting
    <2> QED
      BY <1>6, <2>1, NoOpHere, PageKeeps DEF CleanupInstalled
  <1> QED
    BY <1>2, <1>3, <1>4, <1>5, <1>6

\* The steps that store a configuration.
LEMMA StoresKeep ==
    ASSUME AppInv, NEW p \in Pages, SaveLocalConfig(p) \/ SetConfig(p)
    PROVE  AppInv'
  <1>1. /\ uiop[p] \in UiRows /\ uiConfig \in LocalConfig /\ savedConfig \in LocalConfig
        /\ hubRelease \in 1 .. MaxVersions /\ installed \subseteq 1 .. MaxVersions
        /\ compLock \in Pages \cup {Nobody} /\ uiCount \in 0 .. MaxUIOps
    BY PageResting
  <1>2. uiop[p].next \in LocalConfig /\ {"restart", "set"} \subseteq UiSteps
    BY <1>1 DEF UiRows, UiSteps
  <1>3. CASE SaveLocalConfig(p)
    <2>1. AppFrameTyped /\ uiop[p].at \notin Restarting /\ UNCHANGED <<runVars0, appAlive>>
      BY <1>1, <1>2, <1>3 DEF SaveLocalConfig, AppFrameTyped, componentVars, Restarting
    <2>2. \/ Goes1(p, NoOp)
          \/ To1(p, IF uiop[p].op = "connect" THEN "restart" ELSE "set")
      BY <1>3 DEF SaveLocalConfig
    <2>3. \E r \in UiRows : Goes1(p, r) /\ r.at # "fetch"
      BY <1>2, <2>2, NoOpHere, PageTo DEF AppInv
    <2> QED
      BY <2>1, <2>3, PageKeeps
  <1>4. CASE SetConfig(p)
    <2>1. AppFrameTyped /\ uiop[p].at \notin Restarting /\ UNCHANGED <<runVars0, appAlive>>
      BY <1>1, <1>2, <1>4 DEF SetConfig, AppFrameTyped, componentVars, Restarting
    <2>2. Goes1(p, NoOp) \/ To1(p, "restart")
      BY <1>4 DEF SetConfig
    <2>3. \E r \in UiRows : Goes1(p, r) /\ r.at # "fetch"
      BY <1>2, <2>2, NoOpHere, PageTo DEF AppInv
    <2> QED
      BY <2>1, <2>3, PageKeeps
  <1> QED
    BY <1>3, <1>4

----------------------------------------------------------------------------
(***************************************************************************)
(* The runtime.                                                            *)
(***************************************************************************)
LEMMA CurrentOne ==
    ASSUME AppInv
    PROVE  /\ 0 \notin RIds /\ runtimeCur \in RIds \cup {0} /\ runtimeCur \in 0 .. MaxRuntimes
           /\ runtimes \in [RIds -> RuntimeRows]
           /\ runtimeCur # 0 => runtimes[runtimeCur].st \in {"running", "stopping"}
           /\ \A i \in RIds \ {runtimeCur} : runtimes[i].st \in {"none", "gone"}
  <1>1. /\ runtimes \in [RIds -> RuntimeRows] /\ runtimeCur \in 0 .. MaxRuntimes
        /\ 0 \notin RIds /\ runtimeCur \in RIds \cup {0}
    BY Bounds DEF AppInv, RIds, AppTyped
  <1>2. \A i \in RIds : runtimes[i].st \in {"none", "running", "stopping", "gone"}
    BY <1>1 DEF RuntimeRows
  <1> QED
    BY <1>1, <1>2 DEF AppInv, CurrentIsLive, Live

\* The frame of the steps that change the runtime.
AppRest == UNCHANGED <<configVars, componentVars, uiCount>>

\* Steps of the runtime leave the rest as it is.
LEMMA RestTyped ==
    ASSUME AppInv, AppRest
    PROVE  AppFrameTyped
  BY DEF AppInv, AppRest, AppFrameTyped, configVars, componentVars, AppTyped

\* The current runtime is cancelled.
LEMMA StopKeeps ==
    ASSUME AppInv, NEW p \in Pages, StopRuntime(p)
    PROVE  AppInv'
  <1>1. /\ uiop[p] \in UiRows /\ uiop[p].at = "restart" /\ AppRest
        /\ UNCHANGED <<runtimeCur, restartAfter, delayed, failed, appAlive>>
    BY PageResting DEF StopRuntime, AppRest
  <1>2. CASE runtimeCur = 0
    <2>1. PICK r \in UiRows : Goes1(p, r) /\ r.at = "start"
      BY <1>2, PageTo DEF StopRuntime, AppInv, UiSteps
    <2>2. UNCHANGED <<runVars0, appAlive>>
      BY <1>1, <1>2 DEF StopRuntime, runVars0
    <2> QED
      BY <1>1, <2>1, <2>2, RestTyped, PageKeeps DEF Restarting
  <1>3. CASE runtimeCur # 0
    <2>1. PICK r : r = [uiop[p] EXCEPT !.at = "wait", !.done = runtimeCur]
      OBVIOUS
    <2>2. r \in UiRows /\ r.at = "wait" /\ r.done = runtimeCur
      BY <1>1, <2>1, CurrentOne DEF UiRows, UiSteps
    <2>3. /\ uiop' \in [Pages -> UiRows] /\ uiop'[p] = r
          /\ \A q \in Pages \ {p} : uiop'[q] = uiop[q]
      BY <1>3, <2>1, <2>2, PagePut DEF StopRuntime, AppInv
    <2>4. /\ runtimes' \in [RIds -> RuntimeRows] /\ runtimes'[runtimeCur].st = "stopping"
          /\ \A i \in RIds \ {runtimeCur} : runtimes'[i] = runtimes[i]
      <3>1. runtimes' = [runtimes EXCEPT ![runtimeCur].st = IF @ = "running" THEN "stopping" ELSE @]
        BY <1>3 DEF StopRuntime
      <3>2. PICK x : x = [runtimes[runtimeCur] EXCEPT !.st = "stopping"]
        OBVIOUS
      <3>3. x \in RuntimeRows /\ x.st = "stopping"
        BY <1>3, <3>2, CurrentOne DEF RuntimeRows
      <3>4. runtimes' = [runtimes EXCEPT ![runtimeCur] = x]
        <4>1. runtimes[runtimeCur] \in RuntimeRows
          BY <1>3, CurrentOne
        <4>2. CASE runtimes[runtimeCur].st = "running"
          BY <3>1, <3>2, <4>2
        <4>3. CASE runtimes[runtimeCur].st = "stopping"
          BY <3>1, <3>2, <4>3
        <4> QED
          BY <1>3, <4>2, <4>3, CurrentOne
      <3> QED
        BY <1>3, <3>3, <3>4, CurrentOne
    <2>5. AppTyped'
      BY <1>1, <2>3, <2>4, RestTyped DEF AppInv, AppFrameTyped, AppTyped
    <2>6. FetchesRelease' /\ CurrentIsLive' /\ WaiterIsThere'
      BY <1>1, <1>3, <2>2, <2>3, <2>4, CurrentOne
         DEF AppInv, FetchesRelease, CurrentIsLive, Live, WaiterIsThere
    <2>7. SomeoneRestarts'
      BY <1>1, <1>3, <2>2, <2>3 DEF SomeoneRestarts, SomeoneWaits
    <2> QED
      BY <2>5, <2>6, <2>7 DEF AppInv
  <1> QED
    BY <1>2, <1>3

\* A page goes on, the runtimes as they are.
LEMMA PageGoesOn ==
    ASSUME AppInv, NEW p \in Pages, NEW r \in UiRows, Goes1(p, r), AppRest, r.at # "fetch",
           UNCHANGED <<runtimes, runtimeCur, failed, appAlive>>,
           restartAfter' \in 0 .. MaxRuntimes, delayed' \subseteq [id : RIds, at : {"wait", "start"}],
           WaiterIsThere', SomeoneRestarts'
    PROVE  AppInv'
  <1>1. uiop' \in [Pages -> UiRows] /\ FetchesRelease'
    BY PagePut DEF AppInv, FetchesRelease
  <1>2. AppTyped' /\ CurrentIsLive'
    BY <1>1, RestTyped DEF AppInv, AppFrameTyped, CurrentIsLive, Live, AppTyped
  <1> QED
    BY <1>1, <1>2 DEF AppInv

\* After a restart the page is answered or cleans up.
LEMMA AfterRestartGoes ==
    ASSUME AppInv, NEW p \in Pages, AfterRestart(p)
    PROVE  \E r \in UiRows : Goes1(p, r) /\ r.at \in {"idle", "cleanup"}
  BY NoOpHere, PageTo DEF AfterRestart, AppInv, UiSteps

\* The page waits for the runtime that it stopped.
LEMMA WaitKeeps ==
    ASSUME AppInv, NEW p \in Pages, WaitStopped(p)
    PROVE  AppInv'
  <1>1. /\ uiop[p].at = "wait" /\ AppRest /\ UNCHANGED <<runVars0, appAlive>>
        /\ UNCHANGED <<runtimes, runtimeCur, restartAfter, delayed, failed, appAlive>>
    BY DEF WaitStopped, AppRest, runVars0
  <1>2. PICK r \in UiRows : /\ Goes1(p, r)
                            /\ r.at = "late" \/ (r.at = "start" /\ uiop[p].done \notin Live)
    BY PageTo DEF WaitStopped, AppInv, UiSteps
  <1>3. uiop'[p] = r /\ \A q \in Pages \ {p} : uiop'[q] = uiop[q]
    BY <1>2, PagePut DEF AppInv
  <1>4. SomeoneRestarts'
    <2>1. SomeoneStarts'
      BY <1>2, <1>3 DEF SomeoneStarts, Restarting
    <2>2. runtimeCur # 0 /\ SomeoneWaits => SomeoneWaits'
      <3>1. runtimeCur # 0 /\ r.at = "start" => uiop[p].done # runtimeCur
        BY <1>1, <1>2, CurrentOne DEF Live
      <3> QED
        BY <1>1, <1>2, <1>3, <3>1 DEF SomeoneWaits
    <2> QED
      BY <1>1, <2>1, <2>2 DEF AppInv, SomeoneRestarts
  <1>5. WaiterIsThere' /\ restartAfter' \in 0 .. MaxRuntimes
        /\ delayed' \subseteq [id : RIds, at : {"wait", "start"}]
    BY <1>1 DEF AppInv, WaiterIsThere, AppTyped
  <1> QED
    BY <1>1, <1>2, <1>4, <1>5, PageGoesOn

\* What a start makes of the runtimes.
LEMMA RuntimeStarts ==
    ASSUME AppInv, StartsRuntime
    PROVE  \/ /\ runtimeCur # 0 \/ ~appAlive
              /\ UNCHANGED <<runtimes, runtimeCur, failed>>
           \/ /\ runtimes' \in [RIds -> RuntimeRows] /\ runtimeCur' \in RIds /\ failed' = FALSE
              /\ runtimes'[runtimeCur'].st = "running"
              /\ \A i \in RIds \ {runtimeCur'} : runtimes'[i].st \in {"none", "gone"}
  <1>1. CASE runtimeCur # 0 \/ ~appAlive
    BY <1>1 DEF StartsRuntime
  <1>2. CASE runtimeCur = 0 /\ StartsAnother
    <2>1. PICK i \in RIds :
            /\ runtimes' = [runtimes EXCEPT ![i] = [cfg |-> uiConfig, st |-> "running"]]
            /\ runtimeCur' = i /\ failed' = FALSE
      BY <1>2 DEF StartsAnother
    <2>2. [cfg |-> uiConfig, st |-> "running"] \in RuntimeRows
      BY DEF AppInv, RuntimeRows, AppTyped
    <2> QED
      BY <1>2, <2>1, <2>2, CurrentOne
  <1> QED
    BY <1>1, <1>2 DEF StartsRuntime

\* A start by a page or a goroutine, which is needed no more.
LEMMA StartedKeeps ==
    ASSUME AppInv, StartsRuntime, AppRest, uiop' \in [Pages -> UiRows], FetchesRelease',
           UNCHANGED <<restartAfter, appAlive>>,
           delayed' \subseteq [id : RIds, at : {"wait", "start"}], WaiterIsThere',
           \A p \in Pages : uiop[p].at \in {"wait", "late"} => uiop'[p] = uiop[p]
    PROVE  AppInv'
  <1>1. CASE /\ runtimeCur # 0 \/ ~appAlive
             /\ UNCHANGED <<runtimes, runtimeCur, failed>>
    <2>1. AppTyped' /\ CurrentIsLive'
      BY <1>1, RestTyped DEF AppInv, AppFrameTyped, CurrentIsLive, Live, AppTyped
    <2>2. SomeoneRestarts'
      BY <1>1 DEF AppInv, SomeoneRestarts, SomeoneWaits
    <2> QED
      BY <2>1, <2>2 DEF AppInv
  <1>2. CASE /\ runtimes' \in [RIds -> RuntimeRows] /\ runtimeCur' \in RIds /\ failed' = FALSE
             /\ runtimes'[runtimeCur'].st = "running"
             /\ \A i \in RIds \ {runtimeCur'} : runtimes'[i].st \in {"none", "gone"}
    <2>1. runtimeCur' \in 0 .. MaxRuntimes /\ runtimeCur' # 0
      BY <1>2, Bounds DEF RIds
    <2>2. AppTyped'
      BY <1>2, <2>1, RestTyped DEF AppInv, AppFrameTyped, AppTyped
    <2>3. CurrentIsLive' /\ SomeoneRestarts'
      BY <1>2, <2>1 DEF CurrentIsLive, Live, SomeoneRestarts
    <2> QED
      BY <2>2, <2>3 DEF AppInv
  <1> QED
    BY <1>1, <1>2, RuntimeStarts

\* A page starts the next runtime.
LEMMA StartKeeps ==
    ASSUME AppInv, NEW p \in Pages, StartRuntime(p)
    PROVE  AppInv'
  <1>1. /\ uiop[p].at = "start" /\ AppRest /\ StartsRuntime
        /\ UNCHANGED <<restartAfter, delayed, appAlive>>
    BY DEF StartRuntime, AppRest
  <1>2. PICK r \in UiRows : Goes1(p, r) /\ r.at \in {"idle", "cleanup"}
    BY AfterRestartGoes DEF StartRuntime
  <1>3. /\ uiop' \in [Pages -> UiRows] /\ uiop'[p] = r
        /\ \A q \in Pages \ {p} : uiop'[q] = uiop[q]
    BY <1>2, PagePut DEF AppInv
  <1>4. FetchesRelease' /\ WaiterIsThere' /\ delayed' \subseteq [id : RIds, at : {"wait", "start"}]
    BY <1>1, <1>2, <1>3 DEF AppInv, FetchesRelease, WaiterIsThere, AppTyped
  <1> QED
    BY <1>1, <1>3, <1>4, StartedKeeps

\* A page that was too early leaves the start to a goroutine.
LEMMA LaterKeeps ==
    ASSUME AppInv, NEW p \in Pages, RestartLater(p)
    PROVE  AppInv'
  <1>1. /\ uiop[p].at = "late" /\ AppRest
        /\ UNCHANGED <<runtimes, runtimeCur, failed, appAlive>>
    BY DEF RestartLater, AppRest
  <1>2. /\ restartAfter \in 0 .. MaxRuntimes /\ delayed \subseteq [id : RIds, at : {"wait", "start"}]
        /\ WaiterIsThere
    BY DEF AppInv, AppTyped
  <1>3. CASE runtimeCur = 0 /\ To1(p, "start") /\ UNCHANGED <<restartAfter, delayed>>
    <2>1. PICK r \in UiRows : Goes1(p, r) /\ r.at = "start"
      BY <1>3, PageTo DEF AppInv, UiSteps
    <2>2. uiop'[p] = r
      BY <2>1, PagePut DEF AppInv
    <2>3. SomeoneRestarts' /\ WaiterIsThere'
      BY <1>1, <1>2, <1>3, <2>1, <2>2 DEF SomeoneRestarts, SomeoneStarts, Restarting, WaiterIsThere
    <2> QED
      BY <1>1, <1>2, <1>3, <2>1, <2>3, PageGoesOn
  <1>4. CASE /\ runtimeCur # 0 /\ restartAfter' = runtimeCur /\ AfterRestart(p)
             /\ delayed' \subseteq [id : RIds, at : {"wait", "start"}] /\ WaiterIsThere'
    <2>1. PICK r \in UiRows : Goes1(p, r) /\ r.at \in {"idle", "cleanup"}
      BY <1>4, AfterRestartGoes
    <2>2. SomeoneRestarts'
      BY <1>1, <1>4 DEF SomeoneRestarts, SomeoneWaits
    <2>3. restartAfter' \in 0 .. MaxRuntimes
      BY <1>4, CurrentOne
    <2> QED
      BY <1>1, <1>4, <2>1, <2>2, <2>3, PageGoesOn
  <1>5. CASE /\ runtimeCur # 0 /\ restartAfter = runtimeCur /\ AfterRestart(p)
             /\ UNCHANGED <<restartAfter, delayed>>
    BY <1>2, <1>4, <1>5 DEF WaiterIsThere
  <1>6. CASE /\ runtimeCur # 0 /\ restartAfter' = runtimeCur /\ AfterRestart(p)
             /\ delayed' = delayed \cup {[id |-> runtimeCur, at |-> "wait"]}
    <2>1. [id |-> runtimeCur, at |-> "wait"] \in [id : RIds, at : {"wait", "start"}]
      BY <1>6, CurrentOne
    <2> QED
      BY <1>2, <1>4, <1>6, <2>1 DEF WaiterIsThere
  <1> QED
    BY <1>3, <1>5, <1>6 DEF RestartLater

(***************************************************************************)
(* The goroutines, and the end of a runtime.                               *)
(***************************************************************************)
LEMMA WakesKeep ==
    ASSUME AppInv, NEW d \in delayed, DelayedWakes(d)
    PROVE  AppInv'
  <1>1. /\ d.at = "wait" /\ d.id \notin Live /\ AppRest
        /\ UNCHANGED <<runtimes, runtimeCur, failed, uiop, appAlive>>
    BY DEF DelayedWakes, AppRest
  <1>2. /\ restartAfter \in 0 .. MaxRuntimes /\ delayed \subseteq [id : RIds, at : {"wait", "start"}]
        /\ d \in [id : RIds, at : {"wait", "start"}]
    BY DEF AppInv, AppTyped
  <1>3. /\ restartAfter' \in 0 .. MaxRuntimes
        /\ delayed' \subseteq [id : RIds, at : {"wait", "start"}]
        /\ WaiterIsThere' /\ SomeoneRestarts'
    <2>1. CASE restartAfter = d.id
      <3>1. PICK w : w = [d EXCEPT !.at = "start"]
        OBVIOUS
      <3>2. w \in [id : RIds, at : {"wait", "start"}] /\ w.at = "start"
        BY <1>2, <3>1
      <3>3. restartAfter' = 0 /\ delayed' = (delayed \ {d}) \cup {w}
        BY <2>1, <3>1 DEF DelayedWakes
      <3>4. restartAfter' \in 0 .. MaxRuntimes
        BY <3>3, Bounds
      <3>5. SomeoneStarts'
        BY <3>2, <3>3 DEF SomeoneStarts
      <3>6. runtimeCur # 0 => restartAfter # runtimeCur
        BY <1>1, <2>1, CurrentOne DEF Live
      <3>7. SomeoneRestarts'
        BY <1>1, <3>5, <3>6 DEF AppInv, SomeoneRestarts, SomeoneWaits
      <3> QED
        BY <1>2, <3>2, <3>3, <3>4, <3>7 DEF WaiterIsThere
    <2>2. CASE restartAfter # d.id
      <3>1. delayed' = delayed \ {d} /\ restartAfter' = restartAfter
        BY <2>2 DEF DelayedWakes
      <3>2. WaiterIsThere'
        BY <2>2, <3>1 DEF AppInv, WaiterIsThere
      <3>3. SomeoneRestarts'
        BY <1>1, <3>1 DEF AppInv, SomeoneRestarts, SomeoneWaits, SomeoneStarts
      <3> QED
        BY <1>2, <3>1, <3>2, <3>3
    <2> QED
      BY <2>1, <2>2
  <1>4. AppTyped' /\ FetchesRelease' /\ CurrentIsLive'
    BY <1>1, <1>3, RestTyped
       DEF AppInv, AppFrameTyped, FetchesRelease, CurrentIsLive, Live, AppTyped
  <1> QED
    BY <1>3, <1>4 DEF AppInv

\* The goroutine starts the next runtime.
LEMMA DelayedStartsKeep ==
    ASSUME AppInv, NEW d \in delayed, DelayedStarts(d)
    PROVE  AppInv'
  <1>1. /\ d.at = "start" /\ StartsRuntime /\ delayed' = delayed \ {d} /\ AppRest
        /\ UNCHANGED <<restartAfter, uiop, appAlive>>
    BY DEF DelayedStarts, AppRest
  <1>2. /\ uiop' \in [Pages -> UiRows] /\ FetchesRelease' /\ WaiterIsThere'
        /\ delayed' \subseteq [id : RIds, at : {"wait", "start"}]
    BY <1>1 DEF AppInv, FetchesRelease, WaiterIsThere, AppTyped
  <1> QED
    BY <1>1, <1>2, StartedKeeps

\* A runtime ends.
LEMMA ClearKeeps ==
    ASSUME AppInv, NEW i \in RIds, ClearRuntime(i)
    PROVE  AppInv'
  <1>1. /\ runtimes[i].st \in {"running", "stopping"} /\ AppRest
        /\ UNCHANGED <<restartAfter, delayed, uiop, appAlive>>
        /\ runtimes' = [runtimes EXCEPT ![i].st = "gone"]
        /\ failed' = (failed \/ runtimes[i].st = "running")
    BY DEF ClearRuntime, AppRest
  <1>2. i = runtimeCur /\ runtimeCur' = 0
    BY <1>1, CurrentOne DEF ClearRuntime
  <1>3. /\ runtimes' \in [RIds -> RuntimeRows]
        /\ \A j \in RIds : runtimes'[j].st \in {"none", "gone"}
    <2>1. PICK x : x = [runtimes[i] EXCEPT !.st = "gone"]
      OBVIOUS
    <2>2. x \in RuntimeRows /\ x.st = "gone"
      BY <2>1, CurrentOne DEF RuntimeRows
    <2>3. runtimes' = [runtimes EXCEPT ![i] = x]
      BY <1>1, <2>1
    <2> QED
      BY <1>2, <2>2, <2>3, CurrentOne
  <1>4. failed' \in BOOLEAN
    BY <1>1
  <1>5. AppTyped'
    BY <1>1, <1>2, <1>3, <1>4, Bounds, RestTyped DEF AppInv, AppFrameTyped, AppTyped
  <1>6. FetchesRelease' /\ CurrentIsLive' /\ WaiterIsThere'
    BY <1>1, <1>2, <1>3, CurrentOne DEF AppInv, FetchesRelease, CurrentIsLive, Live, WaiterIsThere
  <1>7. SomeoneRestarts'
    <2>1. runtimeCur # 0 /\ SomeoneWaits => SomeoneStarts'
      BY <1>1 DEF SomeoneWaits, SomeoneStarts, Restarting
    <2>2. runtimeCur # 0
      BY <1>2, CurrentOne
    <2> QED
      BY <1>1, <1>2, <2>1, <2>2 DEF AppInv, SomeoneRestarts
  <1> QED
    BY <1>5, <1>6, <1>7 DEF AppInv

(***************************************************************************)
(* The application ends and is started again; the Hub publishes.           *)
(***************************************************************************)
LEMMA ExitKeeps ==
    ASSUME AppInv, HandleExit
    PROVE  AppInv'
  <1>1. /\ appAlive' = FALSE /\ AppRest
        /\ UNCHANGED <<runtimeCur, restartAfter, delayed, failed, uiop>>
        /\ runtimes' = [i \in RIds |-> IF runtimes[i].st = "running"
                                       THEN [runtimes[i] EXCEPT !.st = "stopping"] ELSE runtimes[i]]
    BY DEF HandleExit, AppRest
  <1>2. \A i \in RIds : /\ runtimes'[i] \in RuntimeRows
                        /\ runtimes'[i].st \in {"running", "stopping"}
                               <=> runtimes[i].st \in {"running", "stopping"}
    <2>1. \A x \in RuntimeRows : /\ [x EXCEPT !.st = "stopping"] \in RuntimeRows
                                 /\ [x EXCEPT !.st = "stopping"].st = "stopping"
      BY DEF RuntimeRows
    <2> QED
      BY <1>1, <2>1, CurrentOne
  <1>3. runtimes' \in [RIds -> RuntimeRows]
    <2>1. runtimes' = [i \in RIds |-> runtimes'[i]]
      BY <1>1, Zenon
    <2> QED
      BY <1>2, <2>1
  <1>4. AppTyped'
    BY <1>1, <1>3, RestTyped DEF AppInv, AppFrameTyped, AppTyped
  <1>5. FetchesRelease' /\ CurrentIsLive' /\ WaiterIsThere' /\ SomeoneRestarts'
    BY <1>1, <1>2 DEF AppInv, FetchesRelease, CurrentIsLive, Live, WaiterIsThere, SomeoneRestarts
  <1> QED
    BY <1>4, <1>5 DEF AppInv

\* The application is started again.
LEMMA RunKeeps ==
    ASSUME AppInv, Run
    PROVE  AppInv'
  <1>1. /\ uiConfig' = savedConfig /\ savedConfig' = savedConfig
        /\ installed' \subseteq installed /\ compLock' = Nobody /\ restartAfter' = 0
        /\ delayed' = {} /\ failed' = FALSE /\ appAlive' = TRUE
        /\ uiop' = [p \in Pages |-> NoOp] /\ UNCHANGED <<hubRelease, uiCount>>
    BY DEF Run, CleanupConfigured
  <1>2. PICK new \in RIds :
            /\ runtimeCur' = new
            /\ runtimes' = [i \in RIds |->
                   IF i = new THEN [cfg |-> savedConfig, st |-> "running"]
                   ELSE IF i \in Live THEN [runtimes[i] EXCEPT !.st = "gone"]
                   ELSE runtimes[i]]
    BY DEF Run
  <1>3. /\ savedConfig \in LocalConfig /\ installed \subseteq 1 .. MaxVersions
        /\ hubRelease \in 1 .. MaxVersions /\ uiCount \in 0 .. MaxUIOps
    BY DEF AppInv, AppTyped
  <1>4. \A i \in RIds : /\ runtimes'[i] \in RuntimeRows
                        /\ i = new => runtimes'[i].st = "running"
                        /\ i # new => runtimes'[i].st \in {"none", "gone"}
    <2>1. [cfg |-> savedConfig, st |-> "running"] \in RuntimeRows
      BY <1>3 DEF RuntimeRows
    <2>2. \A x \in RuntimeRows : /\ [x EXCEPT !.st = "gone"] \in RuntimeRows
                                 /\ [x EXCEPT !.st = "gone"].st = "gone"
      BY DEF RuntimeRows
    <2> SUFFICES ASSUME NEW i \in RIds
                 PROVE  /\ runtimes'[i] \in RuntimeRows
                        /\ i = new => runtimes'[i].st = "running"
                        /\ i # new => runtimes'[i].st \in {"none", "gone"}
      OBVIOUS
    <2>3. CASE i = new
      BY <1>2, <2>1, <2>3
    <2>4. CASE i # new /\ i \in Live
      BY <1>2, <2>2, <2>4, CurrentOne
    <2>5. CASE i # new /\ i \notin Live
      <3>1. runtimes'[i] = runtimes[i]
        BY <1>2, <2>5
      <3> QED
        BY <2>5, <3>1, CurrentOne DEF Live
    <2> QED
      BY <2>3, <2>4, <2>5
  <1>5. runtimes' \in [RIds -> RuntimeRows]
    <2>1. runtimes' = [i \in RIds |-> runtimes'[i]]
      BY <1>2, Zenon
    <2> QED
      BY <1>4, <2>1
  <1>6. uiop' \in [Pages -> UiRows] /\ \A p \in Pages : uiop'[p].at = "idle"
    BY <1>1, NoOpHere
  <1>7. runtimeCur' \in 0 .. MaxRuntimes /\ runtimeCur' # 0 /\ restartAfter' \in 0 .. MaxRuntimes
    BY <1>1, <1>2, Bounds DEF RIds
  <1>8. AppTyped'
    BY <1>1, <1>3, <1>5, <1>6, <1>7 DEF AppTyped
  <1>9. FetchesRelease' /\ CurrentIsLive' /\ WaiterIsThere' /\ SomeoneRestarts'
    BY <1>1, <1>2, <1>4, <1>6, <1>7
       DEF FetchesRelease, CurrentIsLive, Live, WaiterIsThere, SomeoneRestarts
  <1> QED
    BY <1>8, <1>9 DEF AppInv

\* The Hub publishes a release.
LEMMA ReleaseKeeps ==
    ASSUME AppInv, PublishRelease
    PROVE  AppInv'
  <1>1. /\ hubRelease' = hubRelease + 1 /\ hubRelease < MaxVersions
        /\ UNCHANGED <<uiConfig, savedConfig, runtimes, runtimeCur, restartAfter, delayed, failed,
                       uiop, installed, compLock, appAlive, uiCount>>
    BY DEF PublishRelease, configVars, runVars0
  <1>2. AppTyped'
    BY <1>1, Bounds DEF AppInv, AppTyped
  <1> QED
    BY <1>1, <1>2 DEF AppInv, FetchesRelease, CurrentIsLive, Live, WaiterIsThere, SomeoneRestarts,
       SomeoneStarts, SomeoneWaits

\* Every step keeps it.
LEMMA AppStays == AppInv /\ [AppNext]_appVars => AppInv'
  <1> SUFFICES ASSUME AppInv, [AppNext]_appVars PROVE AppInv'
    OBVIOUS
  <1>1. CASE UNCHANGED appVars
    <2>1. /\ UNCHANGED <<uiConfig, savedConfig, runtimes, runtimeCur, restartAfter, delayed, uiop>>
          /\ UNCHANGED <<hubRelease, installed, compLock, appAlive, failed, uiCount>>
      BY <1>1 DEF appVars
    <2> QED
      BY <2>1 DEF AppInv, FetchesRelease, CurrentIsLive, Live, WaiterIsThere,
         SomeoneRestarts, SomeoneStarts, SomeoneWaits, AppTyped
  <1>2. ASSUME NEW p \in Pages, PageStep(p) PROVE AppInv'
    BY <1>2, AsksKeep, EnsureKeeps, StoresKeep, StopKeeps, WaitKeeps, StartKeeps, LaterKeeps
       DEF PageStep
  <1> QED
    BY <1>1, <1>2, WakesKeep, DelayedStartsKeep, ClearKeeps, ExitKeeps, RunKeeps, ReleaseKeeps
       DEF AppNext

(***************************************************************************)
(* One runtime runs at a time and no restart is lost (startRuntime,        *)
(* restartRuntimeWithin): for any number of pages, requests and runtimes,  *)
(* however long a runtime takes to stop, failed saves and ends included.   *)
(***************************************************************************)
THEOREM RuntimeStays == AppSpec => []RuntimeIsKept
  <1>1. AppInv => RuntimeIsKept
    <2> SUFFICES ASSUME AppInv PROVE RuntimeIsKept
      OBVIOUS
    <2>1. OneRuntime
      <3>1. Live = {} \/ Live = {runtimeCur}
        BY CurrentOne DEF AppInv, CurrentIsLive, Live
      <3> QED
        <4>1. Cardinality({}) = 0
          BY FS_EmptySet
        <4>2. Cardinality({runtimeCur}) = 1
          BY FS_Singleton
        <4> QED
          BY <3>1, <4>1, <4>2 DEF OneRuntime
    <2>2. RuntimeComesBack
      <3> SUFFICES ASSUME AppAtRest, delayed = {}, appAlive, ~failed
                   PROVE  \E i \in Live : runtimes[i].st = "running"
        BY DEF RuntimeComesBack
      <3>1. restartAfter = 0 /\ \A p \in Pages : uiop[p].at \notin Restarting
        BY DEF AppInv, WaiterIsThere, AppAtRest, Restarting
      <3>2. runtimeCur # 0
        BY <3>1 DEF AppInv, SomeoneRestarts, SomeoneStarts
      <3>3. runtimes[runtimeCur].st = "running"
        BY <3>1, <3>2 DEF AppInv, SomeoneRestarts, SomeoneWaits, Restarting
      <3> QED
        BY <3>2, <3>3, CurrentOne DEF Live
    <2> QED
      BY <2>1, <2>2 DEF RuntimeIsKept
  <1> QED
    BY AppStarts, AppStays, <1>1, PTL DEF AppSpec

----------------------------------------------------------------------------
(***************************************************************************)
(* The writer of files.                                                    *)
(***************************************************************************)
Holding == {"plan", "temp", "check", "rename", "look", "link", "sync"}
Writing == Holding \ {"plan"}
EditSteps == {"none", "resolve", "lock", "over"} \cup Holding
EditContents == (SUBSET Changes) \cup {Absent}
EditRows == [at : EditSteps, action : EditActions \cup {"none"}, path : EditPaths \cup {"none"},
             expected : EditContents, lock : EditPaths \cup {"none"},
             target : EditPaths \cup {"none"}, after : SUBSET Changes,
             outcome : {"none", "ok", "shown", "failed", "conflict", "exists", "killed"}]

(***************************************************************************)
(* The types that the argument needs.                                      *)
(***************************************************************************)
EditTypes ==
    /\ efile \in [EditFiles -> EditContents] /\ elink \in EditFiles
    /\ edits \in [EditReqs -> EditRows] /\ elocks \in SUBSET EditPaths
    /\ esaves \in [made : SUBSET EditSaves, late : SUBSET EditSaves, moves : Nat]

(***************************************************************************)
(* A request that holds its lock is the only one that does.                *)
(***************************************************************************)
Excluded ==
    \A q \in EditReqs : edits[q].at \in Holding =>
        /\ edits[q].lock \in elocks
        /\ \A p \in EditReqs \ {q} : edits[p].at \in Holding => edits[p].lock # edits[q].lock

(***************************************************************************)
(* What a request has planned: it writes the file whose lock it holds (or, *)
(* where links are moved, it is alone), and an edit keeps the content that *)
(* its caller saw.                                                         *)
(***************************************************************************)
Alone == \A p, q \in EditReqs : p = q

Aims(r) ==
    /\ r.at \in {"none", "resolve"} => r.lock = "none"
    /\ r.at \in {"resolve", "lock", "plan"} => r.path \in EditPaths
    /\ r.at \in {"lock", "plan"} =>
           /\ r.lock \in EditPaths
           /\ \/ r.lock = IF r.action = "create" THEN r.path ELSE ResolveMachinePath(r.path)
              \/ Alone
    /\ r.at \in Writing => r.target \in EditFiles /\ (r.target = r.lock \/ Alone)
Plans(q, r) ==
    /\ r.at \in Writing => r.action \in {"replace", "create"}
    /\ r.at \in {"check", "rename"} => r.action = "replace"
    /\ r.at \in {"look", "link"} => r.action = "create"
    /\ r.at \in Writing /\ r.action = "replace" =>
           r.expected \in SUBSET Changes /\ r.after = r.expected \cup {q}
    /\ r.at \in Writing /\ r.action = "create" => r.after = {q}
    /\ r.outcome = "ok" => r.at = "over"

Planned == \A q \in EditReqs : Aims(edits[q]) /\ Plans(q, edits[q])

(***************************************************************************)
(* Between the comparison and the rename only late saves reach the file,   *)
(* and what is installed stays while its request holds the lock.           *)
(***************************************************************************)
Compared ==
    \A q \in EditReqs : edits[q].at = "rename" =>
        efile[edits[q].target] \subseteq edits[q].expected \cup esaves.late
Installed == \A q \in EditReqs : edits[q].at = "sync" => q \in efile[edits[q].target]

EditInv == EditTypes /\ Excluded /\ Planned /\ Compared /\ Installed /\ NoChangeIsLost

(***************************************************************************)
(* No change is the sign of a missing file, and no path that of no path.   *)
(***************************************************************************)
LEMMA SignsApart ==
    /\ "absent" \notin Changes /\ "none" \notin EditPaths /\ EditSaves \cap EditReqs = {}
    /\ Absent \notin SUBSET Changes
  BY FileEditAssumption DEF Changes, EditPaths, Absent

\* A request at rest is one of the rows.
LEMMA NoEditHere ==
    NoEdit \in EditRows /\ NoEdit.at = "none" /\ NoEdit.outcome = "none" /\ NoEdit.lock = "none"
  BY DEF NoEdit, EditRows, EditSteps, Holding, EditContents

\* At the start.
LEMMA EditStarts == FileEditInit => EditInv
  <1> SUFFICES ASSUME FileEditInit PROVE EditInv
    OBVIOUS
  <1>1. edits = [q \in EditReqs |-> NoEdit]
    BY DEF FileEditInit
  <1>2. \A q \in EditReqs : /\ edits[q] \in EditRows /\ edits[q].at = "none"
                            /\ edits[q].outcome = "none" /\ edits[q].lock = "none"
    BY <1>1, NoEditHere
  <1>3. EditTypes
    <2>1. efile \in [EditFiles -> EditContents]
      <3>1. efile \in [EditFiles -> {{}, Absent}] /\ {{}, Absent} \subseteq EditContents
        BY DEF FileEditInit, EditContents
      <3> QED
        BY <3>1
    <2>2. edits \in [EditReqs -> EditRows]
      BY <1>1, NoEditHere
    <2> QED
      BY <2>1, <2>2 DEF EditTypes, FileEditInit
  <1>4. esaves.made = {}
    BY DEF FileEditInit
  <1> QED
    BY <1>2, <1>3, <1>4 DEF EditInv, Excluded, Planned, Aims, Plans, Compared, Installed,
       NoChangeIsLost, Holding, Writing

(***************************************************************************)
(* A request becomes r.                                                    *)
(***************************************************************************)
Becomes(q, r) == edits' = [edits EXCEPT ![q] = r]

\* The request is r and the others stay.
LEMMA RowPut ==
    ASSUME EditTypes, NEW q \in EditReqs, NEW r \in EditRows, Becomes(q, r)
    PROVE  /\ edits' \in [EditReqs -> EditRows] /\ edits'[q] = r
           /\ \A p \in EditReqs \ {q} : edits'[p] = edits[p]
  BY DEF EditTypes, Becomes

\* A step of a request that changes neither files nor locks.
LEMMA RequestGoes ==
    ASSUME EditInv, NEW q \in EditReqs, NEW r \in EditRows, Becomes(q, r),
           UNCHANGED <<efile, elink, elocks, esaves>>,
           r.at \in Holding => edits[q].at \in Holding /\ r.lock = edits[q].lock,
           Aims(r), Plans(q, r), r.at \notin {"sync", "over"},
           r.at = "rename" => efile[r.target] \subseteq r.expected \cup esaves.late
    PROVE  EditInv'
  <1>1. /\ edits' \in [EditReqs -> EditRows] /\ edits'[q] = r
        /\ \A p \in EditReqs \ {q} : edits'[p] = edits[p]
    BY RowPut DEF EditInv
  <1>2. EditTypes' /\ Excluded'
    BY <1>1 DEF EditInv, EditTypes, Excluded
  <1>3. Planned'
    BY <1>1 DEF EditInv, Planned, Aims, Plans, ResolveMachinePath
  <1>4. Compared' /\ Installed'
    BY <1>1 DEF EditInv, Compared, Installed
  <1>5. NoChangeIsLost'
    BY <1>1 DEF EditInv, NoChangeIsLost, Plans
  <1> QED
    BY <1>2, <1>3, <1>4, <1>5 DEF EditInv

\* The request ends, with its change installed when it succeeds.
EditEnded(q, how) == [edits[q] EXCEPT !.at = "over", !.outcome = how, !.lock = "none"]

\* A request that ended is one of the rows.
LEMMA EndedRow ==
    ASSUME EditTypes, NEW q \in EditReqs,
           NEW how \in {"ok", "shown", "failed", "conflict", "exists", "killed"}
    PROVE  /\ EditEnded(q, how) \in EditRows /\ EditEnded(q, how).at = "over"
           /\ EditEnded(q, how).outcome = how
  BY DEF EditEnded, EditTypes, EditRows, EditSteps

\* It returns how.
LEMMA RequestEnds ==
    ASSUME EditInv, NEW q \in EditReqs, edits[q].at \in Holding \cup {"resolve"},
           NEW how \in {"ok", "shown", "failed", "conflict", "exists"},
           how = "ok" => edits[q].at = "sync",
           Ends(q, how), UNCHANGED <<efile, elink, esaves>>
    PROVE  EditInv'
  <1>1. PICK r \in EditRows : r = EditEnded(q, how) /\ r.at = "over" /\ r.outcome = how
    BY EndedRow DEF EditInv
  <1>2. Becomes(q, r) /\ elocks' = elocks \ {edits[q].lock}
    BY <1>1 DEF Ends, Becomes, EditEnded
  <1>3. /\ edits' \in [EditReqs -> EditRows] /\ edits'[q] = r
        /\ \A p \in EditReqs \ {q} : edits'[p] = edits[p]
    BY <1>2, RowPut DEF EditInv
  <1>4. EditTypes'
    BY <1>2, <1>3 DEF EditInv, EditTypes
  <1>5. Excluded'
    <2>1. edits[q].at = "resolve" => edits[q].lock = "none"
      BY DEF EditInv, Planned, Aims
    <2>2. \A p \in EditReqs \ {q} : edits[p].at \in Holding => edits[p].lock # edits[q].lock
      <3>1. CASE edits[q].at = "resolve"
        BY <2>1, <3>1, SignsApart DEF EditInv, EditTypes, Excluded
      <3>2. CASE edits[q].at \in Holding
        BY <3>2 DEF EditInv, Excluded
      <3> QED
        BY <3>1, <3>2
    <2> QED
      BY <1>1, <1>2, <1>3, <2>2 DEF EditInv, Excluded, Holding
  <1>6. Planned'
    <2>1. Aims(r)' /\ Plans(q, r)'
      BY <1>1 DEF Aims, Plans, Writing, Holding
    <2> QED
      BY <1>3, <2>1 DEF EditInv, Planned, Aims, Plans, ResolveMachinePath
  <1>7. Compared' /\ Installed'
    BY <1>1, <1>3 DEF EditInv, Compared, Installed
  <1>8. NoChangeIsLost'
    <2>1. how = "ok" => q \in efile[edits[q].target] /\ edits[q].target \in EditFiles
      BY DEF EditInv, Installed, Planned, Aims, Writing, Holding
    <2> QED
      BY <1>1, <1>3, <2>1 DEF EditInv, NoChangeIsLost
  <1> QED
    BY <1>4, <1>5, <1>6, <1>7, <1>8 DEF EditInv

\* It goes on to at.
Onward(q, at) == [edits[q] EXCEPT !.at = at]

\* A request that went on differs in its place only.
LEMMA OnwardRow ==
    ASSUME EditTypes, NEW q \in EditReqs, NEW at \in EditSteps
    PROVE  /\ Onward(q, at) \in EditRows /\ Onward(q, at).at = at
           /\ Onward(q, at).action = edits[q].action /\ Onward(q, at).path = edits[q].path
           /\ Onward(q, at).expected = edits[q].expected /\ Onward(q, at).lock = edits[q].lock
           /\ Onward(q, at).target = edits[q].target /\ Onward(q, at).after = edits[q].after
           /\ Onward(q, at).outcome = edits[q].outcome
           /\ Passes(q, at) => Becomes(q, Onward(q, at))
  <1>1. edits[q] \in EditRows
    BY DEF EditTypes
  <1>2. \A r \in EditRows : /\ [r EXCEPT !.at = at] \in EditRows /\ [r EXCEPT !.at = at].at = at
                            /\ [r EXCEPT !.at = at].action = r.action /\ [r EXCEPT !.at = at].path = r.path
                            /\ [r EXCEPT !.at = at].expected = r.expected
                            /\ [r EXCEPT !.at = at].lock = r.lock /\ [r EXCEPT !.at = at].target = r.target
                            /\ [r EXCEPT !.at = at].after = r.after
                            /\ [r EXCEPT !.at = at].outcome = r.outcome
    BY DEF EditRows
  <1>3. Passes(q, at) => Becomes(q, Onward(q, at))
    BY <1>1 DEF Passes, Becomes, Onward, EditTypes
  <1> QED
    BY <1>1, <1>2, <1>3 DEF Onward

\* A write of the file whose lock the request holds: what it had planned keeps
\* every change that the file carries, late ones excepted.
LEMMA RequestWrites ==
    ASSUME EditInv, NEW q \in EditReqs, edits[q].at \in {"rename", "link"},
           efile' = [efile EXCEPT ![edits[q].target] = edits[q].after],
           Passes(q, "sync"), UNCHANGED <<elink, elocks, esaves>>,
           \A c \in Changes \ esaves.late : c \in efile[edits[q].target] => c \in edits[q].after
    PROVE  EditInv'
  <1>0. PICK t : t = edits[q].target
    OBVIOUS
  <1>1. /\ t \in EditFiles /\ (t = edits[q].lock \/ Alone) /\ edits[q].after \in SUBSET Changes
        /\ q \in edits[q].after /\ edits[q].at \in Holding /\ edits[q] \in EditRows
    <2>1. edits[q] \in EditRows /\ Aims(edits[q]) /\ Plans(q, edits[q])
      BY DEF EditInv, EditTypes, Planned
    <2> QED
      BY <1>0, <2>1 DEF Aims, Plans, Writing, Holding, EditRows
  <1>2. /\ efile' \in [EditFiles -> EditContents] /\ efile'[t] = edits[q].after
        /\ \A f \in EditFiles \ {t} : efile'[f] = efile[f]
    BY <1>0, <1>1 DEF EditInv, EditTypes, EditContents
  <1>3. PICK r \in EditRows :
        /\ r.at = "sync" /\ r.action = edits[q].action /\ r.lock = edits[q].lock
        /\ r.target = t /\ r.after = edits[q].after /\ r.expected = edits[q].expected
        /\ r.outcome = edits[q].outcome /\ Becomes(q, r)
    <2>1. "sync" \in EditSteps
      BY DEF EditSteps, Holding
    <2> QED
      BY <1>0, <2>1, OnwardRow DEF EditInv
  <1>4. /\ edits' \in [EditReqs -> EditRows] /\ edits'[q] = r
        /\ \A p \in EditReqs \ {q} : edits'[p] = edits[p]
    BY <1>3, RowPut DEF EditInv
  <1>5. EditTypes' /\ Excluded'
    BY <1>1, <1>2, <1>3, <1>4 DEF EditInv, EditTypes, Excluded
  <1>6. Planned'
    <2>1. Aims(r)' /\ Plans(q, r)'
      BY <1>1, <1>3 DEF EditInv, Planned, Aims, Plans, Writing, Holding
    <2> QED
      BY <1>4, <2>1 DEF EditInv, Planned, Aims, Plans, ResolveMachinePath
  <1>7. \A p \in EditReqs \ {q} : edits[p].at \in {"rename", "sync"} =>
            edits[p].target \in EditFiles \ {t}
    BY <1>0, <1>1 DEF EditInv, Excluded, Planned, Aims, Alone, Holding, Writing
  <1>8. Compared' /\ Installed'
    BY <1>1, <1>2, <1>3, <1>4, <1>7 DEF EditInv, Compared, Installed
  <1>9. NoChangeIsLost'
    <2>1. \A p \in EditReqs : edits'[p].outcome = "ok" => edits[p].outcome = "ok"
      BY <1>3, <1>4
    <2>2. ASSUME NEW c \in Changes \ esaves.late, NEW f \in EditFiles, c \in efile[f]
          PROVE  \E g \in EditFiles : c \in efile'[g]
      BY <1>0, <1>1, <1>2, <2>2
    <2>3. \A c \in EditReqs : c \in Changes \ esaves.late
      BY SignsApart DEF EditInv, EditTypes, Changes
    <2>4. \A c \in esaves.made \ esaves.late : c \in Changes \ esaves.late
      BY DEF EditInv, EditTypes, Changes
    <2> QED
      BY <2>1, <2>2, <2>3, <2>4 DEF EditInv, NoChangeIsLost
  <1> QED
    BY <1>5, <1>6, <1>8, <1>9 DEF EditInv

----------------------------------------------------------------------------
(***************************************************************************)
(* The steps of a request.                                                 *)
(***************************************************************************)
\* A request that holds its lock, or is still to find it.
LEMMA SendKeeps ==
    ASSUME EditInv, NEW q \in EditReqs, edits[q].at = "none", SendEdit(q)
    PROVE  EditInv'
  <1>1. PICK a \in EditActions, p \in EditPaths :
            /\ edits' = [edits EXCEPT ![q] = [@ EXCEPT !.at = "resolve", !.action = a, !.path = p,
                                                       !.expected = efile[ResolveMachinePath(p)]]]
            /\ UNCHANGED <<efile, elink, elocks, etemps, esaves>>
    BY DEF SendEdit
  <1>2. efile[ResolveMachinePath(p)] \in EditContents
    BY DEF EditInv, EditTypes, ResolveMachinePath, EditPaths
  <1>3. PICK r : r = [edits[q] EXCEPT !.at = "resolve", !.action = a, !.path = p,
                                      !.expected = efile[ResolveMachinePath(p)]]
    OBVIOUS
  <1>4. edits[q] \in EditRows /\ edits[q].outcome # "ok" /\ edits[q].lock = "none"
    BY DEF EditInv, EditTypes, Planned, Plans, Aims
  <1>5. /\ r \in EditRows /\ r.at = "resolve" /\ r.lock = "none" /\ r.outcome # "ok"
        /\ r.path \in EditPaths
    BY <1>2, <1>3, <1>4 DEF EditRows, EditSteps
  <1>6. Becomes(q, r)
    BY <1>1, <1>3 DEF Becomes, EditInv, EditTypes
  <1>7. Aims(r) /\ Plans(q, r)
    BY <1>5 DEF Aims, Plans, Writing, Holding
  <1> QED
    BY <1>1, <1>5, <1>6, <1>7, RequestGoes DEF Holding

\* The path of the lock.
LEMMA ResolveKeeps ==
    ASSUME EditInv, NEW q \in EditReqs, edits[q].at = "resolve", ResolveFileEditLockTarget(q)
    PROVE  EditInv'
  <1>1. CASE Ends(q, "failed") /\ UNCHANGED <<efile, elink, esaves>>
    BY <1>1, RequestEnds
  <1>2. CASE /\ edits' = [edits EXCEPT ![q] =
                     [@ EXCEPT !.at = "lock",
                               !.lock = IF edits[q].action = "create" THEN edits[q].path
                                        ELSE ResolveMachinePath(edits[q].path)]]
             /\ UNCHANGED <<efile, elink, elocks, esaves>>
             /\ edits[q].action = "create" \/ efile[ResolveMachinePath(edits[q].path)] # Absent
    <2>1. edits[q] \in EditRows /\ edits[q].outcome # "ok" /\ edits[q].path \in EditPaths
      BY DEF EditInv, EditTypes, Planned, Plans, Aims
    <2>2. PICK l : l = IF edits[q].action = "create" THEN edits[q].path
                       ELSE ResolveMachinePath(edits[q].path)
      OBVIOUS
    <2>3. l \in EditPaths
      BY <2>1, <2>2 DEF EditInv, EditTypes, ResolveMachinePath, EditPaths, EditRows
    <2>4. PICK r : r = [edits[q] EXCEPT !.at = "lock", !.lock = l]
      OBVIOUS
    <2>5. /\ r \in EditRows /\ r.at = "lock" /\ r.lock = l /\ r.action = edits[q].action
          /\ r.path = edits[q].path /\ r.outcome # "ok"
      BY <2>1, <2>3, <2>4 DEF EditRows, EditSteps
    <2>6. Becomes(q, r)
      BY <1>2, <2>2, <2>4 DEF Becomes, EditInv, EditTypes
    <2>7. Aims(r) /\ Plans(q, r)
      BY <2>1, <2>2, <2>3, <2>5 DEF Aims, Plans, Writing, Holding
    <2> QED
      BY <1>2, <2>5, <2>6, <2>7, RequestGoes DEF Holding
  <1> QED
    BY <1>1, <1>2 DEF ResolveFileEditLockTarget

\* The lock was free.
LEMMA LockKeeps ==
    ASSUME EditInv, NEW q \in EditReqs, edits[q].at = "lock", FileEditLock(q)
    PROVE  EditInv'
  <1>1. PICK r \in EditRows :
        /\ r.at = "plan" /\ r.lock = edits[q].lock /\ r.action = edits[q].action
        /\ r.path = edits[q].path /\ r.outcome = edits[q].outcome /\ Becomes(q, r)
    <2>1. "plan" \in EditSteps /\ Passes(q, "plan")
      BY DEF EditSteps, Holding, FileEditLock
    <2> QED
      BY <2>1, OnwardRow DEF EditInv
  <1>2. /\ edits' \in [EditReqs -> EditRows] /\ edits'[q] = r
        /\ \A p \in EditReqs \ {q} : edits'[p] = edits[p]
    BY <1>1, RowPut DEF EditInv
  <1>3. Aims(edits[q]) /\ Plans(q, edits[q])
    BY DEF EditInv, Planned
  <1>4. elocks' = elocks \cup {r.lock} /\ r.lock \notin elocks /\ r.lock \in EditPaths
        /\ UNCHANGED <<efile, elink, esaves>>
    BY <1>1, <1>3 DEF FileEditLock, Aims, EditInv, EditTypes, ResolveMachinePath, EditPaths
  <1>5. EditTypes' /\ Excluded'
    BY <1>1, <1>2, <1>4 DEF EditInv, EditTypes, Excluded
  <1>6. Planned'
    <2>1. Aims(r)' /\ Plans(q, r)'
      BY <1>1, <1>3, <1>4 DEF Aims, Plans, Writing, Holding, ResolveMachinePath
    <2> QED
      BY <1>2, <1>4, <2>1 DEF EditInv, Planned, Aims, Plans, ResolveMachinePath
  <1>7. Compared' /\ Installed' /\ NoChangeIsLost'
    BY <1>1, <1>2, <1>3, <1>4 DEF EditInv, Compared, Installed, NoChangeIsLost, Plans
  <1> QED
    BY <1>5, <1>6, <1>7 DEF EditInv

\* The plan: an edit of the content that the caller saw, or a file that is
\* not there.
LEMMA PlanKeeps ==
    ASSUME EditInv, NEW q \in EditReqs, edits[q].at = "plan", PlanFileEdit(q) \/ PlanFileCreate(q)
    PROVE  EditInv'
  <1> DEFINE e == edits[q]
             t == ResolveMachinePath(e.path)
  <1>1. e \in EditRows /\ Aims(e) /\ Plans(q, e) /\ e.outcome # "ok" /\ e.path \in EditPaths
    BY DEF EditInv, EditTypes, Planned, Aims, Plans
  <1>2. /\ t \in EditFiles /\ efile[t] \in EditContents
        /\ e.lock = (IF e.action = "create" THEN e.path ELSE t) \/ Alone
    BY <1>1 DEF EditInv, EditTypes, ResolveMachinePath, EditPaths, Aims
  <1>3. CASE \E how \in {"shown", "failed", "conflict", "exists"} :
                Ends(q, how) /\ UNCHANGED <<efile, elink, esaves>>
    BY <1>3, RequestEnds DEF Holding
  <1>4. CASE /\ e.action = "replace" /\ efile[t] # Absent /\ e.expected = efile[t]
             /\ edits' = [edits EXCEPT ![q] = [@ EXCEPT !.at = "temp", !.target = t,
                                                       !.after = efile[t] \cup {q}]]
             /\ UNCHANGED <<efile, elink, elocks, esaves>>
    <2>1. efile[t] \in SUBSET Changes /\ efile[t] \cup {q} \in SUBSET Changes
      <3>1. efile[t] \in SUBSET Changes
        BY <1>2, <1>4 DEF EditContents
      <3>2. q \in Changes
        BY DEF Changes
      <3> QED
        BY <3>1, <3>2
    <2>2. PICK u : u = t
      OBVIOUS
    <2>3. PICK a : a = efile[t] \cup {q}
      OBVIOUS
    <2>4. PICK r : r = [e EXCEPT !.at = "temp", !.target = u, !.after = a]
      OBVIOUS
    <2>5. /\ r \in EditRows /\ r.at = "temp" /\ r.target = u /\ r.after = a
          /\ r.action = e.action /\ r.lock = e.lock /\ r.expected = e.expected
          /\ r.outcome # "ok"
      BY <1>1, <1>2, <2>1, <2>2, <2>3, <2>4 DEF EditRows, EditSteps, Holding, EditPaths
    <2>6. Becomes(q, r)
      BY <1>4, <2>2, <2>3, <2>4 DEF Becomes, EditInv, EditTypes
    <2>7. Aims(r) /\ Plans(q, r)
      BY <1>2, <1>4, <2>1, <2>2, <2>3, <2>5 DEF Aims, Plans
    <2> QED
      BY <1>4, <2>5, <2>6, <2>7, RequestGoes DEF Holding
  <1>5. CASE /\ e.action = "create" /\ ~PathExists(e.path)
             /\ edits' = [edits EXCEPT ![q] = [@ EXCEPT !.at = "temp", !.target = e.path,
                                                       !.after = {q}]]
             /\ UNCHANGED <<efile, elink, elocks, esaves>>
    <2>1. e.path \in EditFiles /\ {q} \in SUBSET Changes
      BY <1>1, <1>5 DEF PathExists, EditPaths, Changes
    <2>2. PICK u : u = e.path
      OBVIOUS
    <2>4. PICK r : r = [e EXCEPT !.at = "temp", !.target = u, !.after = {q}]
      OBVIOUS
    <2>5. /\ r \in EditRows /\ r.at = "temp" /\ r.target = u /\ r.after = {q}
          /\ r.action = e.action /\ r.lock = e.lock /\ r.outcome # "ok"
      BY <1>1, <2>1, <2>2, <2>4 DEF EditRows, EditSteps, Holding, EditPaths
    <2>6. Becomes(q, r)
      BY <1>5, <2>2, <2>4 DEF Becomes, EditInv, EditTypes
    <2>7. Aims(r) /\ Plans(q, r)
      BY <1>2, <1>5, <2>1, <2>2, <2>5 DEF Aims, Plans
    <2> QED
      BY <1>5, <2>5, <2>6, <2>7, RequestGoes DEF Holding
  <1>6. CASE PlanFileEdit(q)
    BY <1>3, <1>4, <1>6 DEF PlanFileEdit
  <1>7. CASE PlanFileCreate(q)
    BY <1>3, <1>5, <1>7 DEF PlanFileCreate
  <1> QED
    BY <1>6, <1>7

\* The steps before the file changes.
LEMMA OnwardKeeps ==
    ASSUME EditInv, NEW q \in EditReqs, edits[q].at \in Writing, NEW at \in Writing,
           Passes(q, at), UNCHANGED <<efile, elink, elocks, esaves>>, at # "sync",
           at \in {"check", "rename"} => edits[q].action = "replace",
           at \in {"look", "link"} => edits[q].action = "create",
           at = "rename" => edits[q].expected = efile[edits[q].target]
    PROVE  EditInv'
  <1>1. PICK r \in EditRows :
        /\ r.at = at /\ r.lock = edits[q].lock /\ r.action = edits[q].action
        /\ r.target = edits[q].target /\ r.after = edits[q].after
        /\ r.expected = edits[q].expected /\ r.outcome = edits[q].outcome /\ Becomes(q, r)
    <2>1. at \in EditSteps
      BY DEF EditSteps, Writing
    <2> QED
      BY <2>1, OnwardRow DEF EditInv
  <1>2. Aims(edits[q]) /\ Plans(q, edits[q])
    BY DEF EditInv, Planned
  <1>3. Aims(r) /\ Plans(q, r)
    BY <1>1, <1>2 DEF Aims, Plans, Writing, Holding
  <1> QED
    BY <1>1, <1>3, RequestGoes DEF Writing, Holding

\* The temporary file.
LEMMA WritePreparedKeeps ==
    ASSUME EditInv, NEW q \in EditReqs, edits[q].at = "temp", WritePreparedEdit(q)
    PROVE  EditInv'
  <1>1. edits[q].action \in {"replace", "create"}
    BY DEF EditInv, Planned, Plans, Writing, Holding
  <1>2. CASE Ends(q, "failed")
    BY <1>2, RequestEnds DEF WritePreparedEdit, Holding
  <1>3. CASE ~Ends(q, "failed")
    <2>1. /\ Passes(q, IF edits[q].action = "create" THEN "look" ELSE "check")
          /\ UNCHANGED <<efile, elink, elocks, esaves>>
      BY <1>3 DEF WritePreparedEdit
    <2>2. CASE edits[q].action = "create"
      <3>1. Passes(q, "look")
        BY <2>1, <2>2
      <3> QED
        BY <2>1, <2>2, <3>1, OnwardKeeps DEF Writing, Holding
    <2>3. CASE edits[q].action = "replace"
      <3>1. Passes(q, "check")
        BY <2>1, <2>3
      <3> QED
        BY <2>1, <2>3, <3>1, OnwardKeeps DEF Writing, Holding
    <2> QED
      BY <1>1, <2>2, <2>3
  <1> QED
    BY <1>2, <1>3

\* The second comparison.
LEMMA CompareKeeps ==
    ASSUME EditInv, NEW q \in EditReqs, edits[q].at = "check", BoundedFileSHA256(q)
    PROVE  EditInv'
  <1>1. edits[q].action = "replace"
    BY DEF EditInv, Planned, Plans
  <1>2. CASE Ends(q, "conflict")
    BY <1>2, RequestEnds DEF BoundedFileSHA256, Holding
  <1>3. CASE ~Ends(q, "conflict")
    <2>1. /\ edits[q].expected = efile[edits[q].target] /\ Passes(q, "rename")
          /\ UNCHANGED <<efile, elink, elocks, esaves>>
      BY <1>3 DEF BoundedFileSHA256
    <2> QED
      BY <1>1, <2>1, OnwardKeeps DEF Writing, Holding
  <1> QED
    BY <1>2, <1>3

\* The second look at a path to create.
LEMMA LookKeeps ==
    ASSUME EditInv, NEW q \in EditReqs, edits[q].at = "look", LookAgain(q)
    PROVE  EditInv'
  <1>1. edits[q].action = "create"
    BY DEF EditInv, Planned, Plans
  <1>2. CASE Ends(q, "exists")
    BY <1>2, RequestEnds DEF LookAgain, Holding
  <1>3. CASE ~Ends(q, "exists")
    <2>1. Passes(q, "link") /\ UNCHANGED <<efile, elink, elocks, esaves>>
      BY <1>3 DEF LookAgain
    <2> QED
      BY <1>1, <2>1, OnwardKeeps DEF Writing, Holding
  <1> QED
    BY <1>2, <1>3

\* The rename: what it replaces is the content that was compared, with late
\* saves.
LEMMA RenameKeeps ==
    ASSUME EditInv, NEW q \in EditReqs, edits[q].at = "rename", WriteAtomicEditedFile(q)
    PROVE  EditInv'
  <1>1. CASE Ends(q, "failed") /\ UNCHANGED <<efile, elink, esaves>>
    BY <1>1, RequestEnds DEF Holding
  <1>2. CASE /\ efile' = [efile EXCEPT ![edits[q].target] = edits[q].after]
             /\ Passes(q, "sync") /\ UNCHANGED <<elink, elocks, esaves>>
    <2>1. efile[edits[q].target] \subseteq edits[q].expected \cup esaves.late
      BY DEF EditInv, Compared
    <2>2. edits[q].after = edits[q].expected \cup {q}
      BY DEF EditInv, Planned, Plans, Writing, Holding
    <2>3. \A c \in Changes \ esaves.late : c \in efile[edits[q].target] => c \in edits[q].after
      BY <2>1, <2>2
    <2> QED
      BY <1>2, <2>3, RequestWrites
  <1> QED
    BY <1>1, <1>2 DEF WriteAtomicEditedFile

\* The link: there is no file to replace.
LEMMA LinkKeeps ==
    ASSUME EditInv, NEW q \in EditReqs, edits[q].at = "link", WriteAtomicCreatedFile(q)
    PROVE  EditInv'
  <1>1. CASE \E how \in {"failed", "exists"} : Ends(q, how) /\ UNCHANGED <<efile, elink, esaves>>
    BY <1>1, RequestEnds DEF Holding
  <1>2. CASE /\ ~PathExists(edits[q].target)
             /\ efile' = [efile EXCEPT ![edits[q].target] = edits[q].after]
             /\ Passes(q, "sync") /\ UNCHANGED <<elink, elocks, esaves>>
    <2>1. efile[edits[q].target] = Absent
      BY <1>2 DEF PathExists, ResolveMachinePath
    <2>2. \A c \in Changes : c \notin efile[edits[q].target]
      BY <2>1, SignsApart DEF Absent
    <2> QED
      BY <1>2, <2>2, RequestWrites
  <1> QED
    BY <1>1, <1>2 DEF WriteAtomicCreatedFile

\* The answer.
LEMMA SyncKeeps ==
    ASSUME EditInv, NEW q \in EditReqs, edits[q].at = "sync", SyncEditedParent(q)
    PROVE  EditInv'
  BY RequestEnds DEF SyncEditedParent, Holding

\* Every step of a request.
LEMMA StepKeeps ==
    ASSUME EditInv, NEW q \in EditReqs, FileEditStep(q)
    PROVE  EditInv'
  BY SendKeeps, ResolveKeeps, LockKeeps, PlanKeeps, WritePreparedKeeps, CompareKeeps,
     RenameKeeps, LookKeeps, LinkKeeps, SyncKeeps DEF FileEditStep

(***************************************************************************)
(* The rest of the machine.                                                *)
(***************************************************************************)
\* A save of another program adds to the file; it is late when it must be.
LEMMA EditorKeeps ==
    ASSUME EditInv, EditorSaves
    PROVE  EditInv'
  <1>1. PICK f \in EditFiles, n \in EditSaves \ esaves.made :
            /\ efile' = [efile EXCEPT ![f] = IF @ = Absent THEN {n} ELSE @ \cup {n}]
            /\ esaves' = [esaves EXCEPT !.made = @ \cup {n},
                              !.late = IF \E q \in EditReqs : edits[q].at = "rename" /\ edits[q].target = f
                                       THEN @ \cup {n} ELSE @]
            /\ UNCHANGED <<elink, edits, elocks, etemps>>
    BY DEF EditorSaves
  <1>2. efile[f] \in EditContents /\ n \in Changes
    BY DEF EditInv, EditTypes, Changes
  <1>3. /\ efile' \in [EditFiles -> EditContents] /\ n \in efile'[f]
        /\ efile'[f] \subseteq efile[f] \cup {n}
        /\ \A g \in EditFiles : \A c \in Changes : c \in efile[g] => c \in efile'[g]
        /\ \A g \in EditFiles \ {f} : efile'[g] = efile[g]
    BY <1>1, <1>2, SignsApart DEF EditInv, EditTypes, EditContents, Absent
  <1>4. /\ esaves' \in [made : SUBSET EditSaves, late : SUBSET EditSaves, moves : Nat]
        /\ esaves'.made = esaves.made \cup {n} /\ esaves.late \subseteq esaves'.late
        /\ (\E q \in EditReqs : edits[q].at = "rename" /\ edits[q].target = f) => n \in esaves'.late
    BY <1>1 DEF EditInv, EditTypes
  <1>5. EditTypes' /\ Excluded'
    BY <1>1, <1>3, <1>4 DEF EditInv, EditTypes, Excluded
  <1>6. Planned'
    BY <1>1 DEF EditInv, Planned, Aims, Plans, ResolveMachinePath
  <1>7. \A q \in EditReqs : edits[q].at \in {"rename", "sync"} => edits[q].target \in EditFiles
    BY DEF EditInv, Planned, Aims, Writing, Holding
  <1>8. Compared'
    <2>1. ASSUME NEW q \in EditReqs, edits[q].at = "rename"
          PROVE  efile'[edits[q].target] \subseteq edits[q].expected \cup esaves'.late
      <3>1. efile[edits[q].target] \subseteq edits[q].expected \cup esaves.late
        BY <2>1 DEF EditInv, Compared
      <3>2. CASE edits[q].target = f
        BY <1>3, <1>4, <2>1, <3>1, <3>2
      <3>3. CASE edits[q].target # f
        BY <1>3, <1>4, <1>7, <2>1, <3>1, <3>3
      <3> QED
        BY <3>2, <3>3
    <2> QED
      BY <1>1, <2>1 DEF Compared
  <1>9. Installed'
    BY <1>1, <1>3, <1>7 DEF EditInv, Installed, Changes
  <1>10. NoChangeIsLost'
    <2>1. \A c \in esaves'.made \ esaves'.late : c = n \/ c \in esaves.made \ esaves.late
      BY <1>4
    <2>2. ASSUME NEW c \in {q \in EditReqs : edits[q].outcome = "ok"} \cup (esaves.made \ esaves.late)
          PROVE  \E g \in EditFiles : c \in efile'[g]
      <3>1. c \in Changes
        BY DEF EditInv, EditTypes, Changes
      <3>2. PICK g \in EditFiles : c \in efile[g]
        BY DEF EditInv, NoChangeIsLost
      <3> QED
        BY <1>3, <3>1, <3>2
    <2> QED
      BY <1>1, <1>3, <2>1, <2>2 DEF NoChangeIsLost
  <1> QED
    BY <1>5, <1>6, <1>8, <1>9, <1>10 DEF EditInv

\* The requests at work end with the Node.
LEMMA KillKeeps ==
    ASSUME EditInv, NodeIsKilled
    PROVE  EditInv'
  <1>1. /\ elocks' = {} /\ UNCHANGED <<efile, elink, esaves>>
        /\ edits' = [q \in EditReqs |->
               IF edits[q].at \in {"none", "over"} THEN edits[q]
               ELSE [edits[q] EXCEPT !.at = "over", !.outcome = "killed", !.lock = "none"]]
    BY DEF NodeIsKilled
  <1>2. \A q \in EditReqs :
            /\ edits'[q] \in EditRows /\ edits'[q].at \in {"none", "over"}
            /\ edits'[q].outcome = "ok" => edits'[q] = edits[q]
            /\ edits'[q].at = "none" => edits'[q] = edits[q]
    <2> SUFFICES ASSUME NEW q \in EditReqs
                 PROVE  /\ edits'[q] \in EditRows /\ edits'[q].at \in {"none", "over"}
                        /\ edits'[q].outcome = "ok" => edits'[q] = edits[q]
                        /\ edits'[q].at = "none" => edits'[q] = edits[q]
      OBVIOUS
    <2>1. edits'[q] = IF edits[q].at \in {"none", "over"} THEN edits[q] ELSE EditEnded(q, "killed")
      BY <1>1 DEF EditEnded
    <2> QED
      BY <2>1, EndedRow DEF EditInv, EditTypes
  <1>3. EditTypes'
    <2>1. edits' = [q \in EditReqs |-> edits'[q]]
      BY <1>1, Zenon
    <2>2. edits' \in [EditReqs -> EditRows]
      BY <1>2, <2>1
    <2> QED
      BY <1>1, <2>2 DEF EditInv, EditTypes
  <1>4. Excluded' /\ Compared' /\ Installed'
    BY <1>2 DEF Excluded, Compared, Installed, Holding
  <1>5. Planned'
    BY <1>1, <1>2 DEF EditInv, Planned, Aims, Plans, Writing, Holding
  <1>6. NoChangeIsLost'
    BY <1>1, <1>2 DEF EditInv, NoChangeIsLost
  <1> QED
    BY <1>3, <1>4, <1>5, <1>6 DEF EditInv

\* The link is moved while there is one request.
LEMMA MoveKeeps ==
    ASSUME EditInv, Alone, LinkIsMoved
    PROVE  EditInv'
  <1>1. /\ elink' \in EditFiles /\ UNCHANGED <<efile, edits, elocks>>
        /\ esaves' = [esaves EXCEPT !.moves = @ + 1]
    BY DEF LinkIsMoved
  <1>2. /\ esaves' \in [made : SUBSET EditSaves, late : SUBSET EditSaves, moves : Nat]
        /\ esaves'.made = esaves.made /\ esaves'.late = esaves.late
    BY <1>1 DEF EditInv, EditTypes
  <1>3. EditTypes' /\ Excluded'
    BY <1>1, <1>2 DEF EditInv, EditTypes, Excluded
  <1>4. Planned'
    BY <1>1 DEF EditInv, Planned, Aims, Plans, Alone
  <1>5. Compared' /\ Installed' /\ NoChangeIsLost'
    BY <1>1, <1>2 DEF EditInv, Compared, Installed, NoChangeIsLost
  <1> QED
    BY <1>3, <1>4, <1>5 DEF EditInv

(***************************************************************************)
(* As long as links stay where they are, no change is lost: every change   *)
(* that was answered with success, and every save of another program that  *)
(* is not late, is in one of the files (fileEdit and its locks).  For any  *)
(* number of requests, files and saves, failed steps and killed Nodes; and *)
(* for one request even where links are moved.                             *)
(***************************************************************************)
THEOREM ChangesStay == ASSUME "relink" \notin EditFaults \/ Alone
                       PROVE  FileEditSpec => []NoChangeIsLost
  <1>1. EditInv /\ [FileEditNext]_fileEditVars => EditInv'
    <2> SUFFICES ASSUME EditInv, [FileEditNext]_fileEditVars PROVE EditInv'
      OBVIOUS
    <2>1. CASE UNCHANGED fileEditVars
      BY <2>1 DEF fileEditVars, EditInv, EditTypes, Excluded, Planned, Aims, Plans, Compared,
         Installed, NoChangeIsLost, ResolveMachinePath
    <2>2. LinkIsMoved => Alone
      BY DEF LinkIsMoved
    <2> QED
      BY <2>1, <2>2, StepKeeps, EditorKeeps, MoveKeeps, KillKeeps DEF FileEditNext
  <1>2. EditInv => NoChangeIsLost
    BY DEF EditInv
  <1> QED
    BY EditStarts, <1>1, <1>2, PTL DEF FileEditSpec

(***************************************************************************)
(* The ledger of session creations.                                        *)
(***************************************************************************)
Rows == Records \cup {None}
LedgerSteps == {"idle"} \cup CallerSteps \cup DeleteSteps
SessStates == {"none", "asked", "live", "archived", "refused", "deleted"}

LedgerTyped ==
    /\ up \in BOOLEAN /\ loadErr \in BOOLEAN
    /\ rec \in [Keys -> Rows] /\ disk \in [Keys -> Rows]
    /\ pc \in [Actors -> LedgerSteps] /\ ckey \in [Actors -> Keys \cup {None}]
    /\ cspec \in [Actors -> Specs \cup {None}] /\ csid \in [Actors -> 0..MaxSessions]
    /\ sess \in [Sessions -> SessStates] /\ skey \in [Sessions -> Keys \cup {None}]
    /\ sspec \in [Sessions -> Specs \cup {None}] /\ sent \in 0..MaxSessions
    /\ told \in [Keys -> 0..MaxSessions] /\ reclaimed \in SUBSET Sessions

LedgerOpen == up /\ ~loadErr

\* m is the one session of k that may be there.
Only(k, m) == \A n \in Sessions : Exists(n) /\ skey[n] = k => n = m

(***************************************************************************)
(* A record of the key.                                                    *)
(***************************************************************************)
GoodRecord(k, r) ==
    r # None =>
        /\ r.state = "reserved" => r.sid = 0
        /\ r.state \in {"thread_created", "succeeded", "deleting"} => r.sid # 0
        /\ r.sid # 0 => /\ skey[r.sid] = k /\ sspec[r.sid] = r.spec
                        /\ r.sid \notin reclaimed /\ Only(k, r.sid)

(***************************************************************************)
(* While the Node runs, memory and ledger differ only where memory is in   *)
(* doubt.                                                                  *)
(***************************************************************************)
InStep(k) ==
    \/ rec[k] = disk[k]
    \/ /\ rec[k] # None /\ disk[k] # None
       /\ rec[k].state = "in_doubt" /\ disk[k].state \in {"reserved", "thread_created"}
       /\ disk[k].sid # 0 => rec[k].sid = disk[k].sid

KeyIsSound(k) ==
    /\ GoodRecord(k, rec[k]) /\ GoodRecord(k, disk[k])
    /\ LedgerOpen => InStep(k)
    /\ told[k] # 0 /\ sess[told[k]] # "deleted" =>
           disk[k] # None /\ disk[k].sid = told[k] /\ disk[k].state \in {"succeeded", "deleting"}
    /\ disk[k] = None => \A n \in Sessions : skey[n] = k => ~Exists(n)
    /\ \A m \in Sessions : Exists(m) /\ skey[m] = k => Only(k, m)

Resting ==
    /\ loadErr => up
    /\ ~LedgerOpen => /\ \A a \in Actors : pc[a] = "idle"
                   /\ \A k \in Keys : rec[k] = None

Numbers ==
    \A n \in Sessions : /\ sess[n] = "none" <=> n > sent
                        /\ sess[n] # "none" <=> skey[n] \in Keys
                        /\ n \in reclaimed => sess[n] = "deleted"

Apart == \A c \in Callers : \A a \in Actors \ {c} : csid[c] # 0 => csid[a] # csid[c]

OwnKeys ==
    \A c \in Callers : \A d \in Callers \ {c} :
        pc[c] # "idle" /\ pc[d] # "idle" => ckey[c] # ckey[d]

RecordAt(p, r, n) ==
    /\ p \in {"reserved", "starting", "started", "refused", "ambiguous"} => r.state = "reserved"
    /\ p \in {"ready", "spoiled"} =>
           r.state = "reserved" \/ (r.state = "thread_created" /\ r.sid = n)
    /\ p \in {"created", "delete"} => r.state = "thread_created" /\ r.sid = n
    /\ p = "archive" => r.state = "reserved" \/ (r.state = "in_doubt" /\ r.sid = n)
    /\ p \in {"prepared", "gone"} => r.state = "deleting" /\ r.sid = n

CallerIsSound(c) ==
    LET k == ckey[c]  n == csid[c]
    IN  pc[c] # "idle" =>
            /\ k \in Keys /\ cspec[c] \in Specs
            /\ rec[k] # None /\ rec[k].spec = cspec[c] /\ RecordAt(pc[c], rec[k], n)
            /\ pc[c] = "reserved" => \A m \in Sessions : skey[m] = k => ~Exists(m)
            /\ pc[c] # "reserved" => skey[n] = k /\ sspec[n] = cspec[c] /\ Only(k, n)
            /\ pc[c] \notin {"reserved", "prepared", "gone"} => sess[n] \notin {"none", "deleted"}
            /\ pc[c] = "refused" => sess[n] = "refused"

ActorIsSound(a) ==
    /\ csid[a] = 0 <=> pc[a] \in {"idle", "reserved"}
    /\ csid[a] # 0 => sess[csid[a]] # "none"
    /\ pc[a] \in DeleteSteps \cup {"idle"} \/ a \in Callers
    /\ pc[a] \in {"prepared", "gone"} =>
           \A k \in Keys : rec[k] # None /\ rec[k].sid = csid[a] => rec[k].state = "deleting"
    /\ pc[a] = "gone" => sess[csid[a]] = "deleted"

LedgerInv ==
    /\ LedgerTyped /\ Resting /\ Numbers /\ Apart /\ OwnKeys
    /\ \A k \in Keys : KeyIsSound(k)
    /\ \A c \in Callers : CallerIsSound(c)
    /\ \A a \in Actors : ActorIsSound(a)

\* What the constants are not.
LEMMA LedgerSigns ==
    /\ None \notin Records /\ None \notin Keys
    /\ 0 \notin Sessions /\ Sessions \subseteq 0..MaxSessions
    /\ \A n \in 0..MaxSessions : n # 0 => n \in Sessions
    /\ Callers \subseteq Actors /\ Deleters \subseteq Actors /\ Callers \cap Deleters = {}
  BY NoneAssumption, ActorsAssumption, BoundsAssumption DEF Sessions, Actors

\* The fields of a record.
LEMMA RecordIs ==
    ASSUME NEW s \in Specs, NEW st \in RecordStates, NEW n \in 0..MaxSessions
    PROVE  /\ Record(s, st, n) \in Records /\ Record(s, st, n).spec = s
           /\ Record(s, st, n).state = st /\ Record(s, st, n).sid = n
  BY DEF Record, Records

\* The fields of any record.
LEMMA RecordFields ==
    ASSUME NEW r \in Records
    PROVE  /\ r.spec \in Specs /\ r.state \in RecordStates /\ r.sid \in 0..MaxSessions
           /\ r # None /\ (r.sid # 0 => r.sid \in Sessions)
  BY LedgerSigns DEF Records

\* What every step of a goroutine finds.
LEMMA AtWorkRunning ==
    ASSUME LedgerInv, NEW a \in Actors, pc[a] # "idle"
    PROVE  LedgerOpen
  BY DEF LedgerInv, Resting

\* The types, one by one.
LEMMA LedgerNow ==
    ASSUME LedgerInv
    PROVE  /\ \A k \in Keys : /\ rec[k] \in Rows /\ disk[k] \in Rows /\ told[k] \in 0..MaxSessions
                              /\ rec[k] # None => rec[k] \in Records
                              /\ disk[k] # None => disk[k] \in Records
           /\ \A a \in Actors : /\ pc[a] \in LedgerSteps /\ csid[a] \in 0..MaxSessions
                                /\ csid[a] # 0 => csid[a] \in Sessions
           /\ rec \in [Keys -> Rows] /\ disk \in [Keys -> Rows]
           /\ pc \in [Actors -> LedgerSteps] /\ csid \in [Actors -> 0..MaxSessions]
           /\ \A n \in Sessions : sess[n] \in SessStates
  BY LedgerSigns DEF LedgerInv, LedgerTyped, Rows

\* At the start there is no record and no session.
LEMMA LedgerStarts == Init => LedgerInv
  <1> SUFFICES ASSUME Init PROVE LedgerInv
    OBVIOUS
  <1>1. LedgerTyped
    <2>1. 0 \in 0..MaxSessions
      BY BoundsAssumption
    <2> QED
      BY <2>1 DEF Init, LedgerTyped, Rows, LedgerSteps, SessStates
  <1>2. /\ \A n \in Sessions : ~Exists(n) /\ sess[n] = "none" /\ n > sent /\ skey[n] = None
        /\ \A k \in Keys : rec[k] = None /\ disk[k] = None /\ told[k] = 0
        /\ \A a \in Actors : pc[a] = "idle" /\ csid[a] = 0
        /\ reclaimed = {} /\ loadErr = FALSE
    BY DEF Init, Exists, Sessions
  <1>3. \A k \in Keys : KeyIsSound(k)
    BY <1>2 DEF KeyIsSound, GoodRecord, InStep, Only
  <1>4. \A c \in Callers : CallerIsSound(c)
    BY <1>2, LedgerSigns DEF CallerIsSound
  <1>5. \A a \in Actors : ActorIsSound(a)
    BY <1>2 DEF ActorIsSound
  <1>6. Resting /\ Numbers /\ Apart /\ OwnKeys
    BY <1>2, LedgerSigns DEF Resting, Numbers, Apart, OwnKeys
  <1> QED
    BY <1>1, <1>3, <1>4, <1>5, <1>6 DEF LedgerInv

----------------------------------------------------------------------------
(***************************************************************************)
(* A step of the goroutines A that writes the records of the keys K; a     *)
(* save puts every other record on disk as it is in memory.                *)
(***************************************************************************)
Moves(A, K) ==
    /\ UNCHANGED <<up, loadErr, sess, skey, sspec, sent>>
    /\ \A b \in Actors \ A : /\ pc'[b] = pc[b] /\ ckey'[b] = ckey[b]
                             /\ cspec'[b] = cspec[b] /\ csid'[b] = csid[b]
    /\ \A a \in A : /\ ActorIsSound(a)'
                    /\ a \in Callers => CallerIsSound(a)'
                    /\ \A b \in Actors \ {a} :
                          csid'[a] # 0 /\ (a \in Callers \/ b \in Callers) => csid'[b] # csid'[a]
    /\ \A c \in A \cap Callers : \A d \in Callers \ {c} :
           pc'[c] # "idle" /\ pc'[d] # "idle" => ckey'[c] # ckey'[d]
    /\ \A k \in K : KeyIsSound(k)'
    /\ \A j \in Keys \ K : /\ rec'[j] = rec[j] /\ told'[j] = told[j]
                           /\ disk'[j] = rec[j] \/ disk'[j] = disk[j]
    /\ \A c \in Callers \ A : pc[c] # "idle" => ckey[c] \notin K
    /\ \A k \in K : \A a \in Actors \ A :
           pc[a] \in {"prepared", "gone"} /\ rec'[k] # None /\ rec'[k].sid = csid[a] =>
               rec'[k].state = "deleting"
    /\ reclaimed \subseteq reclaimed'
    /\ \A n \in reclaimed' \ reclaimed :
           /\ sess[n] = "deleted"
           /\ \A j \in Keys \ K : rec[j] # None => rec[j].sid # n

\* Such a step keeps the invariant.
LEMMA LedgerMoves ==
    ASSUME LedgerInv, LedgerOpen, LedgerTyped',
           NEW A \in SUBSET Actors, NEW K \in SUBSET Keys, Moves(A, K)
    PROVE  LedgerInv'
  <1> USE DEF Moves
  <1>1. Resting' /\ Numbers'
    BY DEF LedgerInv, LedgerTyped, Resting, LedgerOpen, Numbers
  <1>2. Apart'
    BY LedgerSigns DEF LedgerInv, Apart
  <1>3. OwnKeys'
    BY LedgerSigns DEF LedgerInv, OwnKeys
  <1>4. \A n \in Sessions : Exists(n)' <=> Exists(n)
    BY DEF Exists
  <1>5. \A k \in Keys, m \in Sessions : Only(k, m)' <=> Only(k, m)
    BY <1>4 DEF Only
  <1>6. ASSUME NEW j \in Keys \ K
        PROVE  KeyIsSound(j)'
    <2>1. KeyIsSound(j) /\ InStep(j)
      BY DEF LedgerInv, KeyIsSound
    <2>2. \A r \in {rec[j], disk[j]} : r # None /\ r.sid # 0 => r.sid \in Sessions
      BY LedgerNow, RecordFields
    <2>3. \A r \in {rec[j], disk[j]} : r # None /\ r.sid # 0 => r.sid \notin reclaimed'
      BY <2>1, <2>2 DEF KeyIsSound, GoodRecord, InStep
    <2>4. GoodRecord(j, rec[j])' /\ GoodRecord(j, disk[j])'
      BY <1>5, <2>1, <2>2, <2>3 DEF KeyIsSound, GoodRecord
    <2>5. InStep(j)'
      BY <2>1 DEF InStep
    <2>6. told[j] # 0 => told[j] \in Sessions
      BY LedgerNow, LedgerSigns
    <2> QED
      BY <1>4, <1>5, <2>1, <2>4, <2>5, <2>6 DEF KeyIsSound, InStep
  <1>7. ASSUME NEW c \in Callers \ A
        PROVE  CallerIsSound(c)'
    <2>1. CallerIsSound(c) /\ ActorIsSound(c) /\ c \in Actors \ A
      BY LedgerSigns DEF LedgerInv
    <2>2. pc[c] # "idle" => ckey[c] \in Keys \ K
      BY <2>1 DEF CallerIsSound
    <2>3. pc[c] \notin {"idle", "reserved"} => csid[c] \in Sessions
      BY <2>1, LedgerNow DEF ActorIsSound
    <2> QED
      BY <1>4, <1>5, <2>1, <2>2, <2>3 DEF CallerIsSound
  <1>8. ASSUME NEW a \in Actors \ A
        PROVE  ActorIsSound(a)'
    <2>1. ActorIsSound(a)
      BY DEF LedgerInv
    <2> QED
      BY <2>1 DEF ActorIsSound
  <1> QED
    BY <1>1, <1>2, <1>3, <1>6, <1>7, <1>8 DEF LedgerInv

(***************************************************************************)
(* A step of the goroutines A while the session n becomes x at its         *)
(* provider; the records stay.                                             *)
(***************************************************************************)
Provides(n, x, A) ==
    /\ UNCHANGED <<up, loadErr, rec, disk, ckey, cspec, skey, sspec, sent, told, reclaimed>>
    /\ sess[n] # "none" /\ sess'[n] = x /\ \A m \in Sessions \ {n} : sess'[m] = sess[m]
    /\ Exists(n)' => Exists(n)
    /\ sess[n] = "deleted" => x = "deleted"
    /\ A # {} => LedgerOpen
    /\ \A b \in Actors \ A : pc'[b] = pc[b] /\ csid'[b] = csid[b]
    /\ \A a \in A : /\ ActorIsSound(a)' /\ (a \in Callers => CallerIsSound(a)')
                    /\ csid'[a] = csid[a] \/ csid'[a] = 0
                    /\ pc'[a] # "idle" => pc[a] # "idle"
    /\ \A c \in Callers \ A : csid[c] = n => x \in {"live", "refused"} /\ sess[n] = "asked"

\* Such a step keeps the invariant.
LEMMA LedgerProvides ==
    ASSUME LedgerInv, LedgerTyped', NEW n \in Sessions, NEW x \in SessStates \ {"none"},
           NEW A \in SUBSET Actors, Provides(n, x, A)
    PROVE  LedgerInv'
  <1> USE DEF Provides
  <1>1. sess'[n] = x /\ \A m \in Sessions \ {n} : sess'[m] = sess[m]
    OBVIOUS
  <1>2. /\ \A m \in Sessions : Exists(m)' => Exists(m)
        /\ \A m \in Sessions : sess'[m] = "none" <=> sess[m] = "none"
        /\ \A m \in Sessions : sess[m] = "deleted" => sess'[m] = "deleted"
    BY <1>1 DEF Exists
  <1>3. \A k \in Keys, m \in Sessions : Only(k, m) => Only(k, m)'
    BY <1>2 DEF Only
  <1>4. Resting' /\ Numbers'
    BY <1>2 DEF LedgerInv, Resting, LedgerOpen, Numbers
  <1>5. Apart'
    BY LedgerSigns DEF LedgerInv, Apart
  <1>6. OwnKeys'
    BY LedgerSigns DEF LedgerInv, OwnKeys
  <1>7. ASSUME NEW k \in Keys
        PROVE  KeyIsSound(k)'
    <2>1. KeyIsSound(k)
      BY DEF LedgerInv
    <2>2. \A r \in {rec[k], disk[k]} : r # None /\ r.sid # 0 => r.sid \in Sessions
      BY LedgerNow, RecordFields
    <2>3. GoodRecord(k, rec[k])' /\ GoodRecord(k, disk[k])'
      BY <1>3, <2>1, <2>2 DEF KeyIsSound, GoodRecord
    <2>4. told[k] # 0 => told[k] \in Sessions
      BY LedgerNow, LedgerSigns
    <2> QED
      BY <1>2, <1>3, <2>1, <2>3, <2>4 DEF KeyIsSound, InStep, LedgerOpen
  <1>8. ASSUME NEW c \in Callers \ A
        PROVE  CallerIsSound(c)'
    <2>1. CallerIsSound(c) /\ ActorIsSound(c) /\ c \in Actors \ A
      BY LedgerSigns DEF LedgerInv
    <2>2. pc[c] \notin {"idle", "reserved"} => csid[c] \in Sessions
      BY <2>1, LedgerNow DEF ActorIsSound
    <2>3. csid[c] = n => x \in {"live", "refused"} /\ sess[n] = "asked"
      OBVIOUS
    <2>4. pc[c] # "idle" => ckey[c] \in Keys
      BY <2>1 DEF CallerIsSound
    <2> QED
      BY <1>1, <1>2, <1>3, <2>1, <2>2, <2>3, <2>4 DEF CallerIsSound
  <1>9. ASSUME NEW a \in Actors \ A
        PROVE  ActorIsSound(a)'
    <2>1. ActorIsSound(a) /\ (csid[a] # 0 => csid[a] \in Sessions)
      BY LedgerNow DEF LedgerInv
    <2> QED
      BY <1>2, <2>1 DEF ActorIsSound, DeleteSteps
  <1> QED
    BY <1>4, <1>5, <1>6, <1>7, <1>8, <1>9 DEF LedgerInv

\* A goroutine goes to p and keeps its session, or returns.
Goes(a, p) == Goto(a, p) /\ csid' = IF p = "idle" THEN [csid EXCEPT ![a] = 0] ELSE csid

\* What such a step leaves.
LEMMA GoesTyped ==
    ASSUME LedgerInv, NEW a \in Actors, NEW p \in LedgerSteps, Goes(a, p)
    PROVE  /\ pc' \in [Actors -> LedgerSteps] /\ csid' \in [Actors -> 0..MaxSessions]
           /\ pc'[a] = p /\ csid'[a] = IF p = "idle" THEN 0 ELSE csid[a]
           /\ \A b \in Actors \ {a} : pc'[b] = pc[b] /\ csid'[b] = csid[b]
  <1>1. 0 \in 0..MaxSessions
    BY BoundsAssumption
  <1> QED
    BY <1>1 DEF LedgerInv, LedgerTyped, Goes, Goto

\* A goroutine that returns has nothing to answer for.
LEMMA IdleIsSound ==
    ASSUME NEW a \in Actors, pc'[a] = "idle", csid'[a] = 0
    PROVE  CallerIsSound(a)' /\ ActorIsSound(a)'
  BY LedgerSigns DEF CallerIsSound, ActorIsSound

\* A goroutine goes on while records and sessions stay.
LEMMA GoesOnKeepsLedger ==
    ASSUME LedgerInv, NEW a \in Actors, pc[a] # "idle", NEW p \in LedgerSteps, Goes(a, p),
           UNCHANGED <<up, loadErr, rec, disk, ckey, cspec, sess, skey, sspec, sent, told, reclaimed>>,
           p # "idle" => ActorIsSound(a)' /\ (a \in Callers => CallerIsSound(a)')
    PROVE  LedgerInv'
  <1>1. /\ pc' \in [Actors -> LedgerSteps] /\ csid' \in [Actors -> 0..MaxSessions]
        /\ pc'[a] = p /\ csid'[a] = IF p = "idle" THEN 0 ELSE csid[a]
        /\ \A b \in Actors \ {a} : pc'[b] = pc[b] /\ csid'[b] = csid[b]
    BY GoesTyped
  <1>2. LedgerTyped' /\ LedgerOpen
    BY <1>1, AtWorkRunning DEF LedgerInv, LedgerTyped
  <1>3. ActorIsSound(a)' /\ (a \in Callers => CallerIsSound(a)')
    BY <1>1, IdleIsSound
  <1>4. \A b \in Actors \ {a} :
            csid'[a] # 0 /\ (a \in Callers \/ b \in Callers) => csid'[b] # csid'[a]
    BY <1>1, LedgerSigns DEF LedgerInv, Apart
  <1>5. a \in Callers => \A d \in Callers \ {a} :
            pc'[a] # "idle" /\ pc'[d] # "idle" => ckey'[a] # ckey'[d]
    BY <1>1, LedgerSigns DEF LedgerInv, OwnKeys
  <1>6. PICK A \in SUBSET Actors : A = {a}
    OBVIOUS
  <1>7. PICK K \in SUBSET Keys : K = {}
    OBVIOUS
  <1> QED
    BY <1>1, <1>2, <1>3, <1>4, <1>5, <1>6, <1>7, LedgerMoves DEF Moves

\* What the invariant says of a caller that has a session.
LEMMA CallerNow ==
    ASSUME LedgerInv, NEW c \in Callers, pc[c] \notin {"idle", "reserved"}
    PROVE  /\ LedgerOpen /\ c \in Actors /\ ckey[c] \in Keys /\ cspec[c] \in Specs
           /\ csid[c] \in Sessions /\ csid[c] # 0 /\ csid[c] \in 0..MaxSessions
           /\ rec[ckey[c]] \in Records /\ rec[ckey[c]].spec = cspec[c]
           /\ RecordAt(pc[c], rec[ckey[c]], csid[c])
           /\ skey[csid[c]] = ckey[c] /\ sspec[csid[c]] = cspec[c] /\ Only(ckey[c], csid[c])
           /\ pc[c] \notin {"prepared", "gone"} =>
                  sess[csid[c]] \notin {"none", "deleted"} /\ csid[c] \notin reclaimed
           /\ pc[c] = "refused" => sess[csid[c]] = "refused"
  <1>1. c \in Actors /\ CallerIsSound(c) /\ ActorIsSound(c)
    BY LedgerSigns DEF LedgerInv
  <1>2. ckey[c] \in Keys /\ csid[c] \in Sessions /\ csid[c] # 0
    BY <1>1, LedgerNow DEF CallerIsSound, ActorIsSound
  <1> QED
    BY <1>1, <1>2, LedgerNow, AtWorkRunning DEF CallerIsSound, LedgerInv, Numbers

\* A step of the goroutine c that writes the record of the key k.
LEMMA OneMoves ==
    ASSUME LedgerInv, LedgerOpen, LedgerTyped', NEW c \in Actors, NEW k \in Keys,
           UNCHANGED <<up, loadErr, sess, skey, sspec, sent, reclaimed>>,
           \A b \in Actors \ {c} : /\ pc'[b] = pc[b] /\ ckey'[b] = ckey[b]
                                   /\ cspec'[b] = cspec[b] /\ csid'[b] = csid[b],
           ActorIsSound(c)', c \in Callers => CallerIsSound(c)',
           \A b \in Actors \ {c} : csid'[c] # 0 => csid'[b] # csid'[c],
           c \in Callers => \A d \in Callers \ {c} :
               pc'[c] # "idle" /\ pc'[d] # "idle" => ckey'[c] # ckey'[d],
           KeyIsSound(k)',
           \A j \in Keys \ {k} : /\ rec'[j] = rec[j] /\ told'[j] = told[j]
                                 /\ disk'[j] = rec[j] \/ disk'[j] = disk[j],
           \A d \in Callers \ {c} : pc[d] # "idle" => ckey[d] # k,
           \A a \in Actors \ {c} :
               pc[a] \in {"prepared", "gone"} /\ rec'[k] # None /\ rec'[k].sid = csid[a] =>
                   rec'[k].state = "deleting"
    PROVE  LedgerInv'
  <1>1. PICK A \in SUBSET Actors : A = {c}
    OBVIOUS
  <1>2. PICK K \in SUBSET Keys : K = {k}
    OBVIOUS
  <1>3. Moves(A, K)
    BY <1>1, <1>2 DEF Moves
  <1> QED
    BY <1>3, LedgerMoves

\* A caller's session goes with nobody else.
LEMMA CallerAlone ==
    ASSUME LedgerInv, NEW c \in Callers, pc[c] \notin {"idle", "reserved"}
    PROVE  \A a \in Actors \ {c} : csid[a] # csid[c]
  BY CallerNow DEF LedgerInv, Apart

(***************************************************************************)
(* A caller writes its record: with its session, or in doubt.              *)
(***************************************************************************)
LEMMA WritesKeep ==
    ASSUME LedgerInv, NEW c \in Callers, pc[c] \in {"ambiguous", "started", "spoiled", "ready"},
           NEW k \in Keys, k = ckey[c], NEW x \in Records, x.spec = cspec[c],
           x.state \in {"thread_created", "in_doubt", "succeeded"},
           x.sid = csid[c] \/ (x.sid = 0 /\ x.state = "in_doubt" /\ pc[c] = "ambiguous"),
           rec' = [rec EXCEPT ![k] = x],
           disk' = rec' \/ (x.state = "in_doubt" /\ disk' = disk),
           told' = told \/ (x.state = "succeeded" /\ told' = [told EXCEPT ![k] = csid[c]]),
           NEW p \in {"created", "archive", "idle"}, Goes(c, p),
           p # "idle" => RecordAt(p, x, csid[c]),
           UNCHANGED <<up, loadErr, ckey, cspec, sess, skey, sspec, sent, reclaimed>>
    PROVE  LedgerInv'
  <1>1. p \in LedgerSteps
    BY DEF LedgerSteps, CallerSteps
  <1>2. /\ pc' \in [Actors -> LedgerSteps] /\ csid' \in [Actors -> 0..MaxSessions]
        /\ pc'[c] = p /\ csid'[c] = IF p = "idle" THEN 0 ELSE csid[c]
        /\ \A b \in Actors \ {c} : pc'[b] = pc[b] /\ csid'[b] = csid[b]
    BY <1>1, GoesTyped, LedgerSigns
  <1>3. PICK n \in Sessions : n = csid[c]
    BY CallerNow
  <1>4. /\ LedgerOpen /\ c \in Actors /\ cspec[c] \in Specs /\ n # 0 /\ n \in 0..MaxSessions
        /\ rec[k] \in Records /\ RecordAt(pc[c], rec[k], n)
        /\ skey[n] = k /\ sspec[n] = cspec[c] /\ Only(k, n)
        /\ sess[n] \notin {"none", "deleted"} /\ n \notin reclaimed
    BY <1>3, CallerNow
  <1>5. x # None /\ rec[k] # None /\ rec[k].state \in {"reserved", "thread_created"}
    BY <1>4, RecordFields DEF RecordAt
  <1>6. /\ rec' \in [Keys -> Rows] /\ rec'[k] = x /\ \A j \in Keys \ {k} : rec'[j] = rec[j]
        /\ disk' \in [Keys -> Rows]
        /\ \A j \in Keys \ {k} : disk'[j] = rec[j] \/ disk'[j] = disk[j]
        /\ disk'[k] = x \/ (x.state = "in_doubt" /\ disk'[k] = disk[k])
    BY LedgerNow DEF Rows
  <1>7. /\ told' \in [Keys -> 0..MaxSessions] /\ \A j \in Keys \ {k} : told'[j] = told[j]
        /\ told'[k] = told[k] \/ (x.state = "succeeded" /\ told'[k] = n)
    BY <1>3, <1>4 DEF LedgerInv, LedgerTyped
  <1>8. LedgerTyped'
    BY <1>2, <1>6, <1>7 DEF LedgerInv, LedgerTyped
  <1>9. \A j \in Keys, m \in Sessions : (Only(j, m)' <=> Only(j, m)) /\ (Exists(m)' <=> Exists(m))
    BY DEF Only, Exists
  <1>10. KeyIsSound(k) /\ InStep(k)
    BY <1>4 DEF LedgerInv, KeyIsSound
  <1>11. disk[k] # None /\ disk[k].state \in {"reserved", "thread_created"}
    BY <1>5, <1>10 DEF InStep
  <1>12. KeyIsSound(k)'
    <2>1. GoodRecord(k, x)'
      BY <1>3, <1>4, <1>9 DEF GoodRecord
    <2>2. disk[k].sid # 0 => disk[k].sid \in Sessions
      BY <1>11, LedgerNow, RecordFields
    <2>3. GoodRecord(k, disk[k]) => (disk'[k] = disk[k] => GoodRecord(k, disk[k])')
      BY <1>9, <1>11, <2>2 DEF GoodRecord
    <2>4. GoodRecord(k, rec[k])' /\ GoodRecord(k, disk[k])'
      BY <1>6, <1>10, <2>1, <2>3 DEF KeyIsSound
    <2>5. InStep(k)'
      <3>1. CASE disk'[k] = x
        BY <1>6, <3>1 DEF InStep
      <3>2. CASE x.state = "in_doubt" /\ disk'[k] = disk[k]
        <4>1. rec[k] = disk[k]
          BY <1>5, <1>10 DEF InStep
        <4>2. disk[k].sid # 0 => x.sid = disk[k].sid
          <5>1. rec[k].sid = 0 \/ (rec[k].state = "thread_created" /\ rec[k].sid = n /\ x.sid = n)
            <6>1. GoodRecord(k, rec[k]) /\ RecordAt(pc[c], rec[k], n)
              BY <1>4, <1>10 DEF KeyIsSound
            <6>2. rec[k].state = "reserved" => rec[k].sid = 0
              BY <1>5, <6>1 DEF GoodRecord
            <6>3. pc[c] \in {"ambiguous", "started"} => rec[k].state = "reserved"
              BY <6>1 DEF RecordAt
            <6>4. pc[c] \in {"spoiled", "ready"} =>
                      x.sid = n /\ (rec[k].state = "reserved" \/ (rec[k].state = "thread_created" /\ rec[k].sid = n))
              BY <1>3, <6>1 DEF RecordAt
            <6> QED
              BY <6>2, <6>3, <6>4
          <5> QED
            BY <4>1, <5>1
        <4> QED
          BY <1>5, <1>6, <1>11, <3>2, <4>2 DEF InStep
      <3> QED
        BY <1>6, <3>1, <3>2
    <2>6. told[k] = 0 \/ sess[told[k]] = "deleted"
      BY <1>10, <1>11 DEF KeyIsSound
    <2>7. told'[k] # 0 /\ sess'[told'[k]] # "deleted" =>
              disk'[k] # None /\ disk'[k].sid = told'[k] /\ disk'[k].state \in {"succeeded", "deleting"}
      BY <1>3, <1>5, <1>6, <1>7, <2>6
    <2>8. disk'[k] # None
      BY <1>5, <1>6, <1>11
    <2> QED
      BY <1>9, <1>10, <2>4, <2>5, <2>7, <2>8 DEF KeyIsSound
  <1>13. CallerIsSound(c)'
    BY <1>2, <1>3, <1>4, <1>5, <1>6, <1>9 DEF CallerIsSound
  <1>14. ActorIsSound(c)'
    BY <1>2, <1>3, <1>4 DEF ActorIsSound
  <1>15. \A b \in Actors \ {c} : csid[b] # n
    BY <1>3, CallerAlone
  <1>16. \A d \in Callers \ {c} : pc[d] # "idle" => ckey[d] # k
    BY DEF LedgerInv, OwnKeys
  <1>17. \A a \in Actors \ {c} : pc[a] \in {"prepared", "gone"} => x.sid # csid[a]
    BY <1>3, <1>15 DEF LedgerInv, ActorIsSound
  <1>18. \A b \in Actors \ {c} : csid'[c] # 0 => csid'[b] # csid'[c]
    BY <1>2, <1>3, <1>15
  <1>19. \A d \in Callers \ {c} : pc'[d] # "idle" => ckey'[c] # ckey'[d]
    BY <1>2, <1>16, LedgerSigns
  <1>20. /\ \A b \in Actors \ {c} : /\ pc'[b] = pc[b] /\ ckey'[b] = ckey[b]
                                    /\ cspec'[b] = cspec[b] /\ csid'[b] = csid[b]
         /\ \A j \in Keys \ {k} : /\ rec'[j] = rec[j] /\ told'[j] = told[j]
                                  /\ disk'[j] = rec[j] \/ disk'[j] = disk[j]
         /\ \A a \in Actors \ {c} :
                pc[a] \in {"prepared", "gone"} /\ rec'[k] # None /\ rec'[k].sid = csid[a] =>
                    rec'[k].state = "deleting"
         /\ UNCHANGED <<up, loadErr, sess, skey, sspec, sent, reclaimed>>
    BY <1>2, <1>6, <1>7, <1>17
  <1> QED
    BY <1>4, <1>8, <1>12, <1>13, <1>14, <1>16, <1>18, <1>19, <1>20, OneMoves

\* A save that fails leaves the ledger as it was.
LEMMA SaveFailsMeans ==
    ASSUME Faults \cap {"sync", "index"} = {}, NEW new, NEW kept, SaveFails(new, kept)
    PROVE  rec' = kept /\ disk' = disk
  BY DEF SaveFails

\* Nothing happened.
LEMMA LedgerSame ==
    ASSUME LedgerInv,
           UNCHANGED <<up, loadErr, rec, disk, pc, ckey, cspec, csid, sess, skey, sspec, sent,
                       told, reclaimed>>
    PROVE  LedgerInv'
  <1>1. \A n \in Sessions : Exists(n)' <=> Exists(n)
    BY DEF Exists
  <1>2. \A k \in Keys, m \in Sessions : Only(k, m)' <=> Only(k, m)
    BY <1>1 DEF Only
  <1>3. LedgerTyped' /\ Resting' /\ Numbers' /\ Apart' /\ OwnKeys'
    BY DEF LedgerInv, LedgerTyped, Resting, LedgerOpen, Numbers, Apart, OwnKeys
  <1>4. ASSUME NEW k \in Keys
        PROVE  KeyIsSound(k)'
    <2>1. KeyIsSound(k)
      BY DEF LedgerInv
    <2>2. \A r \in {rec[k], disk[k]} : r # None /\ r.sid # 0 => r.sid \in Sessions
      BY LedgerNow, RecordFields
    <2> QED
      BY <1>1, <1>2, <2>1, <2>2 DEF KeyIsSound, GoodRecord, InStep, LedgerOpen
  <1>5. ASSUME NEW c \in Callers
        PROVE  CallerIsSound(c)'
    <2>1. CallerIsSound(c) /\ ActorIsSound(c) /\ c \in Actors
      BY LedgerSigns DEF LedgerInv
    <2>2. pc[c] \notin {"idle", "reserved"} => csid[c] \in Sessions
      BY <2>1, LedgerNow DEF ActorIsSound
    <2>3. pc[c] # "idle" => ckey[c] \in Keys
      BY <2>1 DEF CallerIsSound
    <2> QED
      BY <1>1, <1>2, <2>1, <2>2, <2>3 DEF CallerIsSound
  <1>6. ASSUME NEW a \in Actors
        PROVE  ActorIsSound(a)'
    BY DEF LedgerInv, ActorIsSound
  <1> QED
    BY <1>3, <1>4, <1>5, <1>6 DEF LedgerInv

\* The record that a caller works on names its session or none.
LEMMA CallersRecord ==
    ASSUME LedgerInv, NEW c \in Callers, pc[c] # "idle"
    PROVE  /\ ckey[c] \in Keys /\ rec[ckey[c]] # None
           /\ rec[ckey[c]].state # "succeeded"
           /\ rec[ckey[c]].state = "in_doubt" => rec[ckey[c]].sid # 0
           /\ rec[ckey[c]].sid = 0 \/ (rec[ckey[c]].sid = csid[c] /\ csid[c] # 0)
  <1>1. CallerIsSound(c) /\ ActorIsSound(c) /\ c \in Actors
    BY LedgerSigns DEF LedgerInv
  <1>2. ckey[c] \in Keys /\ rec[ckey[c]] # None /\ RecordAt(pc[c], rec[ckey[c]], csid[c])
    BY <1>1 DEF CallerIsSound
  <1>3. GoodRecord(ckey[c], rec[ckey[c]])
    BY <1>2 DEF LedgerInv, KeyIsSound
  <1>4. pc[c] \in CallerSteps \cup DeleteSteps
    BY <1>1, LedgerNow DEF LedgerSteps
  <1> QED
    BY <1>1, <1>2, <1>3, <1>4 DEF RecordAt, GoodRecord, CallerSteps, DeleteSteps, ActorIsSound

(***************************************************************************)
(* session.create: begin.                                                  *)
(***************************************************************************)
LEMMA KnownKeepsLedger ==
    ASSUME LedgerInv, LedgerOpen, NEW c \in Callers, NEW k \in Keys, NEW s \in Specs, Known(c, k, s),
           UNCHANGED <<up, loadErr, sessVars, reclaimed>>
    PROVE  LedgerInv'
  <1>1. UNCHANGED <<up, loadErr, rec, disk, pc, ckey, cspec, csid, sess, skey, sspec, sent, reclaimed>>
    BY DEF Known, storeVars, callVars, sessVars
  <1>2. rec[k] \in Records /\ rec[k].sid \in 0..MaxSessions
    BY LedgerNow, RecordFields DEF Known, Has
  <1>3. told \in [Keys -> 0..MaxSessions]
    BY DEF LedgerInv, LedgerTyped
  <1>4. CASE rec[k].spec = s /\ rec[k].state = "succeeded"
    <2>1. told' = [told EXCEPT ![k] = rec[k].sid]
      BY <1>4 DEF Known
    <2>2. /\ told' \in [Keys -> 0..MaxSessions] /\ told'[k] = rec[k].sid
          /\ \A j \in Keys \ {k} : told'[j] = told[j]
      BY <1>2, <1>3, <2>1
    <2>3. LedgerTyped'
      BY <1>1, <2>2 DEF LedgerInv, LedgerTyped
    <2>4. KeyIsSound(k) /\ rec[k] = disk[k]
      BY <1>4 DEF LedgerInv, KeyIsSound, InStep
    <2>5. \A n \in Sessions : Exists(n)' <=> Exists(n)
      BY <1>1 DEF Exists
    <2>6. \A m \in Sessions : Only(k, m)' <=> Only(k, m)
      BY <1>1, <2>5 DEF Only
    <2>7. rec[k] # None /\ (rec[k].sid # 0 => rec[k].sid \in Sessions)
      BY <1>2, RecordFields
    <2>8. KeyIsSound(k)'
      BY <1>1, <1>4, <2>2, <2>4, <2>5, <2>6, <2>7 DEF KeyIsSound, GoodRecord, InStep
    <2>9. \A d \in Callers : pc[d] # "idle" => ckey[d] # k
      BY <1>4, CallersRecord
    <2>10. \A a \in Actors : pc[a] \in {"prepared", "gone"} /\ rec[k].sid = csid[a] =>
                                 rec[k].state = "deleting"
      BY <2>7 DEF LedgerInv, ActorIsSound
    <2>11. PICK A \in SUBSET Actors : A = {}
      OBVIOUS
    <2>12. PICK K \in SUBSET Keys : K = {k}
      OBVIOUS
    <2>13. Moves(A, K)
      BY <1>1, <2>2, <2>8, <2>9, <2>10, <2>11, <2>12 DEF Moves
    <2> QED
      BY <2>3, <2>13, LedgerMoves
  <1>5. CASE ~(rec[k].spec = s /\ rec[k].state = "succeeded")
    <2>1. told' = [told EXCEPT ![k] = told[k]]
      BY <1>5 DEF Known
    <2>2. told' = told
      BY <1>3, <2>1
    <2> QED
      BY <1>1, <2>2, LedgerSame
  <1> QED
    BY <1>4, <1>5

\* The reservation of a key without a record.
LEMMA ReserveKeepsLedger ==
    ASSUME LedgerInv, LedgerOpen, Faults \cap {"sync", "index"} = {},
           NEW c \in Callers, NEW k \in Keys, NEW s \in Specs, Reserve(c, k, s), pc[c] = "idle",
           UNCHANGED <<up, loadErr, sessVars, reclaimed>>
    PROVE  LedgerInv'
  <1>1. UNCHANGED <<up, loadErr, sess, skey, sspec, sent, reclaimed, told>>
    BY DEF Reserve, sessVars
  <1>2. PICK x : x = Record(s, "reserved", 0)
    OBVIOUS
  <1>3. PICK new : new = [rec EXCEPT ![k] = x]
    OBVIOUS
  <1>4. /\ ~Has(k)
        /\ \/ /\ Saved(new) /\ Goto(c, "reserved")
              /\ ckey' = [ckey EXCEPT ![c] = k] /\ cspec' = [cspec EXCEPT ![c] = s]
              /\ UNCHANGED csid
           \/ SaveFails(new, rec) /\ UNCHANGED callVars
    BY <1>2, <1>3 DEF Reserve
  <1>5. x \in Records /\ x # None /\ x.spec = s /\ x.state = "reserved" /\ x.sid = 0
    <2>1. 0 \in 0..MaxSessions /\ "reserved" \in RecordStates
      BY BoundsAssumption DEF RecordStates
    <2> QED
      BY <1>2, <2>1, RecordIs, RecordFields
  <1>6. CASE SaveFails(new, rec) /\ UNCHANGED callVars
    <2>1. rec' = rec /\ disk' = disk
      BY <1>6, SaveFailsMeans
    <2> QED
      BY <1>1, <1>6, <2>1, LedgerSame DEF callVars
  <1>7. CASE /\ Saved(new) /\ Goto(c, "reserved")
             /\ ckey' = [ckey EXCEPT ![c] = k] /\ cspec' = [cspec EXCEPT ![c] = s]
             /\ UNCHANGED csid
    <2>1. c \in Actors /\ "reserved" \in LedgerSteps
      BY LedgerSigns DEF LedgerSteps, CallerSteps
    <2>2. /\ rec' \in [Keys -> Rows] /\ disk' = rec' /\ rec'[k] = x
          /\ \A j \in Keys \ {k} : rec'[j] = rec[j]
      BY <1>3, <1>5, <1>7, LedgerNow DEF Saved, Rows
    <2>3. /\ pc' \in [Actors -> LedgerSteps] /\ pc'[c] = "reserved"
          /\ \A b \in Actors \ {c} : pc'[b] = pc[b]
      BY <1>7, <2>1, LedgerNow DEF Goto
    <2>4. /\ ckey' \in [Actors -> Keys \cup {None}] /\ ckey'[c] = k
          /\ \A b \in Actors \ {c} : ckey'[b] = ckey[b]
      BY <1>7, <2>1 DEF LedgerInv, LedgerTyped
    <2>5. /\ cspec' \in [Actors -> Specs \cup {None}] /\ cspec'[c] = s
          /\ \A b \in Actors \ {c} : cspec'[b] = cspec[b]
      BY <1>7, <2>1 DEF LedgerInv, LedgerTyped
    <2>6. csid' = csid /\ csid[c] = 0
      BY <1>7, <2>1 DEF LedgerInv, ActorIsSound
    <2>7. LedgerTyped'
      BY <1>1, <2>2, <2>3, <2>4, <2>5, <2>6 DEF LedgerInv, LedgerTyped
    <2>8. KeyIsSound(k) /\ rec[k] = None /\ disk[k] = None
      BY <1>4 DEF LedgerInv, KeyIsSound, InStep, Has
    <2>9. \A n \in Sessions : Exists(n)' <=> Exists(n)
      BY <1>1 DEF Exists
    <2>10. \A m \in Sessions : skey[m] = k => ~Exists(m)
      BY <2>8 DEF KeyIsSound
    <2>11. told[k] = 0 \/ sess[told[k]] = "deleted"
      BY <2>8 DEF KeyIsSound
    <2>12. KeyIsSound(k)'
      BY <1>1, <1>5, <2>2, <2>9, <2>10, <2>11 DEF KeyIsSound, GoodRecord, InStep
    <2>13. CallerIsSound(c)'
      BY <1>1, <1>5, <2>2, <2>3, <2>4, <2>5, <2>9, <2>10 DEF CallerIsSound, RecordAt
    <2>14. ActorIsSound(c)'
      BY <2>3, <2>6 DEF ActorIsSound
    <2>15. \A d \in Callers : pc[d] # "idle" => ckey[d] # k
      BY <2>8, CallersRecord
    <2>16. \A a \in Actors : ActorIsSound(a)
      BY DEF LedgerInv
    <2>17. \A a \in Actors : pc[a] \in {"prepared", "gone"} => x.sid # csid[a]
      BY <1>5, <2>16 DEF ActorIsSound
    <2>18. \A d \in Callers \ {c} : pc'[d] # "idle" => ckey'[c] # ckey'[d]
      BY <2>3, <2>4, <2>15, LedgerSigns
    <2> QED
      BY <1>1, <2>1, <2>2, <2>3, <2>4, <2>5, <2>6, <2>7, <2>12, <2>13, <2>14, <2>15, <2>17, <2>18,
         OneMoves
  <1> QED
    BY <1>4, <1>6, <1>7

(***************************************************************************)
(* session.create: the provider creates the session.                       *)
(***************************************************************************)
LEMMA SendKeepsLedger ==
    ASSUME LedgerInv, NEW c \in Callers, Send(c)
    PROVE  LedgerInv'
  <1>1. PICK n : n = sent + 1
    OBVIOUS
  <1>2. PICK k : k = ckey[c]
    OBVIOUS
  <1>3. /\ pc[c] = "reserved" /\ n \in Sessions /\ sent' = n
        /\ pc' = [pc EXCEPT ![c] = "starting"] /\ csid' = [csid EXCEPT ![c] = n]
        /\ sess' = [sess EXCEPT ![n] = "asked"] /\ skey' = [skey EXCEPT ![n] = k]
        /\ sspec' = [sspec EXCEPT ![n] = cspec[c]]
        /\ UNCHANGED <<up, loadErr, rec, disk, ckey, cspec, told, reclaimed>>
    BY <1>1, <1>2 DEF Send, Goto, storeVars, histVars
  <1>4. /\ c \in Actors /\ LedgerOpen /\ CallerIsSound(c) /\ k \in Keys /\ cspec[c] \in Specs
        /\ rec[k] # None /\ rec[k].spec = cspec[c] /\ rec[k].state = "reserved"
        /\ \A m \in Sessions : skey[m] = k => ~Exists(m)
    <2>1. c \in Actors /\ LedgerOpen /\ CallerIsSound(c)
      BY <1>3, LedgerSigns, AtWorkRunning DEF LedgerInv
    <2> QED
      BY <1>2, <1>3, <2>1 DEF CallerIsSound, RecordAt
  <1>5. /\ n # 0 /\ n \in 0..MaxSessions /\ sess[n] = "none" /\ n \notin reclaimed /\ skey[n] \notin Keys
        /\ \A m \in Sessions : sess[m] = "none" <=> m > sent
        /\ sent \in Nat
    BY <1>1, <1>3, LedgerSigns DEF LedgerInv, LedgerTyped, Numbers
  <1>6. /\ pc' \in [Actors -> LedgerSteps] /\ pc'[c] = "starting"
        /\ \A b \in Actors \ {c} : pc'[b] = pc[b]
        /\ csid' \in [Actors -> 0..MaxSessions] /\ csid'[c] = n
        /\ \A b \in Actors \ {c} : csid'[b] = csid[b]
    <2>1. "starting" \in LedgerSteps
      BY DEF LedgerSteps, CallerSteps
    <2> QED
      BY <1>3, <1>4, <1>5, <2>1, LedgerNow
  <1>7. /\ sess' \in [Sessions -> SessStates] /\ sess'[n] = "asked"
        /\ \A m \in Sessions \ {n} : sess'[m] = sess[m]
    BY <1>3 DEF LedgerInv, LedgerTyped, SessStates
  <1>8. /\ skey' \in [Sessions -> Keys \cup {None}] /\ skey'[n] = k
        /\ \A m \in Sessions \ {n} : skey'[m] = skey[m]
        /\ sspec' \in [Sessions -> Specs \cup {None}] /\ sspec'[n] = cspec[c]
        /\ \A m \in Sessions \ {n} : sspec'[m] = sspec[m]
    BY <1>3, <1>4 DEF LedgerInv, LedgerTyped
  <1>9. LedgerTyped'
    BY <1>3, <1>5, <1>6, <1>7, <1>8 DEF LedgerInv, LedgerTyped
  <1>10. Resting'
    BY <1>3, <1>4 DEF Resting, LedgerOpen
  <1>11. Numbers'
    <2>1. \A m \in Sessions : m > sent + 1 <=> m > sent /\ m # n
      BY <1>1, <1>5, LedgerSigns DEF Sessions
    <2> QED
      BY <1>1, <1>3, <1>4, <1>5, <1>7, <1>8, <2>1 DEF LedgerInv, Numbers
  <1>12. \A a \in Actors : csid[a] # n
    BY <1>5 DEF LedgerInv, ActorIsSound
  <1>13. Apart'
    BY <1>6, <1>12, LedgerSigns DEF LedgerInv, Apart
  <1>14. \A d \in Callers \ {c} : pc[d] # "idle" => ckey[d] # k
    BY <1>2, <1>3 DEF LedgerInv, OwnKeys
  <1>15. OwnKeys'
    BY <1>3, <1>6, LedgerSigns DEF LedgerInv, OwnKeys
  <1>16. \A m \in Sessions \ {n} : Exists(m)' <=> Exists(m)
    BY <1>7 DEF Exists
  <1>17. \A j \in Keys \ {k}, m \in Sessions : Only(j, m) => Only(j, m)'
    BY <1>8, <1>16 DEF Only
  <1>18. Only(k, n)'
    BY <1>4, <1>8, <1>16 DEF Only
  <1>19. ASSUME NEW j \in Keys
         PROVE  KeyIsSound(j)'
    <2>1. KeyIsSound(j)
      BY DEF LedgerInv
    <2>2. \A r \in {rec[j], disk[j]} : r # None /\ r.sid # 0 => r.sid \in Sessions \ {n}
      BY <1>5, <2>1, LedgerNow, RecordFields DEF KeyIsSound, GoodRecord
    <2>3. told[j] # 0 => told[j] \in Sessions
      BY LedgerNow, LedgerSigns
    <2>4. CASE j # k
      <3>1. GoodRecord(j, rec[j])' /\ GoodRecord(j, disk[j])'
        BY <1>3, <1>8, <1>17, <2>1, <2>2, <2>4 DEF KeyIsSound, GoodRecord
      <3>2. told[j] # n
        BY <1>5, <2>1, <2>2 DEF KeyIsSound
      <3>3. \A m \in Sessions : skey'[m] = j => m # n /\ skey[m] = j
        BY <1>8, <2>4
      <3> QED
        BY <1>3, <1>7, <1>16, <1>17, <2>1, <2>3, <2>4, <3>1, <3>2, <3>3
           DEF KeyIsSound, InStep, LedgerOpen
    <2>5. CASE j = k
      <3>1. rec[k] = disk[k]
        BY <1>4, <2>1, <2>5 DEF KeyIsSound, InStep
      <3>2. rec[k].sid = 0
        BY <1>4, <2>1, <2>5 DEF KeyIsSound, GoodRecord
      <3>3. GoodRecord(k, rec[k])' /\ GoodRecord(k, disk[k])'
        BY <1>3, <1>4, <3>1, <3>2 DEF GoodRecord
      <3>4. told[k] = 0 \/ (sess[told[k]] = "deleted" /\ told[k] # n)
        BY <1>4, <1>5, <2>1, <2>5, <3>1 DEF KeyIsSound
      <3>5. told'[k] # 0 => sess'[told'[k]] = "deleted"
        BY <1>3, <1>7, <2>3, <2>5, <3>4
      <3>6. \A m \in Sessions : Exists(m)' /\ skey'[m] = k => Only(k, m)'
        BY <1>4, <1>8, <1>16, <1>18
      <3> QED
        BY <1>3, <1>4, <2>5, <3>1, <3>3, <3>5, <3>6 DEF KeyIsSound, InStep, LedgerOpen
    <2> QED
      BY <2>4, <2>5
  <1>20. CallerIsSound(c)'
    BY <1>2, <1>3, <1>4, <1>6, <1>7, <1>8, <1>18 DEF CallerIsSound, RecordAt
  <1>21. ASSUME NEW d \in Callers \ {c}
         PROVE  CallerIsSound(d)'
    <2>1. CallerIsSound(d) /\ ActorIsSound(d) /\ d \in Actors \ {c}
      BY LedgerSigns DEF LedgerInv
    <2>2. pc[d] \notin {"idle", "reserved"} => csid[d] \in Sessions \ {n}
      BY <1>12, <2>1, LedgerNow DEF ActorIsSound
    <2>3. pc[d] # "idle" => ckey[d] \in Keys \ {k}
      BY <1>14, <2>1 DEF CallerIsSound
    <2>4. pc[d] # "idle" => \A m \in Sessions : skey'[m] = ckey[d] => m # n /\ skey[m] = ckey[d]
      BY <1>8, <2>3
    <2> QED
      BY <1>3, <1>6, <1>7, <1>8, <1>16, <1>17, <2>1, <2>2, <2>3, <2>4 DEF CallerIsSound
  <1>22. ASSUME NEW a \in Actors
         PROVE  ActorIsSound(a)'
    <2>1. ActorIsSound(a) /\ (csid[a] # 0 => csid[a] \in Sessions \ {n})
      BY <1>12, LedgerNow DEF LedgerInv
    <2>2. CASE a = c
      BY <1>5, <1>6, <1>7, <2>2 DEF ActorIsSound
    <2>3. CASE a # c
      BY <1>3, <1>6, <1>7, <2>1, <2>3 DEF ActorIsSound
    <2> QED
      BY <2>2, <2>3
  <1> QED
    BY <1>9, <1>10, <1>11, <1>13, <1>15, <1>19, <1>20, <1>21, <1>22 DEF LedgerInv

\* The provider answers.
LEMMA ProvideKeepsLedger ==
    ASSUME LedgerInv, NEW n \in Sessions, Provide(n)
    PROVE  LedgerInv'
  <1>1. PICK x \in {"live", "refused"} : sess' = [sess EXCEPT ![n] = x]
    BY DEF Provide
  <1>2. /\ sess[n] = "asked"
        /\ UNCHANGED <<up, loadErr, rec, disk, pc, ckey, cspec, csid, skey, sspec, sent, told, reclaimed>>
    BY DEF Provide, storeVars, callVars, histVars
  <1>3. /\ x \in SessStates \ {"none"} /\ sess' \in [Sessions -> SessStates] /\ sess'[n] = x
        /\ \A m \in Sessions \ {n} : sess'[m] = sess[m]
    BY <1>1 DEF LedgerInv, LedgerTyped, SessStates
  <1>4. LedgerTyped'
    BY <1>2, <1>3 DEF LedgerInv, LedgerTyped
  <1>5. Exists(n)
    BY <1>2 DEF Exists
  <1>6. PICK A \in SUBSET Actors : A = {}
    OBVIOUS
  <1>7. Provides(n, x, A)
    BY <1>2, <1>3, <1>5, <1>6 DEF Provides
  <1> QED
    BY <1>3, <1>4, <1>7, LedgerProvides

\* A caller goes on to p; its record fits.
LEMMA CallerGoesOn ==
    ASSUME LedgerInv, NEW c \in Callers, pc[c] \notin {"idle", "reserved", "prepared", "gone"},
           NEW p \in {"started", "refused", "ambiguous", "ready", "spoiled", "archive", "delete", "idle"},
           Goes(c, p), p # "idle" => RecordAt(p, rec[ckey[c]], csid[c]),
           p = "refused" => sess[csid[c]] = "refused",
           UNCHANGED <<up, loadErr, rec, disk, ckey, cspec, sess, skey, sspec, sent, told, reclaimed>>
    PROVE  LedgerInv'
  <1>1. p \in LedgerSteps /\ c \in Actors
    BY LedgerSigns DEF LedgerSteps, CallerSteps, DeleteSteps
  <1>2. /\ pc'[c] = p /\ csid'[c] = IF p = "idle" THEN 0 ELSE csid[c]
    BY <1>1, GoesTyped
  <1>3. p # "idle" => CallerIsSound(c)'
    <2>1. \A m \in Sessions : Exists(m)' <=> Exists(m)
      BY DEF Exists
    <2>2. PICK k \in Keys, n \in Sessions : k = ckey[c] /\ n = csid[c]
      BY CallerNow
    <2>3. Only(k, n)'
      BY <2>1, <2>2, CallerNow DEF Only
    <2> QED
      BY <1>2, <2>2, <2>3, CallerNow, LedgerSigns, RecordFields DEF CallerIsSound
  <1>4. p # "idle" => ActorIsSound(c)'
    BY <1>2, CallerNow, LedgerSigns DEF ActorIsSound
  <1> QED
    BY <1>1, <1>3, <1>4, GoesOnKeepsLedger

\* The answer arrives, or does not.
LEMMA StartedKeepsLedger ==
    ASSUME LedgerInv, Faults \cap {"sync", "index"} = {}, NEW c \in Callers, Started(c)
    PROVE  LedgerInv'
  <1>1. PICK p \in {"started", "refused", "ambiguous"} :
            Goto(c, p) /\ (p = "refused" => sess[csid[c]] = "refused")
    BY DEF Started
  <1>2. /\ pc[c] = "starting" /\ Goes(c, p)
        /\ UNCHANGED <<up, loadErr, rec, disk, ckey, cspec, sess, skey, sspec, sent, told, reclaimed>>
    BY <1>1 DEF Started, Goes, storeVars, sessVars, histVars
  <1>3. RecordAt(p, rec[ckey[c]], csid[c])
    BY <1>2, CallerNow DEF RecordAt
  <1> QED
    BY <1>1, <1>2, <1>3, CallerGoesOn

\* The first turn of a Codex session.
LEMMA StartTurnKeepsLedger ==
    ASSUME LedgerInv, NEW c \in Callers, StartTurn(c)
    PROVE  LedgerInv'
  <1>1. PICK p \in {"ready", "delete", "spoiled"} : Goto(c, p)
    BY DEF StartTurn
  <1>2. /\ pc[c] = "created" /\ Goes(c, p)
        /\ UNCHANGED <<up, loadErr, rec, disk, ckey, cspec, sess, skey, sspec, sent, told, reclaimed>>
    BY <1>1 DEF StartTurn, Goes, storeVars, sessVars, histVars
  <1>3. RecordAt(p, rec[ckey[c]], csid[c])
    BY <1>2, CallerNow DEF RecordAt
  <1> QED
    BY <1>1, <1>2, <1>3, CallerGoesOn

\* x is a record with these fields, and what is written into the place of k.
Fits(x, s, st, n) == x.spec = s /\ x.state = st /\ x.sid = n
Writes(k, x, new) == new = [rec EXCEPT ![k] = x]

\* What sessionCreateStore.update writes for a caller.
LEMMA UpdatedMeans ==
    ASSUME LedgerInv, NEW c \in Callers, pc[c] \notin {"idle", "reserved"},
           NEW k \in Keys, k = ckey[c],
           NEW st \in {"thread_created", "in_doubt", "succeeded"}, NEW n \in 0..MaxSessions
    PROVE  \E x \in Records : Writes(k, x, Updated(k, st, n)) /\ Fits(x, cspec[c], st, n)
  <1>1. rec[k] \in Records /\ rec[k].spec = cspec[c] /\ cspec[c] \in Specs
    BY CallerNow
  <1>2. PICK x : x = Record(rec[k].spec, st, n)
    OBVIOUS
  <1>3. x \in Records /\ x.spec = cspec[c] /\ x.state = st /\ x.sid = n
    <2>1. st \in RecordStates
      BY DEF RecordStates
    <2> QED
      BY <1>1, <1>2, <2>1, RecordIs
  <1>4. Updated(k, st, n) = [rec EXCEPT ![k] = x]
    BY <1>2 DEF Updated
  <1> QED
    BY <1>3, <1>4 DEF Writes, Fits

\* And when it fails.
LEMMA UpdateFailsMeans ==
    ASSUME LedgerInv, Faults \cap {"sync", "index"} = {}, NEW c \in Callers,
           pc[c] \notin {"idle", "reserved"}, NEW k \in Keys, k = ckey[c],
           NEW st, NEW n, UpdateFails(k, st, n)
    PROVE  disk' = disk /\ rec' = IF st = "in_doubt" THEN Updated(k, st, n) ELSE rec
  BY CallerNow, RecordFields, SaveFailsMeans DEF UpdateFails, Has

\* The record of a creation that went wrong.
LEMMA DoubtKeepsLedger ==
    ASSUME LedgerInv, Faults \cap {"sync", "index"} = {}, NEW c \in Callers,
           Doubt(c) \/ DoubtKnown(c)
    PROVE  LedgerInv'
  <1>1. /\ pc[c] \in {"ambiguous", "spoiled"}
        /\ UNCHANGED <<up, loadErr, ckey, cspec, sess, skey, sspec, sent, told, reclaimed>>
    BY DEF Doubt, DoubtKnown, sessVars, histVars
  <1>2. PICK k \in Keys, n \in 0..MaxSessions :
            /\ k = ckey[c] /\ n = IF pc[c] = "ambiguous" THEN 0 ELSE csid[c]
            /\ UpdateOK(k, "in_doubt", n) \/ UpdateFails(k, "in_doubt", n)
    <2>1. ckey[c] \in Keys /\ csid[c] \in 0..MaxSessions /\ 0 \in 0..MaxSessions
      BY <1>1, CallerNow, BoundsAssumption
    <2> QED
      BY <2>1 DEF Doubt, DoubtKnown
  <1>3. PICK x \in Records :
            /\ x.spec = cspec[c] /\ x.state = "in_doubt" /\ x.sid = n
            /\ rec' = [rec EXCEPT ![k] = x] /\ (disk' = rec' \/ disk' = disk)
    <2>1. PICK x \in Records :
              Writes(k, x, Updated(k, "in_doubt", n)) /\ Fits(x, cspec[c], "in_doubt", n)
      BY <1>1, <1>2, UpdatedMeans
    <2>2. rec' = Updated(k, "in_doubt", n) /\ (disk' = rec' \/ disk' = disk)
      BY <1>1, <1>2, UpdateFailsMeans DEF UpdateOK, Saved
    <2> QED
      BY <2>1, <2>2 DEF Writes, Fits
  <1>4. PICK p \in {"archive", "idle"} : Goes(c, p) /\ (p = "archive" => pc[c] = "spoiled")
    BY <1>1 DEF Doubt, DoubtKnown, Done, Goes
  <1>5. p # "idle" => RecordAt(p, x, csid[c])
    BY <1>1, <1>2, <1>3, <1>4 DEF RecordAt
  <1>6. x.sid = csid[c] \/ (x.sid = 0 /\ pc[c] = "ambiguous")
    BY <1>2, <1>3
  <1> QED
    BY <1>1, <1>2, <1>3, <1>4, <1>5, <1>6, WritesKeep

\* The visibility and the id of the session.
LEMMA DescribeKeepsLedger ==
    ASSUME LedgerInv, Faults \cap {"sync", "index"} = {}, NEW c \in Callers, Describe(c)
    PROVE  LedgerInv'
  <1>1. /\ pc[c] = "started" /\ csid' = csid
        /\ UNCHANGED <<up, loadErr, ckey, cspec, sess, skey, sspec, sent, told, reclaimed>>
    BY DEF Describe, sessVars, histVars
  <1>2. PICK k \in Keys, n \in 0..MaxSessions : k = ckey[c] /\ n = csid[c]
    BY <1>1, CallerNow
  <1>3. rec[k].state = "reserved" /\ rec[k] \in Records
    BY <1>1, <1>2, CallerNow DEF RecordAt
  <1>4. ASSUME UNCHANGED storeVars, NEW p \in {"spoiled", "ready", "archive"}, Goto(c, p)
        PROVE  LedgerInv'
    BY <1>1, <1>2, <1>3, <1>4, CallerGoesOn DEF Goes, RecordAt, storeVars
  <1>5. ASSUME UpdateOK(k, "thread_created", n), Goto(c, "created")
        PROVE  LedgerInv'
    <2>1. PICK x \in Records :
              Writes(k, x, Updated(k, "thread_created", n)) /\ Fits(x, cspec[c], "thread_created", n)
      BY <1>1, <1>2, UpdatedMeans
    <2>2. rec' = [rec EXCEPT ![k] = x] /\ disk' = rec'
      BY <1>5, <2>1 DEF UpdateOK, Saved, Writes
    <2> QED
      BY <1>1, <1>2, <1>5, <2>1, <2>2, WritesKeep DEF Goes, RecordAt, Fits
  <1>6. ASSUME UpdateFails(k, "thread_created", n), Goto(c, "archive")
        PROVE  LedgerInv'
    BY <1>1, <1>2, <1>4, <1>6, UpdateFailsMeans DEF storeVars
  <1> QED
    BY <1>2, <1>4, <1>5, <1>6 DEF Describe

\* The caller gets its session.
LEMMA SucceedKeepsLedger ==
    ASSUME LedgerInv, Faults \cap {"sync", "index"} = {}, NEW c \in Callers, Succeed(c)
    PROVE  LedgerInv'
  <1>1. /\ pc[c] = "ready" /\ Goes(c, "idle")
        /\ UNCHANGED <<up, loadErr, ckey, cspec, sess, skey, sspec, sent, reclaimed>>
    BY DEF Succeed, sessVars, Done, Goes
  <1>2. PICK k \in Keys, n \in 0..MaxSessions : k = ckey[c] /\ n = csid[c]
    BY <1>1, CallerNow
  <1>3. CASE UpdateOK(k, "succeeded", n) /\ told' = [told EXCEPT ![k] = n]
    <2>1. PICK x \in Records :
              Writes(k, x, Updated(k, "succeeded", n)) /\ Fits(x, cspec[c], "succeeded", n)
      BY <1>1, <1>2, UpdatedMeans
    <2>2. rec' = [rec EXCEPT ![k] = x] /\ disk' = rec'
      BY <1>3, <2>1 DEF UpdateOK, Saved, Writes
    <2> QED
      BY <1>1, <1>2, <1>3, <2>1, <2>2, WritesKeep DEF Fits
  <1>4. CASE UpdateFails(k, "succeeded", n) /\ UNCHANGED told
    <2>1. pc[c] \notin {"idle", "reserved"} /\ k = ckey[c] /\ UpdateFails(k, "succeeded", n)
      BY <1>1, <1>2, <1>4
    <2>2. rec' = rec /\ disk' = disk
      BY <2>1, UpdateFailsMeans, SMTT(30)
    <2> QED
      BY <1>1, <1>4, <2>2, CallerGoesOn
  <1> QED
    BY <1>2, <1>3, <1>4 DEF Succeed

\* A record that is not final is in memory as it is on disk, or in doubt.
LEMMA InStepMeans ==
    ASSUME LedgerInv, LedgerOpen, NEW k \in Keys
    PROVE  /\ KeyIsSound(k) /\ GoodRecord(k, rec[k]) /\ GoodRecord(k, disk[k]) /\ InStep(k)
           /\ disk[k] # None /\ disk[k].state \in {"succeeded", "deleting"} => rec[k] = disk[k]
           /\ told[k] # 0 /\ sess[told[k]] # "deleted" =>
                  rec[k] = disk[k] /\ rec[k] # None /\ rec[k].sid = told[k]
                  /\ rec[k].state \in {"succeeded", "deleting"}
  BY DEF LedgerInv, KeyIsSound, InStep

\* A record leaves memory and ledger when no session of its key exists.
LEMMA RemovedIsSound ==
    ASSUME LedgerInv, LedgerOpen, NEW k \in Keys, rec'[k] = None, disk'[k] = None,
           UNCHANGED <<up, loadErr, sess, skey, sspec, told>>,
           \A m \in Sessions : skey[m] = k => ~Exists(m),
           told[k] # 0 => sess[told[k]] = "deleted"
    PROVE  KeyIsSound(k)'
  <1>1. \A m \in Sessions : Exists(m)' <=> Exists(m)
    BY DEF Exists
  <1> QED
    BY <1>1 DEF KeyIsSound, GoodRecord, InStep

\* A refused creation gives its key back.
LEMMA AbortKeepsLedger ==
    ASSUME LedgerInv, Faults \cap {"sync", "index"} = {}, NEW c \in Callers, Abort(c)
    PROVE  LedgerInv'
  <1>1. /\ pc[c] = "refused" /\ Goes(c, "idle")
        /\ UNCHANGED <<up, loadErr, ckey, cspec, sess, skey, sspec, sent, told, reclaimed>>
    BY DEF Abort, sessVars, histVars, Done, Goes
  <1>2. PICK k \in Keys, n \in Sessions : k = ckey[c] /\ n = csid[c]
    BY <1>1, CallerNow
  <1>3. PICK new : new = [rec EXCEPT ![k] = None]
    OBVIOUS
  <1>4. /\ LedgerOpen /\ c \in Actors /\ rec[k] \in Records /\ rec[k] # None /\ rec[k].state = "reserved"
        /\ Only(k, n) /\ sess[n] = "refused"
    BY <1>1, <1>2, CallerNow, RecordFields DEF RecordAt
  <1>5. Saved(new) \/ SaveFails(new, rec)
    BY <1>2, <1>3, <1>4 DEF Abort, Has
  <1>6. CASE SaveFails(new, rec)
    <2>1. rec' = rec /\ disk' = disk
      BY <1>6, SaveFailsMeans
    <2> QED
      BY <1>1, <2>1, CallerGoesOn
  <1>7. CASE Saved(new)
    <2>1. /\ rec' \in [Keys -> Rows] /\ disk' = rec' /\ rec'[k] = None
          /\ \A j \in Keys \ {k} : rec'[j] = rec[j]
      BY <1>3, <1>7, LedgerNow DEF Saved, Rows
    <2>2. "idle" \in LedgerSteps
      BY DEF LedgerSteps
    <2>3. /\ pc' \in [Actors -> LedgerSteps] /\ csid' \in [Actors -> 0..MaxSessions]
          /\ pc'[c] = "idle" /\ csid'[c] = 0
          /\ \A b \in Actors \ {c} : pc'[b] = pc[b] /\ csid'[b] = csid[b]
      BY <1>1, <1>4, <2>2, GoesTyped
    <2>4. LedgerTyped'
      BY <1>1, <2>1, <2>3 DEF LedgerInv, LedgerTyped
    <2>5. \A m \in Sessions : skey[m] = k => ~Exists(m)
      BY <1>4 DEF Only, Exists
    <2>6. told[k] # 0 => sess[told[k]] = "deleted"
      BY <1>4, InStepMeans
    <2>7. KeyIsSound(k)'
      BY <1>1, <1>4, <2>1, <2>5, <2>6, RemovedIsSound
    <2>8. CallerIsSound(c)' /\ ActorIsSound(c)'
      BY <1>4, <2>3, IdleIsSound
    <2>9. \A d \in Callers \ {c} : pc[d] # "idle" => ckey[d] # k
      BY <1>1, <1>2 DEF LedgerInv, OwnKeys
    <2> QED
      BY <1>1, <1>4, <2>1, <2>3, <2>4, <2>7, <2>8, <2>9, OneMoves
  <1> QED
    BY <1>5, <1>6, <1>7

\* The session of a creation that failed is archived.
LEMMA ArchiveKeepsLedger ==
    ASSUME LedgerInv, NEW c \in Callers, Archive(c)
    PROVE  LedgerInv'
  <1>1. /\ pc[c] = "archive" /\ Goes(c, "idle")
        /\ UNCHANGED <<up, loadErr, rec, disk, ckey, cspec, skey, sspec, sent, told, reclaimed>>
    BY DEF Archive, storeVars, histVars, Done, Goes
  <1>2. PICK n \in Sessions : n = csid[c]
    BY <1>1, CallerNow
  <1>3. CASE UNCHANGED sess
    BY <1>1, <1>3, CallerGoesOn
  <1>4. CASE sess[n] = "live" /\ sess' = [sess EXCEPT ![n] = "archived"]
    <2>1. PICK x \in SessStates \ {"none"} : x = "archived"
      BY DEF SessStates
    <2>2. /\ sess'[n] = x /\ \A m \in Sessions \ {n} : sess'[m] = sess[m]
          /\ sess' \in [Sessions -> SessStates]
      BY <1>4, <2>1 DEF LedgerInv, LedgerTyped
    <2>3. "idle" \in LedgerSteps /\ c \in Actors
      BY LedgerSigns DEF LedgerSteps
    <2>4. /\ pc' \in [Actors -> LedgerSteps] /\ csid' \in [Actors -> 0..MaxSessions]
          /\ pc'[c] = "idle" /\ csid'[c] = 0
          /\ \A b \in Actors \ {c} : pc'[b] = pc[b] /\ csid'[b] = csid[b]
      BY <1>1, <2>3, GoesTyped
    <2>5. LedgerTyped'
      BY <1>1, <2>2, <2>4 DEF LedgerInv, LedgerTyped
    <2>6. CallerIsSound(c)' /\ ActorIsSound(c)'
      BY <2>3, <2>4, IdleIsSound
    <2>7. \A d \in Callers \ {c} : csid[d] # n
      BY <1>1, <1>2, CallerAlone, LedgerSigns
    <2>8. PICK A \in SUBSET Actors : A = {c}
      BY <2>3
    <2>9. LedgerOpen /\ Exists(n)
      BY <1>1, <1>4, CallerNow DEF Exists
    <2>10. Provides(n, x, A)
      BY <1>1, <1>4, <2>1, <2>2, <2>4, <2>6, <2>7, <2>8, <2>9 DEF Provides
    <2> QED
      BY <2>5, <2>10, LedgerProvides
  <1> QED
    BY <1>2, <1>3, <1>4 DEF Archive

(***************************************************************************)
(* session.delete.                                                         *)
(***************************************************************************)
LEMMA DeleteKeepsLedger ==
    ASSUME LedgerInv, ~EarlyDelete, NEW d \in Deleters, NEW n \in Sessions, Delete(d, n)
    PROVE  LedgerInv'
  <1>1. /\ LedgerOpen /\ pc[d] = "idle" /\ sess[n] # "none" /\ \A c \in Callers : csid[c] # n
        /\ pc' = [pc EXCEPT ![d] = "delete"] /\ csid' = [csid EXCEPT ![d] = n]
        /\ UNCHANGED <<up, loadErr, rec, disk, ckey, cspec, sess, skey, sspec, sent, told, reclaimed>>
    BY DEF Delete, LedgerOpen, Goto, storeVars, sessVars, histVars
  <1>2. d \in Actors /\ d \notin Callers /\ "delete" \in LedgerSteps /\ n # 0 /\ n \in 0..MaxSessions
    BY LedgerSigns DEF LedgerSteps, DeleteSteps
  <1>3. /\ pc' \in [Actors -> LedgerSteps] /\ csid' \in [Actors -> 0..MaxSessions]
        /\ pc'[d] = "delete" /\ csid'[d] = n
        /\ \A b \in Actors \ {d} : pc'[b] = pc[b] /\ csid'[b] = csid[b]
    BY <1>1, <1>2, LedgerNow
  <1>4. LedgerTyped'
    BY <1>1, <1>3 DEF LedgerInv, LedgerTyped
  <1>5. ActorIsSound(d)'
    BY <1>1, <1>2, <1>3 DEF ActorIsSound, DeleteSteps
  <1>6. PICK A \in SUBSET Actors : A = {d}
    BY <1>2
  <1>7. PICK K \in SUBSET Keys : K = {}
    OBVIOUS
  <1>8. \A b \in Callers : csid'[b] # n
    BY <1>1, <1>2, <1>3, LedgerSigns
  <1>9. Moves(A, K)
    BY <1>1, <1>2, <1>3, <1>5, <1>6, <1>7, <1>8 DEF Moves
  <1> QED
    BY <1>1, <1>4, <1>9, LedgerMoves

\* The provider deletes the session, or does not.
LEMMA DeleteSessionKeepsLedger ==
    ASSUME LedgerInv, NEW a \in Actors, DeleteSession(a)
    PROVE  LedgerInv'
  <1>1. /\ pc[a] = "prepared" /\ ActorIsSound(a) /\ LedgerOpen
        /\ UNCHANGED <<up, loadErr, rec, disk, ckey, cspec, skey, sspec, sent, told, reclaimed>>
    BY AtWorkRunning DEF DeleteSession, storeVars, histVars, LedgerInv
  <1>2. PICK n \in Sessions : n = csid[a] /\ n # 0 /\ sess[n] # "none"
    BY <1>1, LedgerNow DEF ActorIsSound
  <1>3. "idle" \in LedgerSteps /\ "gone" \in LedgerSteps
    BY DEF LedgerSteps, DeleteSteps
  <1>4. CASE Done(a) /\ UNCHANGED sess
    <2>1. Goes(a, "idle")
      BY <1>4 DEF Done, Goes
    <2> QED
      BY <1>1, <1>3, <1>4, <2>1, GoesOnKeepsLedger
  <1>5. CASE sess' = [sess EXCEPT ![n] = "deleted"] /\ Goto(a, "gone") /\ UNCHANGED csid
    <2>1. PICK x \in SessStates \ {"none"} : x = "deleted"
      BY DEF SessStates
    <2>2. /\ sess'[n] = x /\ \A m \in Sessions \ {n} : sess'[m] = sess[m]
          /\ sess' \in [Sessions -> SessStates]
      BY <1>5, <2>1 DEF LedgerInv, LedgerTyped
    <2>3. Goes(a, "gone")
      BY <1>5 DEF Goes
    <2>4. /\ pc' \in [Actors -> LedgerSteps] /\ csid' \in [Actors -> 0..MaxSessions]
          /\ pc'[a] = "gone" /\ csid'[a] = n
          /\ \A b \in Actors \ {a} : pc'[b] = pc[b] /\ csid'[b] = csid[b]
      BY <1>2, <1>3, <2>3, GoesTyped
    <2>5. LedgerTyped'
      BY <1>1, <2>2, <2>4 DEF LedgerInv, LedgerTyped
    <2>6. ActorIsSound(a)'
      BY <1>1, <1>2, <2>1, <2>2, <2>4 DEF ActorIsSound, DeleteSteps
    <2>7. Exists(n)' => Exists(n)
      BY <2>1, <2>2 DEF Exists
    <2>8. a \in Callers => CallerIsSound(a)'
      <3>1. HAVE a \in Callers
      <3>2. CallerIsSound(a)
        BY <3>1 DEF LedgerInv
      <3>3. PICK k \in Keys : k = ckey[a]
        BY <1>1, <3>2 DEF CallerIsSound
      <3>4. \A m \in Sessions : Exists(m)' => Exists(m)
        BY <2>2, <2>7 DEF Exists, LedgerInv, LedgerTyped
      <3>5. Only(k, n)'
        BY <1>1, <1>2, <3>2, <3>3, <3>4 DEF CallerIsSound, Only
      <3> QED
        BY <1>1, <1>2, <2>4, <3>2, <3>3, <3>5 DEF CallerIsSound, RecordAt
    <2>9. \A c \in Callers \ {a} : csid[c] # n
      BY <1>2 DEF LedgerInv, Apart
    <2>10. PICK A \in SUBSET Actors : A = {a}
      OBVIOUS
    <2>11. Provides(n, x, A)
      BY <1>1, <1>2, <2>1, <2>2, <2>4, <2>6, <2>7, <2>8, <2>9, <2>10 DEF Provides
    <2> QED
      BY <2>5, <2>11, LedgerProvides
  <1> QED
    BY <1>2, <1>4, <1>5 DEF DeleteSession

\* A session that somebody else deletes is not in the record of a caller.
LEMMA RecordsOfOthers ==
    ASSUME LedgerInv, NEW a \in Actors, csid[a] # 0, NEW c \in Callers \ {a}, pc[c] # "idle"
    PROVE  rec[ckey[c]].sid # csid[a]
  BY CallersRecord, LedgerSigns DEF LedgerInv, Apart

\* The intent to delete is written into every record of the session.
LEMMA PrepareKeepsLedger ==
    ASSUME LedgerInv, Faults \cap {"sync", "index"} = {}, NEW a \in Actors, Prepare(a)
    PROVE  LedgerInv'
  <1>1. /\ pc[a] = "delete" /\ ActorIsSound(a) /\ LedgerOpen
        /\ UNCHANGED <<up, loadErr, ckey, cspec, sess, skey, sspec, sent, told, reclaimed>>
    BY AtWorkRunning DEF Prepare, sessVars, histVars, LedgerInv
  <1>2. PICK n \in Sessions : n = csid[a] /\ n # 0 /\ n \in 0..MaxSessions /\ sess[n] # "none"
    BY <1>1, LedgerNow DEF ActorIsSound
  <1>3. PICK K \in SUBSET Keys : K = {k \in RecordsOf(n) : rec[k].state # "deleting"}
    BY DEF RecordsOf
  <1>4. \A k \in Keys : k \in K <=> rec[k] # None /\ rec[k].sid = n /\ rec[k].state # "deleting"
    BY <1>3 DEF RecordsOf, Has
  <1>5. PICK new : new = [k \in Keys |-> IF k \in K THEN Record(rec[k].spec, "deleting", n) ELSE rec[k]]
    OBVIOUS
  <1>6. \/ K = {} /\ Goes(a, "prepared") /\ rec' = rec /\ disk' = disk
        \/ K # {} /\ Saved(new) /\ Goes(a, "prepared")
        \/ K # {} /\ SaveFails(new, rec) /\ Goes(a, "idle")
    BY <1>2, <1>3, <1>5 DEF Prepare, Goes, Done, storeVars
  <1>7. "idle" \in LedgerSteps /\ "prepared" \in LedgerSteps
    BY DEF LedgerSteps, DeleteSteps
  <1>8. ASSUME a \in Callers
        PROVE  /\ ckey[a] \in K /\ rec[ckey[a]].spec = cspec[a] /\ cspec[a] \in Specs
               /\ skey[n] = ckey[a] /\ sspec[n] = cspec[a] /\ Only(ckey[a], n)
    BY <1>1, <1>2, <1>4, <1>8, CallerNow, RecordFields DEF RecordAt
  <1>9. CASE K = {} /\ Goes(a, "prepared") /\ rec' = rec /\ disk' = disk
    <2>1. pc'[a] = "prepared" /\ csid'[a] = n
      BY <1>2, <1>7, <1>9, GoesTyped
    <2>2. ActorIsSound(a)'
      BY <1>1, <1>2, <1>4, <1>9, <2>1 DEF ActorIsSound, DeleteSteps
    <2> QED
      BY <1>1, <1>7, <1>8, <1>9, <2>2, GoesOnKeepsLedger
  <1>10. CASE SaveFails(new, rec) /\ Goes(a, "idle")
    <2>1. rec' = rec /\ disk' = disk
      BY <1>10, SaveFailsMeans
    <2> QED
      BY <1>1, <1>7, <1>10, <2>1, GoesOnKeepsLedger
  <1>11. CASE Saved(new) /\ Goes(a, "prepared")
    <2>1. \A k \in K : Record(rec[k].spec, "deleting", n) \in Records /\ rec[k] \in Records
      <3>1. "deleting" \in RecordStates
        BY DEF RecordStates
      <3> QED
        BY <1>2, <1>4, <3>1, LedgerNow, RecordFields, RecordIs
    <2>2. /\ rec' \in [Keys -> Rows] /\ disk' = rec'
          /\ \A k \in Keys \ K : rec'[k] = rec[k]
          /\ \A k \in K : rec'[k] = Record(rec[k].spec, "deleting", n)
      BY <1>5, <1>11, <2>1, LedgerNow DEF Saved, Rows
    <2>3. \A k \in K : /\ rec'[k] # None /\ rec'[k].spec = rec[k].spec
                       /\ rec'[k].state = "deleting" /\ rec'[k].sid = n
      <3>1. ASSUME NEW k \in K
            PROVE  /\ rec'[k] # None /\ rec'[k].spec = rec[k].spec
                   /\ rec'[k].state = "deleting" /\ rec'[k].sid = n
        <4>1. PICK x : x = Record(rec[k].spec, "deleting", n)
          OBVIOUS
        <4>2. x \in Records /\ rec'[k] = x
          BY <2>1, <2>2, <4>1
        <4>3. x.spec = rec[k].spec /\ x.state = "deleting" /\ x.sid = n
          BY <4>1 DEF Record
        <4> QED
          BY <4>2, <4>3, LedgerSigns
      <3> QED
        BY <3>1
    <2>4. /\ pc' \in [Actors -> LedgerSteps] /\ csid' \in [Actors -> 0..MaxSessions]
          /\ pc'[a] = "prepared" /\ csid'[a] = n
          /\ \A b \in Actors \ {a} : pc'[b] = pc[b] /\ csid'[b] = csid[b]
      BY <1>2, <1>7, <1>11, GoesTyped
    <2>5. LedgerTyped'
      BY <1>1, <2>2, <2>4 DEF LedgerInv, LedgerTyped
    <2>6. \A m \in Sessions : Exists(m)' <=> Exists(m)
      BY <1>1 DEF Exists
    <2>7. \A k \in Keys, m \in Sessions : Only(k, m)' <=> Only(k, m)
      BY <1>1, <2>6 DEF Only
    <2>8. ASSUME NEW k \in K
          PROVE  KeyIsSound(k)'
      <3>1. KeyIsSound(k) /\ GoodRecord(k, rec[k]) /\ rec[k] # None /\ rec[k].sid = n
        BY <1>1, <1>4, InStepMeans
      <3>2. told[k] # 0 /\ sess[told[k]] # "deleted" => told[k] = n
        BY <1>1, <3>1, InStepMeans
      <3>3. GoodRecord(k, rec[k])'
        BY <1>1, <1>2, <2>3, <2>7, <3>1 DEF GoodRecord
      <3> QED
        BY <1>1, <2>2, <2>3, <2>6, <2>7, <3>1, <3>2, <3>3 DEF KeyIsSound, InStep
    <2>9. ActorIsSound(a)'
      BY <1>1, <1>2, <1>4, <2>2, <2>3, <2>4 DEF ActorIsSound, DeleteSteps
    <2>10. a \in Callers => CallerIsSound(a)'
      <3>1. HAVE a \in Callers
      <3>2. PICK k \in K : k = ckey[a]
        BY <1>8, <3>1
      <3>3. Only(k, n)'
        BY <1>8, <2>7, <3>1, <3>2
      <3> QED
        BY <1>1, <1>8, <2>3, <2>4, <3>1, <3>2, <3>3 DEF CallerIsSound, RecordAt
    <2>11. \A c \in Callers \ {a} : csid[c] # n
      BY <1>2 DEF LedgerInv, Apart
    <2>12. \A b \in Actors \ {a} : a \in Callers \/ b \in Callers => csid'[b] # n
      BY <1>2, <2>4, LedgerSigns DEF LedgerInv, Apart
    <2>13. \A c \in Callers \ {a} : pc[c] # "idle" => ckey[c] \notin K
      BY <1>2, <1>4, RecordsOfOthers
    <2>14. a \in Callers => \A d \in Callers \ {a} :
               pc'[a] # "idle" /\ pc'[d] # "idle" => ckey'[a] # ckey'[d]
      BY <1>1, <2>4, LedgerSigns DEF LedgerInv, OwnKeys
    <2>15. PICK A \in SUBSET Actors : A = {a}
      OBVIOUS
    <2>16. Moves(A, K)
      BY <1>1, <2>2, <2>3, <2>4, <2>8, <2>9, <2>10, <2>12, <2>13, <2>14, <2>15 DEF Moves
    <2> QED
      BY <1>1, <2>5, <2>16, LedgerMoves
  <1> QED
    BY <1>6, <1>9, <1>10, <1>11

\* The records of a deleted session are removed.
LEMMA FinalizeKeepsLedger ==
    ASSUME LedgerInv, Faults \cap {"sync", "index"} = {}, NEW a \in Actors, Finalize(a)
    PROVE  LedgerInv'
  <1>1. /\ pc[a] = "gone" /\ ActorIsSound(a) /\ LedgerOpen /\ Goes(a, "idle")
        /\ UNCHANGED <<up, loadErr, ckey, cspec, sess, skey, sspec, sent, told>>
    BY AtWorkRunning DEF Finalize, sessVars, LedgerInv, Done, Goes
  <1>2. PICK n \in Sessions : n = csid[a] /\ n # 0 /\ sess[n] = "deleted"
    BY <1>1, LedgerNow DEF ActorIsSound
  <1>3. PICK K \in SUBSET Keys : K = {k \in RecordsOf(n) : rec[k].state = "deleting"}
    BY DEF RecordsOf
  <1>4. \A k \in Keys : k \in K <=> rec[k] # None /\ rec[k].sid = n
    BY <1>1, <1>2, <1>3 DEF RecordsOf, Has, ActorIsSound
  <1>5. PICK new : new = [k \in Keys |-> IF k \in K THEN None ELSE rec[k]]
    OBVIOUS
  <1>6. \/ /\ IF K = {} THEN rec' = rec /\ disk' = disk ELSE Saved(new)
           /\ reclaimed' = reclaimed \cup {n}
        \/ SaveFails(new, rec) /\ UNCHANGED reclaimed
    BY <1>2, <1>3, <1>5 DEF Finalize, storeVars
  <1>7. "idle" \in LedgerSteps
    BY DEF LedgerSteps
  <1>8. CASE SaveFails(new, rec) /\ UNCHANGED reclaimed
    <2>1. rec' = rec /\ disk' = disk
      BY <1>8, SaveFailsMeans
    <2> QED
      BY <1>1, <1>7, <1>8, <2>1, GoesOnKeepsLedger
  <1>9. CASE /\ IF K = {} THEN rec' = rec /\ disk' = disk ELSE Saved(new)
             /\ reclaimed' = reclaimed \cup {n}
    <2>1. /\ rec' \in [Keys -> Rows] /\ disk' \in [Keys -> Rows]
          /\ \A k \in Keys \ K : rec'[k] = rec[k] /\ (disk'[k] = rec[k] \/ disk'[k] = disk[k])
          /\ \A k \in K : rec'[k] = None /\ disk'[k] = None
      <3>1. CASE K = {}
        BY <1>9, <3>1, LedgerNow
      <3>2. CASE K # {}
        BY <1>5, <1>9, <3>2, LedgerNow DEF Saved, Rows
      <3> QED
        BY <3>1, <3>2
    <2>2. /\ pc' \in [Actors -> LedgerSteps] /\ csid' \in [Actors -> 0..MaxSessions]
          /\ pc'[a] = "idle" /\ csid'[a] = 0
          /\ \A b \in Actors \ {a} : pc'[b] = pc[b] /\ csid'[b] = csid[b]
      BY <1>1, <1>7, GoesTyped
    <2>3. LedgerTyped'
      BY <1>1, <1>9, <2>1, <2>2 DEF LedgerInv, LedgerTyped
    <2>4. ASSUME NEW k \in K
          PROVE  KeyIsSound(k)'
      <3>1. GoodRecord(k, rec[k]) /\ rec[k] # None /\ rec[k].sid = n
        BY <1>1, <1>4, InStepMeans
      <3>2. \A m \in Sessions : skey[m] = k => ~Exists(m)
        BY <1>2, <3>1 DEF GoodRecord, Only, Exists
      <3>3. told[k] # 0 => sess[told[k]] = "deleted"
        BY <1>1, <1>2, <3>1, InStepMeans
      <3> QED
        BY <1>1, <2>1, <3>2, <3>3, RemovedIsSound
    <2>5. CallerIsSound(a)' /\ ActorIsSound(a)'
      BY <2>2, IdleIsSound
    <2>6. \A c \in Callers \ {a} : pc[c] # "idle" => ckey[c] \notin K
      BY <1>2, <1>4, RecordsOfOthers
    <2>7. \A j \in Keys \ K : rec[j] # None => rec[j].sid # n
      BY <1>4
    <2>8. PICK A \in SUBSET Actors : A = {a}
      OBVIOUS
    <2>9. Moves(A, K)
      BY <1>1, <1>2, <1>9, <2>1, <2>2, <2>4, <2>5, <2>6, <2>7, <2>8 DEF Moves
    <2> QED
      BY <1>1, <2>3, <2>9, LedgerMoves
  <1> QED
    BY <1>6, <1>8, <1>9

\* The owner releases a key.
LEMMA ReleaseKeepsLedger ==
    ASSUME LedgerInv, Faults \cap {"sync", "index"} = {}, NEW k \in Keys, Release(k)
    PROVE  LedgerInv'
  <1>1. PICK new : new = [rec EXCEPT ![k] = None]
    OBVIOUS
  <1>2. /\ LedgerOpen /\ rec[k] # None /\ rec[k].state = "in_doubt" /\ rec[k].sid = 0
        /\ \A m \in Sessions : skey[m] = k => ~Exists(m)
        /\ Saved(new) \/ SaveFails(new, rec)
        /\ UNCHANGED <<up, loadErr, pc, ckey, cspec, csid, sess, skey, sspec, sent, told, reclaimed>>
    BY <1>1 DEF Release, LedgerOpen, Has, Exists, callVars, sessVars, histVars
  <1>3. CASE SaveFails(new, rec)
    <2>1. rec' = rec /\ disk' = disk
      BY <1>3, SaveFailsMeans
    <2> QED
      BY <1>2, <2>1, LedgerSame
  <1>4. CASE Saved(new)
    <2>1. /\ rec' \in [Keys -> Rows] /\ disk' = rec' /\ rec'[k] = None
          /\ \A j \in Keys \ {k} : rec'[j] = rec[j]
      BY <1>1, <1>4, LedgerNow DEF Saved, Rows
    <2>2. LedgerTyped'
      BY <1>2, <2>1 DEF LedgerInv, LedgerTyped
    <2>3. told[k] # 0 => sess[told[k]] = "deleted"
      BY <1>2, InStepMeans
    <2>4. KeyIsSound(k)'
      BY <1>2, <2>1, <2>3, RemovedIsSound
    <2>5. \A c \in Callers : pc[c] # "idle" => ckey[c] # k
      BY <1>2, CallersRecord
    <2>6. PICK A \in SUBSET Actors : A = {}
      OBVIOUS
    <2>7. PICK K \in SUBSET Keys : K = {k}
      OBVIOUS
    <2>8. Moves(A, K)
      BY <1>2, <2>1, <2>4, <2>5, <2>6, <2>7 DEF Moves
    <2> QED
      BY <1>2, <2>2, <2>8, LedgerMoves
  <1> QED
    BY <1>2, <1>3, <1>4

(***************************************************************************)
(* The Node process ends and starts again.                                 *)
(***************************************************************************)
LEMMA CrashKeepsLedger ==
    ASSUME LedgerInv, Crash
    PROVE  LedgerInv'
  <1>1. /\ up' = FALSE /\ loadErr' = FALSE
        /\ UNCHANGED <<disk, sess, skey, sspec, sent, told, reclaimed>>
        /\ rec' \in [Keys -> Rows] /\ \A k \in Keys : rec'[k] = None
    BY DEF Crash, sessVars, histVars, Rows
  <1>2. /\ pc' \in [Actors -> LedgerSteps] /\ ckey' \in [Actors -> Keys \cup {None}]
        /\ cspec' \in [Actors -> Specs \cup {None}] /\ csid' \in [Actors -> 0..MaxSessions]
        /\ \A a \in Actors : pc'[a] = "idle" /\ csid'[a] = 0
    BY BoundsAssumption DEF Crash, LedgerSteps
  <1>3. LedgerTyped'
    BY <1>1, <1>2 DEF LedgerInv, LedgerTyped
  <1>4. Resting' /\ Numbers' /\ Apart' /\ OwnKeys'
    BY <1>1, <1>2, LedgerSigns DEF LedgerInv, Resting, Numbers, Apart, OwnKeys
  <1>5. \A n \in Sessions : Exists(n)' <=> Exists(n)
    BY <1>1 DEF Exists
  <1>6. \A k \in Keys, m \in Sessions : Only(k, m)' <=> Only(k, m)
    BY <1>1, <1>5 DEF Only
  <1>7. ASSUME NEW k \in Keys
        PROVE  KeyIsSound(k)'
    <2>1. KeyIsSound(k) /\ (disk[k] # None /\ disk[k].sid # 0 => disk[k].sid \in Sessions)
      BY LedgerNow, RecordFields DEF LedgerInv
    <2> QED
      BY <1>1, <1>5, <1>6, <2>1 DEF KeyIsSound, GoodRecord, LedgerOpen
  <1>8. \A a \in Actors : CallerIsSound(a)' /\ ActorIsSound(a)'
    BY <1>2, IdleIsSound
  <1> QED
    BY <1>3, <1>4, <1>7, <1>8, LedgerSigns DEF LedgerInv

\* The ledger is read; what was at work is in doubt.
LEMMA LoadKeepsLedger ==
    ASSUME LedgerInv, Load
    PROVE  LedgerInv'
  <1>1. /\ up' = TRUE /\ ~up /\ \A a \in Actors : pc[a] = "idle" /\ csid[a] = 0
        /\ UNCHANGED <<disk, pc, ckey, cspec, csid, sess, skey, sspec, sent, told, reclaimed>>
        /\ \/ rec' = Interrupted(disk) /\ UNCHANGED loadErr
           \/ loadErr' = TRUE /\ UNCHANGED rec
    BY DEF Load, LedgerInv, Resting, LedgerOpen, ActorIsSound, callVars, sessVars, histVars
  <1>2. \A k \in Keys : /\ rec[k] = None /\ KeyIsSound(k)
                        /\ disk[k] # None => disk[k] \in Records
    BY <1>1, LedgerNow DEF LedgerInv, Resting, LedgerOpen
  <1>3. loadErr = FALSE
    BY <1>1 DEF LedgerInv, LedgerTyped, Resting
  <1>4. ASSUME NEW k \in Keys
        PROVE  /\ rec'[k] \in Rows
               /\ loadErr' = TRUE => rec'[k] = None
               /\ \/ rec'[k] = None
                  \/ rec'[k] = disk[k]
                  \/ /\ rec'[k] # None /\ disk[k] # None
                     /\ rec'[k].state = "in_doubt" /\ disk[k].state \in {"reserved", "thread_created"}
                     /\ rec'[k].sid = disk[k].sid /\ rec'[k].spec = disk[k].spec
               /\ loadErr' = FALSE /\ rec'[k] = None => disk[k] = None
    <2>1. CASE loadErr' = TRUE /\ UNCHANGED rec
      BY <1>2, <2>1 DEF Rows
    <2>2. CASE rec' = Interrupted(disk) /\ loadErr' = FALSE
      <3>1. PICK r : r = disk[k]
        OBVIOUS
      <3>2. PICK x : x = [r EXCEPT !.state = "in_doubt"]
        OBVIOUS
      <3>3. rec'[k] = IF r # None /\ r.state \in {"reserved", "thread_created"} THEN x ELSE r
        BY <2>2, <3>1, <3>2 DEF Interrupted
      <3>4. r # None => /\ x \in Records /\ x.state = "in_doubt"
                        /\ x.sid = r.sid /\ x.spec = r.spec
        BY <1>2, <3>1, <3>2 DEF Records, RecordStates
      <3>5. r \in Rows
        BY <3>1, LedgerNow
      <3> QED
        BY <2>2, <3>1, <3>3, <3>4, <3>5, LedgerSigns DEF Rows
    <2> QED
      BY <1>1, <1>3, <2>1, <2>2
  <1>5. rec' \in [Keys -> Rows] /\ loadErr' \in BOOLEAN
    <2>1. \E f : rec' = [k \in Keys |-> f[k]]
      <3>1. rec \in [Keys -> Rows]
        BY LedgerNow
      <3>2. Interrupted(disk) = [k \in Keys |-> Interrupted(disk)[k]]
        BY DEF Interrupted
      <3> QED
        BY <1>1, <3>1, <3>2
    <2>2. rec' = [k \in Keys |-> rec'[k]]
      BY <2>1
    <2> QED
      BY <1>1, <1>3, <1>4, <2>2
  <1>6. LedgerTyped'
    BY <1>1, <1>5 DEF LedgerInv, LedgerTyped
  <1>7. Resting' /\ Numbers' /\ Apart' /\ OwnKeys'
    BY <1>1, <1>4, <1>5, LedgerSigns DEF LedgerInv, Resting, LedgerOpen, Numbers, Apart, OwnKeys
  <1>8. \A n \in Sessions : Exists(n)' <=> Exists(n)
    BY <1>1 DEF Exists
  <1>9. \A k \in Keys, m \in Sessions : Only(k, m)' <=> Only(k, m)
    BY <1>1, <1>8 DEF Only
  <1>10. ASSUME NEW k \in Keys
         PROVE  KeyIsSound(k)'
    <2>1. KeyIsSound(k) /\ (disk[k] # None /\ disk[k].sid # 0 => disk[k].sid \in Sessions)
      BY <1>2, RecordFields
    <2>2. GoodRecord(k, disk[k])'
      BY <1>1, <1>9, <2>1 DEF KeyIsSound, GoodRecord
    <2>3. GoodRecord(k, rec[k])'
      BY <1>1, <1>4, <1>9, <2>1, <2>2 DEF KeyIsSound, GoodRecord
    <2>4. (LedgerOpen => InStep(k))'
      BY <1>1, <1>4, <1>5 DEF LedgerOpen, InStep
    <2> QED
      BY <1>1, <1>8, <1>9, <2>1, <2>2, <2>3, <2>4 DEF KeyIsSound
  <1>11. \A a \in Actors : CallerIsSound(a)' /\ ActorIsSound(a)'
    BY <1>1, IdleIsSound
  <1> QED
    BY <1>6, <1>7, <1>10, <1>11, LedgerSigns DEF LedgerInv

----------------------------------------------------------------------------
(***************************************************************************)
(* Every step, from a ledger whose saves fail before the rename or not at  *)
(* all, and with no deletion of a session that is still being created.     *)
(***************************************************************************)
LEMMA LedgerStep ==
    ASSUME LedgerInv, Faults \cap {"sync", "index"} = {}, ~EarlyDelete, [Next]_vars
    PROVE  LedgerInv'
  <1>1. CASE \E c \in Callers, k \in Keys, s \in Specs : Begin(c, k, s)
    BY <1>1, KnownKeepsLedger, ReserveKeepsLedger DEF Begin, LedgerOpen
  <1>2. CASE \E c \in Callers :
                 \/ Send(c) \/ Started(c) \/ Abort(c) \/ Doubt(c) \/ Describe(c)
                 \/ StartTurn(c) \/ DoubtKnown(c) \/ Archive(c) \/ Succeed(c)
    BY <1>2, SendKeepsLedger, StartedKeepsLedger, AbortKeepsLedger, DoubtKeepsLedger, DescribeKeepsLedger, StartTurnKeepsLedger,
       ArchiveKeepsLedger, SucceedKeepsLedger
  <1>3. CASE \E n \in Sessions : Provide(n) \/ \E d \in Deleters : Delete(d, n)
    BY <1>3, ProvideKeepsLedger, DeleteKeepsLedger
  <1>4. CASE \E a \in Actors : Prepare(a) \/ DeleteSession(a) \/ Finalize(a)
    BY <1>4, PrepareKeepsLedger, DeleteSessionKeepsLedger, FinalizeKeepsLedger
  <1>5. CASE (\E k \in Keys : Release(k)) \/ Crash \/ Load
    BY <1>5, ReleaseKeepsLedger, CrashKeepsLedger, LoadKeepsLedger
  <1>6. CASE UNCHANGED vars
    BY <1>6, LedgerSame DEF vars, storeVars, callVars, sessVars, histVars
  <1> QED
    BY <1>1, <1>2, <1>3, <1>4, <1>5, <1>6 DEF Next

\* What the invariant says of the ledger.
LEMMA LedgerInvSound == LedgerInv => LedgerIsSound
  <1> SUFFICES ASSUME LedgerInv PROVE LedgerIsSound
    OBVIOUS
  <1>1. OneSessionPerKey
    <2> SUFFICES ASSUME NEW m \in Sessions, NEW n \in Sessions,
                        Exists(m), Exists(n), skey[m] = skey[n]
                 PROVE  m = n
      BY DEF OneSessionPerKey
    <2>1. skey[m] \in Keys
      BY DEF LedgerInv, Numbers, Exists
    <2> QED
      BY <2>1 DEF LedgerInv, KeyIsSound, Only
  <1>2. RecordOwnsSession /\ DeletedIsReclaimed
    <2>1. ASSUME NEW k \in Keys, NEW r \in {rec, disk}, r[k] # None
          PROVE  /\ r[k].sid # 0 => skey[r[k].sid] = k /\ sspec[r[k].sid] = r[k].spec
                 /\ r[k].sid \notin reclaimed
      <3>1. GoodRecord(k, r[k])
        BY <2>1 DEF LedgerInv, KeyIsSound
      <3>2. 0 \notin reclaimed
        BY LedgerSigns DEF LedgerInv, LedgerTyped
      <3> QED
        BY <2>1, <3>1, <3>2 DEF GoodRecord
    <2> QED
      BY <2>1 DEF RecordOwnsSession, DeletedIsReclaimed
  <1>3. ReplayIsStable
    BY DEF LedgerInv, KeyIsSound, ReplayIsStable
  <1> QED
    BY <1>1, <1>2, <1>3 DEF LedgerIsSound

(***************************************************************************)
(* A key of session.create has at most one session, which its record, in   *)
(* memory and on disk, and the answer to every retry name until it is      *)
(* deleted and forgotten, whatever the lost answers, the saves that fail,  *)
(* the deletions and the ends of the Node.  The fsync after the rename and *)
(* the rollback of Claude Code's index do not fail, and a session is not   *)
(* deleted while it is still being created: MCSessionCreate and the        *)
(* finding of SessionCreateEarly show what happens otherwise.              *)
(***************************************************************************)
THEOREM LedgerStays ==
    ASSUME Faults \cap {"sync", "index"} = {}, EarlyDelete = FALSE
    PROVE  Spec => []LedgerIsSound
  <1>1. Init => LedgerInv
    BY LedgerStarts
  <1>2. LedgerInv /\ [Next]_vars => LedgerInv'
    BY LedgerStep
  <1>3. LedgerInv => LedgerIsSound
    BY LedgerInvSound
  <1> QED
    BY <1>1, <1>2, <1>3, PTL DEF Spec

-----------------------------------------------------------------------------
(***************************************************************************)
(* The Claude Code adapter.  A turn whose process runs, or has ended and   *)
(* was not waited for, has the run of its session; a goroutine that is     *)
(* about to start one has it too.                                          *)
(***************************************************************************)
ClaudeRecords == [status : CStatus, turn : Nat, result : Nat, name : Nat]
ClaudeSteps == {"idle", "reserve", "prepare", "start", "started", "undo"}

ClaudeTypes ==
    /\ sessions \in [CSessions -> ClaudeRecords] /\ index \in [CSessions -> ClaudeRecords]
    /\ indexErr \in BOOLEAN
    /\ crun \in [CSessions -> [turn : Nat, canceled : BOOLEAN, cmd : BOOLEAN]]
    /\ cproc \in [CTurns -> {"none", "live", "dead", "waited", "orphan"}]
    /\ output \in [CTurns -> {"none", "written", "read", "done"}]
    /\ turnOf \in [CTurns -> Nat]
    /\ sends \in [ClaudeUsers -> [op : {"none", "create", "send"}, step : ClaudeSteps, s : Nat,
                                  turn : Nat, previous : ClaudeRecords]]
    /\ made \in Nat /\ names \in Nat

\* The result of a record is the one of its turn.
ResultFits(r) == r.result \in {0, r.turn}

\* A restart shows the same sessions, with their names.
SameSessions(a, b) ==
    \A s \in CSessions : (a[s] # NoSession <=> b[s] # NoSession) /\ a[s].name = b[s].name

\* What memory and the index have.
RecordsTrue ==
    /\ indexErr \/ SameSessions(sessions, index)
    /\ \A s \in CSessions : /\ ResultFits(sessions[s]) /\ ResultFits(index[s])
                            /\ s > made => sessions[s] = NoSession /\ index[s] = NoSession

\* A goroutine with a run reserved and no process yet.
SendTrue(u) ==
    /\ ResultFits(sends[u].previous) /\ sends[u].s <= made
    /\ sends[u].step # "idle" => sends[u].s \in CSessions
    /\ sends[u].step \in {"prepare", "start"} =>
          /\ sends[u].turn \in CTurns /\ turnOf[sends[u].turn] = sends[u].s
          /\ crun[sends[u].s].turn = sends[u].turn /\ cproc[sends[u].turn] = "none"
    /\ sends[u].step = "start" =>
          sessions[sends[u].s] = NoSession \/ sessions[sends[u].s].turn = sends[u].turn

SendsApart ==
    \A u, v \in ClaudeUsers :
        /\ sends[u].step \in {"prepare", "start"} /\ sends[v].step \in {"prepare", "start"}
        /\ sends[u].turn = sends[v].turn
        => u = v

\* A turn and its process.
TurnTrue(t) ==
    /\ turnOf[t] <= made /\ (cproc[t] # "none" => turnOf[t] # 0)
    /\ output[t] \in {"written", "read"} => cproc[t] \in {"live", "dead"}
    /\ cproc[t] \in {"live", "dead"} =>
          /\ turnOf[t] \in CSessions /\ crun[turnOf[t]].turn = t
          /\ sessions[turnOf[t]] = NoSession \/ sessions[turnOf[t]].turn = t

ClaudeInv ==
    /\ ClaudeTypes /\ RecordsTrue /\ SendsApart
    /\ \A u \in ClaudeUsers : SendTrue(u)
    /\ \A t \in CTurns : TurnTrue(t)

\* A session has the run, and the turn in its record, that it had.
SameRun(s) == crun'[s].turn = crun[s].turn
SameTurn(s) ==
    sessions'[s] # NoSession => sessions[s] # NoSession /\ sessions'[s].turn = sessions[s].turn

\* The records are saved, or not, and memory keeps what it may.
LEMMA RecordsSaved ==
    ASSUME ClaudeInv, NEW new \in [CSessions -> ClaudeRecords], NEW outcome,
           SaveIndexLocked(new, outcome), indexErr' = indexErr,
           sessions' \in [CSessions -> ClaudeRecords], made' \in Nat, made <= made',
           \A s \in CSessions : /\ ResultFits(new[s]) /\ ResultFits(sessions'[s])
                                /\ s > made' => new[s] = NoSession /\ sessions'[s] = NoSession,
           outcome = "uncommitted" => SameSessions(sessions', sessions),
           outcome # "uncommitted" => SameSessions(sessions', new)
    PROVE  /\ index' \in [CSessions -> ClaudeRecords] /\ RecordsTrue'
<1>1. CSessions \subseteq Nat /\ made \in Nat
  BY ClaudeAssumption DEF CSessions, ClaudeInv, ClaudeTypes
<1>2. CASE outcome = "uncommitted"
  <2>1. index' = index
    BY <1>2 DEF SaveIndexLocked
  <2> QED
    BY <1>1, <1>2, <2>1 DEF ClaudeInv, ClaudeTypes, RecordsTrue, SameSessions
<1>3. CASE outcome # "uncommitted"
  <2>1. index' = new
    BY <1>3 DEF SaveIndexLocked
  <2> QED
    BY <1>1, <1>3, <2>1 DEF ClaudeInv, ClaudeTypes, RecordsTrue, SameSessions
<1> QED
  BY <1>2, <1>3

\* A turn stays true when its session keeps its run and its turn.
LEMMA TurnStays ==
    ASSUME ClaudeInv, made' \in Nat, made <= made',
           NEW t \in CTurns, turnOf'[t] = turnOf[t],
           cproc[t] \in {"live", "dead"} => SameRun(turnOf[t]) /\ SameTurn(turnOf[t]),
           cproc'[t] # cproc[t] => cproc[t] = "live" /\ cproc'[t] = "dead",
           output'[t] \in {"written", "read"} => output[t] \in {"written", "read"} \/ cproc'[t] = "live"
    PROVE  TurnTrue(t)'
<1>1. made \in Nat /\ turnOf[t] \in Nat /\ TurnTrue(t)
  BY DEF ClaudeInv, ClaudeTypes
<1> QED
  BY <1>1 DEF TurnTrue, SameTurn, SameRun

\* A goroutine stays true when its run and its session do.
LEMMA SendStays ==
    ASSUME ClaudeInv, made' \in Nat, made <= made', NEW u \in ClaudeUsers, sends'[u] = sends[u],
           sends[u].step \in {"prepare", "start"} =>
               /\ SameRun(sends[u].s)
               /\ turnOf'[sends[u].turn] = turnOf[sends[u].turn]
               /\ cproc'[sends[u].turn] = cproc[sends[u].turn],
           sends[u].step = "start" => SameTurn(sends[u].s)
    PROVE  SendTrue(u)'
<1>1. made \in Nat /\ sends[u].s \in Nat /\ SendTrue(u)
  BY DEF ClaudeInv, ClaudeTypes
<1> QED
  BY <1>1 DEF SendTrue, SameTurn, SameRun

\* Who has a run has it alone: with another goroutine, or a process, of the same
\* session it would share the turn.
LEMMA RunIsOwn ==
    ASSUME ClaudeInv, NEW u \in ClaudeUsers, sends[u].step \in {"prepare", "start"}
    PROVE  /\ \A v \in ClaudeUsers \ {u} :
                 sends[v].step \in {"prepare", "start"} =>
                     sends[v].s # sends[u].s /\ sends[v].turn # sends[u].turn
           /\ \A t \in CTurns : cproc[t] \in {"live", "dead"} =>
                     turnOf[t] # sends[u].s /\ t # sends[u].turn
<1>1. SendTrue(u)
  BY DEF ClaudeInv
<1>2. ASSUME NEW v \in ClaudeUsers \ {u}, sends[v].step \in {"prepare", "start"}
      PROVE  sends[v].s # sends[u].s /\ sends[v].turn # sends[u].turn
  <2>1. sends[v].turn # sends[u].turn
    BY <1>2 DEF ClaudeInv, SendsApart
  <2>2. SendTrue(v)
    BY DEF ClaudeInv
  <2> QED
    BY <1>1, <1>2, <2>1, <2>2 DEF SendTrue
<1>3. ASSUME NEW t \in CTurns, cproc[t] \in {"live", "dead"}
      PROVE  turnOf[t] # sends[u].s /\ t # sends[u].turn
  <2>1. TurnTrue(t)
    BY DEF ClaudeInv
  <2> QED
    BY <1>1, <1>3, <2>1 DEF SendTrue, TurnTrue
<1> QED
  BY <1>2, <1>3

\* It holds at the start.
LEMMA ClaudeStarts == ClaudeInit => ClaudeInv
<1> SUFFICES ASSUME ClaudeInit PROVE ClaudeInv
  OBVIOUS
<1>1. NoSession \in ClaudeRecords /\ ResultFits(NoSession)
  BY DEF NoSession, ClaudeRecords, CStatus, ResultFits
<1>2. ClaudeTypes
  BY <1>1 DEF ClaudeInit, ClaudeTypes, NoRun, NoSend, ClaudeSteps
<1>3. RecordsTrue
  BY <1>1 DEF ClaudeInit, RecordsTrue, SameSessions
<1>4. SendsApart /\ \A u \in ClaudeUsers : SendTrue(u)
  BY <1>1 DEF ClaudeInit, SendsApart, SendTrue, NoSend
<1>5. \A t \in CTurns : TurnTrue(t)
  BY DEF ClaudeInit, TurnTrue
<1> QED
  BY <1>2, <1>3, <1>4, <1>5 DEF ClaudeInv

\* It says that the adapter is sound.
LEMMA ClaudeInvIsSound == ClaudeInv => ClaudeIsSound
<1> SUFFICES ASSUME ClaudeInv PROVE ClaudeIsSound
  OBVIOUS
<1>1. ASSUME NEW t \in CTurns, NEW v \in CTurns, cproc[t] = "live", cproc[v] = "live",
             turnOf[t] = turnOf[v]
      PROVE  t = v
  <2>1. TurnTrue(t) /\ TurnTrue(v)
    BY DEF ClaudeInv
  <2> QED
    BY <1>1, <2>1 DEF TurnTrue
<1>2. OneClaudeProcess
  BY <1>1 DEF OneClaudeProcess, ClaudeInv, RecordsTrue, ResultFits
<1>3. RestartKeepsSessions
  BY DEF ClaudeInv, RecordsTrue, SameSessions, RestartKeepsSessions, SessionExists
<1> QED
  BY <1>2, <1>3 DEF ClaudeIsSound

\* Only u goes on, to x.
Goes0(u, x) == sends' = [sends EXCEPT ![u] = x]

SendRecords == [op : {"none", "create", "send"}, step : ClaudeSteps, s : Nat, turn : Nat,
                previous : ClaudeRecords]

\* A goroutine goes on without a run.
LEMMA GoesWithout ==
    ASSUME ClaudeInv, NEW u \in ClaudeUsers, NEW x \in SendRecords, Goes0(u, x), made' \in Nat,
           x.step \notin {"prepare", "start"}, ResultFits(x.previous), x.s <= made',
           x.step # "idle" => x.s \in CSessions,
           \A v \in ClaudeUsers \ {u} : sends'[v] = sends[v] => SendTrue(v)'
    PROVE  /\ sends' \in [ClaudeUsers -> SendRecords] /\ SendsApart'
           /\ \A v \in ClaudeUsers : SendTrue(v)'
<1>1. sends \in [ClaudeUsers -> SendRecords]
  BY DEF ClaudeInv, ClaudeTypes, SendRecords
<1>2. sends'[u] = x /\ \A v \in ClaudeUsers \ {u} : sends'[v] = sends[v]
  BY <1>1 DEF Goes0
<1>3. SendTrue(u)'
  BY <1>2 DEF SendTrue
<1>4. SendsApart'
  BY <1>2 DEF ClaudeInv, SendsApart
<1>5. sends' \in [ClaudeUsers -> SendRecords]
  BY <1>1 DEF Goes0
<1> QED
  BY <1>2, <1>3, <1>4, <1>5

\* A goroutine goes on with a run that is its own.
LEMMA GoesWith ==
    ASSUME ClaudeInv, NEW u \in ClaudeUsers, NEW x \in SendRecords, Goes0(u, x),
           \A v \in ClaudeUsers \ {u} : sends[v].step \in {"prepare", "start"} => sends[v].turn # x.turn,
           \A v \in ClaudeUsers \ {u} : sends'[v] = sends[v] => SendTrue(v)',
           sends'[u] = x => SendTrue(u)'
    PROVE  /\ sends' \in [ClaudeUsers -> SendRecords] /\ SendsApart'
           /\ \A v \in ClaudeUsers : SendTrue(v)'
<1>1. sends \in [ClaudeUsers -> SendRecords]
  BY DEF ClaudeInv, ClaudeTypes, SendRecords
<1>2. sends'[u] = x /\ \A v \in ClaudeUsers \ {u} : sends'[v] = sends[v]
  BY <1>1 DEF Goes0
<1>3. SendsApart'
  BY <1>2 DEF ClaudeInv, SendsApart
<1>4. sends' \in [ClaudeUsers -> SendRecords]
  BY <1>1 DEF Goes0
<1> QED
  BY <1>2, <1>3, <1>4

\* The goroutine that leaves, or that has its session to take back.
LEMMA FailsGoes ==
    ASSUME ClaudeInv, NEW u \in ClaudeUsers, Fails(u) \/ Leaves(u), sends[u].step # "idle"
    PROVE  \E x \in SendRecords :
               /\ Goes0(u, x) /\ x.step \notin {"prepare", "start"} /\ ResultFits(x.previous)
               /\ x.s <= made /\ (x.step # "idle" => x.s \in CSessions)
<1>1. sends[u] \in SendRecords /\ SendTrue(u) /\ made \in Nat
  BY DEF ClaudeInv, ClaudeTypes, SendRecords
<1>2. CASE Leaves(u)
  <2>1. NoSession \in ClaudeRecords /\ ResultFits(NoSession)
    BY DEF NoSession, ClaudeRecords, CStatus, ResultFits
  <2>2. /\ NoSend \in SendRecords /\ NoSend.step = "idle" /\ NoSend.s = 0
        /\ NoSend.previous = NoSession
    BY <2>1 DEF NoSend, SendRecords, ClaudeSteps
  <2>3. Goes0(u, NoSend)
    BY <1>2 DEF Leaves, Goes0
  <2> QED
    BY <1>1, <2>1, <2>2, <2>3
<1>3. CASE Steps(u, "undo")
  <2> DEFINE x == [sends[u] EXCEPT !.step = "undo"]
  <2>1. x \in SendRecords
    BY <1>1 DEF SendRecords, ClaudeSteps
  <2>2. x.step = "undo" /\ x.s = sends[u].s /\ x.previous = sends[u].previous
    BY <1>1 DEF SendRecords
  <2>3. Goes0(u, x)
    BY <1>3 DEF Steps, Goes0
  <2> QED
    BY <1>1, <2>1, <2>2, <2>3 DEF SendTrue
<1> QED
  BY <1>2, <1>3 DEF Fails

\* Create.
LEMMA CreateKeepsClaude ==
    ASSUME ClaudeInv, NEW u \in ClaudeUsers, Create(u)
    PROVE  ClaudeInv'
<1> DEFINE s == made + 1
           new == [sessions EXCEPT ![s] = [NoSession EXCEPT !.status = "created"]]
           x == [NoSend EXCEPT !.op = "create", !.step = "reserve", !.s = s]
<1>1. ClaudeTypes /\ RecordsTrue
  BY DEF ClaudeInv
<1>2. made \in Nat /\ s \in CSessions /\ made' = s /\ made' \in Nat /\ made <= made'
  BY <1>1, ClaudeAssumption DEF Create, ClaudeTypes, CSessions
<1>3. NoSession \in ClaudeRecords /\ ResultFits(NoSession)
  BY DEF NoSession, ClaudeRecords, CStatus, ResultFits
<1>4. LET r == [NoSession EXCEPT !.status = "created"]
      IN  r \in ClaudeRecords /\ ResultFits(r) /\ r.turn = 0
  BY DEF NoSession, ClaudeRecords, CStatus, ResultFits
<1>5. new \in [CSessions -> ClaudeRecords]
  BY <1>1, <1>4 DEF ClaudeTypes
<1>6. \A r \in CSessions : ResultFits(new[r]) /\ (r > made' => new[r] = NoSession)
  BY <1>1, <1>2, <1>4 DEF ClaudeTypes, RecordsTrue, CSessions
<1>7. PICK outcome \in Outcomes :
        /\ SaveIndexLocked(new, outcome)
        /\ sessions' = IF outcome = "uncommitted" THEN sessions ELSE new
        /\ sends' = IF outcome = "saved" THEN [sends EXCEPT ![u] = x] ELSE sends
  BY DEF Create
<1>8. UNCHANGED <<indexErr, crun, cproc, output, turnOf, names>>
  BY DEF Create, runVars
<1>9. index' \in [CSessions -> ClaudeRecords] /\ RecordsTrue'
  <2>1. sessions' \in [CSessions -> ClaudeRecords]
    BY <1>1, <1>5, <1>7 DEF ClaudeTypes
  <2>2. \A r \in CSessions : ResultFits(sessions'[r]) /\ (r > made' => sessions'[r] = NoSession)
    BY <1>1, <1>2, <1>6, <1>7 DEF RecordsTrue, CSessions
  <2>3. outcome = "uncommitted" => SameSessions(sessions', sessions)
    BY <1>7 DEF SameSessions
  <2>4. outcome # "uncommitted" => SameSessions(sessions', new)
    BY <1>7 DEF SameSessions
  <2> HIDE DEF new
  <2> QED
    BY <1>2, <1>5, <1>6, <1>7, <1>8, <2>1, <2>2, <2>3, <2>4, RecordsSaved
<1>10. \A r \in CSessions : r <= made => SameTurn(r)
  BY <1>1, <1>2, <1>7 DEF SameTurn, ClaudeTypes, CSessions
<1>11. ASSUME NEW t \in CTurns PROVE TurnTrue(t)'
  <2>1. TurnTrue(t)
    BY DEF ClaudeInv
  <2> QED
    BY <1>2, <1>8, <1>10, <2>1, TurnStays DEF TurnTrue, SameRun
<1>12. ASSUME NEW v \in ClaudeUsers, sends'[v] = sends[v] PROVE SendTrue(v)'
  <2>1. SendTrue(v)
    BY DEF ClaudeInv
  <2> QED
    BY <1>2, <1>8, <1>10, <1>12, <2>1, SendStays DEF SendTrue, SameRun
<1>13. sends' \in [ClaudeUsers -> SendRecords] /\ SendsApart' /\ \A v \in ClaudeUsers : SendTrue(v)'
  <2>1. CASE outcome = "saved"
    <3>1. /\ x \in SendRecords /\ x.step = "reserve" /\ x.s = s /\ x.previous = NoSession
      BY <1>2, <1>3 DEF NoSend, SendRecords, ClaudeSteps
    <3>2. Goes0(u, x)
      BY <1>7, <2>1 DEF Goes0
    <3> HIDE DEF x
    <3> QED
      BY <1>2, <1>3, <1>12, <3>1, <3>2, GoesWithout
  <2>2. CASE outcome # "saved"
    BY <1>1, <1>7, <1>12, <2>2 DEF ClaudeInv, ClaudeTypes, SendsApart, SendRecords
  <2> QED
    BY <2>1, <2>2
<1>14. ClaudeTypes'
  BY <1>1, <1>2, <1>5, <1>7, <1>8, <1>9, <1>13 DEF ClaudeTypes, SendRecords
<1> QED
  BY <1>9, <1>11, <1>13, <1>14 DEF ClaudeInv

\* SendToClaude.
LEMMA SendKeepsClaude ==
    ASSUME ClaudeInv, NEW u \in ClaudeUsers, NEW s \in CSessions, SendToClaude(u, s)
    PROVE  ClaudeInv'
<1> DEFINE x == [NoSend EXCEPT !.op = "send", !.step = "reserve", !.s = s]
<1>1. UNCHANGED <<sessions, index, indexErr, crun, cproc, output, turnOf, made, names>> /\ Goes0(u, x)
  BY DEF SendToClaude, indexVars, runVars, claudeCount, Goes0
<1>2. made \in Nat /\ s \in Nat /\ s <= made
  <2>1. s \in Nat /\ made \in Nat
    BY ClaudeAssumption DEF CSessions, ClaudeInv, ClaudeTypes
  <2>2. ~(s > made)
    BY DEF ClaudeInv, RecordsTrue, SendToClaude, SessionExists
  <2> QED
    BY <2>1, <2>2
<1>3. NoSession \in ClaudeRecords /\ ResultFits(NoSession)
  BY DEF NoSession, ClaudeRecords, CStatus, ResultFits
<1>4. x \in SendRecords /\ x.step = "reserve" /\ x.s = s /\ x.previous = NoSession
  BY <1>2, <1>3 DEF NoSend, SendRecords, ClaudeSteps
<1>5. ASSUME NEW v \in ClaudeUsers, sends'[v] = sends[v] PROVE SendTrue(v)'
  BY <1>1, <1>5 DEF ClaudeInv, SendTrue
<1> HIDE DEF x
<1>6. sends' \in [ClaudeUsers -> SendRecords] /\ SendsApart' /\ \A v \in ClaudeUsers : SendTrue(v)'
  BY <1>1, <1>2, <1>3, <1>4, <1>5, GoesWithout
<1>7. ClaudeTypes' /\ RecordsTrue' /\ \A t \in CTurns : TurnTrue(t)'
  BY <1>1, <1>6 DEF ClaudeInv, ClaudeTypes, SendRecords, RecordsTrue, TurnTrue
<1> QED
  BY <1>6, <1>7 DEF ClaudeInv

\* The turn is reserved.
LEMMA ReserveKeepsClaude ==
    ASSUME ClaudeInv, NEW u \in ClaudeUsers, ReserveRun(u)
    PROVE  ClaudeInv'
<1> DEFINE s == sends[u].s
<1>1. ClaudeTypes /\ SendTrue(u) /\ sends[u].step = "reserve" /\ s \in CSessions /\ sends[u] \in SendRecords
  BY DEF ClaudeInv, ReserveRun, SendTrue, ClaudeTypes, SendRecords
<1>2. UNCHANGED <<sessions, index, indexErr, cproc, output, made, names>> /\ made \in Nat
  BY <1>1 DEF ReserveRun, indexVars, claudeCount, ClaudeTypes
<1>3. RecordsTrue'
  BY <1>2 DEF ClaudeInv, RecordsTrue
<1>4. CASE Fails(u) /\ UNCHANGED <<crun, turnOf>>
  <2>1. ASSUME NEW v \in ClaudeUsers, sends'[v] = sends[v] PROVE SendTrue(v)'
    BY <1>2, <1>4, <2>1 DEF ClaudeInv, SendTrue
  <2>2. PICK x \in SendRecords :
               /\ Goes0(u, x) /\ x.step \notin {"prepare", "start"} /\ ResultFits(x.previous)
               /\ x.s <= made /\ (x.step # "idle" => x.s \in CSessions)
    BY <1>1, <1>4, FailsGoes
  <2>3. sends' \in [ClaudeUsers -> SendRecords] /\ SendsApart' /\ \A v \in ClaudeUsers : SendTrue(v)'
    BY <1>2, <2>1, <2>2, GoesWithout
  <2>4. ClaudeTypes' /\ \A t \in CTurns : TurnTrue(t)'
    BY <1>2, <1>4, <2>3 DEF ClaudeInv, ClaudeTypes, SendRecords, TurnTrue
  <2> QED
    BY <1>3, <2>3, <2>4 DEF ClaudeInv
<1>5. ASSUME NEW t \in CTurns, turnOf[t] = 0, SessionExists(s), ~Busy(s),
             crun' = [crun EXCEPT ![s] = [NoRun EXCEPT !.turn = t]],
             sends' = [sends EXCEPT ![u].step = "prepare", ![u].turn = t],
             turnOf' = [turnOf EXCEPT ![t] = s]
      PROVE  ClaudeInv'
  <2> DEFINE x == [sends[u] EXCEPT !.step = "prepare", !.turn = t]
  <2>1. Goes0(u, x)
    BY <1>1, <1>5 DEF Goes0, ClaudeTypes
  <2>2. t \in Nat /\ s \in Nat
    BY <1>1, ClaudeAssumption DEF CTurns, SendRecords
  <2>3. /\ x \in SendRecords /\ x.step = "prepare" /\ x.turn = t /\ x.s = s
        /\ x.previous = sends[u].previous
    BY <1>1, <2>2 DEF SendRecords, ClaudeSteps
  <2> HIDE DEF x
  <2>4. cproc[t] = "none"
    <3>1. TurnTrue(t) /\ cproc[t] \in {"none", "live", "dead", "waited", "orphan"}
      BY DEF ClaudeInv, ClaudeTypes
    <3> QED
      BY <1>5, <3>1 DEF TurnTrue
  <2>5. /\ crun' \in [CSessions -> [turn : Nat, canceled : BOOLEAN, cmd : BOOLEAN]]
        /\ crun'[s].turn = t /\ \A r \in CSessions \ {s} : crun'[r] = crun[r]
        /\ crun[s].turn = 0
    BY <1>1, <1>5, <2>2 DEF ClaudeTypes, NoRun, Busy
  <2>6. /\ turnOf' \in [CTurns -> Nat] /\ turnOf'[t] = s
        /\ \A v \in CTurns \ {t} : turnOf'[v] = turnOf[v]
    BY <1>1, <1>5, <2>2 DEF ClaudeTypes
  <2>7. ASSUME NEW v \in ClaudeUsers, sends[v].step \in {"prepare", "start"}
        PROVE  sends[v].s # s /\ sends[v].turn # t
    <3>1. SendTrue(v) /\ sends[v].turn \in CTurns /\ sends[v].turn # 0
      BY <2>7, ClaudeAssumption DEF ClaudeInv, SendTrue, CTurns
    <3>2. sends[v].s \in CSessions
      BY <2>7, <3>1 DEF SendTrue
    <3>3. 0 \notin CSessions
      BY ClaudeAssumption DEF CSessions
    <3> QED
      BY <1>5, <2>5, <2>7, <3>1, <3>2, <3>3 DEF SendTrue
  <2>8. ASSUME NEW v \in ClaudeUsers, sends'[v] = sends[v] PROVE SendTrue(v)'
    <3>1. SendTrue(v)
      BY DEF ClaudeInv
    <3>2. sends[v].step \in {"prepare", "start"} =>
             /\ crun'[sends[v].s] = crun[sends[v].s]
             /\ turnOf'[sends[v].turn] = turnOf[sends[v].turn]
      BY <2>5, <2>6, <2>7, <3>1 DEF SendTrue
    <3> QED
      BY <1>2, <2>8, <3>1, <3>2 DEF SendTrue
  <2>9. sends'[u] = x => SendTrue(u)'
    BY <1>1, <1>2, <2>3, <2>4, <2>5, <2>6 DEF SendTrue
  <2>10. sends' \in [ClaudeUsers -> SendRecords] /\ SendsApart' /\ \A v \in ClaudeUsers : SendTrue(v)'
    BY <2>1, <2>3, <2>7, <2>8, <2>9, GoesWith
  <2>11. ASSUME NEW v \in CTurns PROVE TurnTrue(v)'
    <3>1. TurnTrue(v)
      BY DEF ClaudeInv
    <3>2. CASE v = t
      BY <1>1, <1>2, <2>2, <2>4, <2>6, <3>1, <3>2 DEF TurnTrue, SendTrue
    <3>3. CASE v # t
      <4>1. cproc[v] \in {"live", "dead"} => turnOf[v] # s
        <5>1. v # 0
          BY ClaudeAssumption DEF CTurns
        <5> QED
          BY <2>5, <3>1, <5>1 DEF TurnTrue
      <4> QED
        BY <1>2, <2>5, <2>6, <3>1, <3>3, <4>1 DEF TurnTrue
    <3> QED
      BY <3>2, <3>3
  <2>12. ClaudeTypes'
    BY <1>1, <1>2, <2>5, <2>6, <2>10 DEF ClaudeTypes, SendRecords
  <2> QED
    BY <1>3, <2>10, <2>11, <2>12 DEF ClaudeInv
<1> QED
  BY <1>4, <1>5 DEF ReserveRun

\* A run is given back by the goroutine that has it.
LEMMA CleansUp ==
    ASSUME ClaudeInv, NEW u \in ClaudeUsers, sends[u].step \in {"prepare", "start"},
           CleanupReservation(u)
    PROVE  /\ crun' \in [CSessions -> [turn : Nat, canceled : BOOLEAN, cmd : BOOLEAN]]
           /\ \A r \in CSessions \ {sends[u].s} : crun'[r] = crun[r]
<1>1. NoRun \in [turn : Nat, canceled : BOOLEAN, cmd : BOOLEAN]
  BY DEF NoRun
<1> QED
  BY <1>1 DEF ClaudeInv, ClaudeTypes, CleanupReservation

\* A goroutine with a run changes its record, or gives the run up: nobody else's
\* run or process is of that session.
LEMMA OwnSessionKeeps ==
    ASSUME ClaudeInv, NEW u \in ClaudeUsers, sends[u].step \in {"prepare", "start"},
           UNCHANGED <<indexErr, cproc, output, turnOf, made, names>>,
           crun' \in [CSessions -> [turn : Nat, canceled : BOOLEAN, cmd : BOOLEAN]],
           \A r \in CSessions \ {sends[u].s} : crun'[r] = crun[r] /\ sessions'[r] = sessions[r]
    PROVE  /\ \A v \in ClaudeUsers \ {u} : sends'[v] = sends[v] => SendTrue(v)'
           /\ \A t \in CTurns : TurnTrue(t)'
<1>1. made' \in Nat /\ made <= made' /\ ClaudeTypes
  BY DEF ClaudeInv, ClaudeTypes
<1>2. ASSUME NEW v \in ClaudeUsers \ {u}, sends'[v] = sends[v] PROVE SendTrue(v)'
  <2>1. SendTrue(v)
    BY DEF ClaudeInv
  <2>2. sends[v].step \in {"prepare", "start"} => sends[v].s \in CSessions \ {sends[u].s}
    BY <2>1, RunIsOwn DEF SendTrue
  <2>3. sends[v].step \in {"prepare", "start"} => SameRun(sends[v].s) /\ SameTurn(sends[v].s)
    BY <2>2 DEF SameRun, SameTurn
  <2> QED
    BY <1>1, <1>2, <2>3, SendStays
<1>3. ASSUME NEW t \in CTurns PROVE TurnTrue(t)'
  <2>1. TurnTrue(t)
    BY DEF ClaudeInv
  <2>2. cproc[t] \in {"live", "dead"} => turnOf[t] \in CSessions \ {sends[u].s}
    BY <2>1, RunIsOwn DEF TurnTrue
  <2>3. cproc[t] \in {"live", "dead"} => SameRun(turnOf[t]) /\ SameTurn(turnOf[t])
    BY <2>2 DEF SameRun, SameTurn
  <2> QED
    BY <1>1, <2>3, TurnStays
<1> QED
  BY <1>2, <1>3

\* A goroutine fails after the reservation.
LEMMA FailureKeeps ==
    ASSUME ClaudeInv, NEW u \in ClaudeUsers, sends[u].step \in {"prepare", "start"},
           UNCHANGED <<indexErr, cproc, output, turnOf, made, names>>,
           CleanupReservation(u), Fails(u), RecordsTrue',
           sessions' \in [CSessions -> ClaudeRecords], index' \in [CSessions -> ClaudeRecords],
           \A r \in CSessions \ {sends[u].s} : sessions'[r] = sessions[r]
    PROVE  ClaudeInv'
<1>1. /\ crun' \in [CSessions -> [turn : Nat, canceled : BOOLEAN, cmd : BOOLEAN]]
      /\ \A r \in CSessions \ {sends[u].s} : crun'[r] = crun[r]
  BY CleansUp
<1>2. /\ \A v \in ClaudeUsers \ {u} : sends'[v] = sends[v] => SendTrue(v)'
      /\ \A t \in CTurns : TurnTrue(t)'
  BY <1>1, OwnSessionKeeps
<1>3. PICK x \in SendRecords :
           /\ Goes0(u, x) /\ x.step \notin {"prepare", "start"} /\ ResultFits(x.previous)
           /\ x.s <= made /\ (x.step # "idle" => x.s \in CSessions)
  BY FailsGoes
<1>4. made' = made /\ made \in Nat /\ ClaudeTypes
  BY DEF ClaudeInv, ClaudeTypes
<1>5. sends' \in [ClaudeUsers -> SendRecords] /\ SendsApart' /\ \A v \in ClaudeUsers : SendTrue(v)'
  BY <1>2, <1>3, <1>4, GoesWithout
<1>6. ClaudeTypes'
  BY <1>1, <1>4, <1>5 DEF ClaudeTypes, SendRecords
<1> QED
  BY <1>2, <1>5, <1>6 DEF ClaudeInv

\* The record of a session is replaced, unless it is gone.
LEMMA WithRecordIs ==
    ASSUME ClaudeInv, NEW s \in CSessions, NEW r \in ClaudeRecords
    PROVE  /\ WithRecord(s, r) \in [CSessions -> ClaudeRecords]
           /\ \A v \in CSessions \ {s} : WithRecord(s, r)[v] = sessions[v]
           /\ WithRecord(s, r)[s] = IF sessions[s] = NoSession THEN NoSession ELSE r
BY DEF ClaudeInv, ClaudeTypes, WithRecord, SessionExists

\* PrepareRun.
LEMMA PrepareKeepsClaude ==
    ASSUME ClaudeInv, NEW u \in ClaudeUsers, PrepareRun(u)
    PROVE  ClaudeInv'
<1> DEFINE s == sends[u].s
           run == [sessions[s] EXCEPT !.status = "running", !.turn = sends[u].turn, !.result = 0]
           stop == [run EXCEPT !.status = "interrupted"]
           new == WithRecord(s, run)
           cut == WithRecord(s, stop)
<1>1. /\ ClaudeTypes /\ RecordsTrue /\ SendTrue(u) /\ sends[u].step = "prepare"
      /\ sends[u] \in SendRecords
  BY DEF ClaudeInv, PrepareRun, ClaudeTypes, SendRecords
<1>2. s \in CSessions /\ sends[u].turn \in CTurns /\ sends[u].turn \in Nat /\ s <= made
  BY <1>1 DEF SendTrue, SendRecords
<1>3. UNCHANGED <<indexErr, cproc, output, turnOf, made, names>> /\ made \in Nat
  BY <1>1 DEF PrepareRun, runVars, claudeCount, ClaudeTypes
<1>4. CASE CleanupReservation(u) /\ Fails(u) /\ UNCHANGED <<sessions, index>>
  <2>1. RecordsTrue'
    BY <1>1, <1>3, <1>4 DEF RecordsTrue
  <2> QED
    BY <1>1, <1>3, <1>4, <2>1, FailureKeeps DEF ClaudeTypes
<1>5. ASSUME NEW outcome \in Outcomes, SaveIndexLocked(new, outcome),
             sessions' = CASE outcome = "saved" -> new
                           [] outcome = "uncommitted" -> sessions
                           [] OTHER -> cut,
             IF outcome = "saved"
             THEN /\ sends' = [sends EXCEPT ![u].step = "start", ![u].previous = sessions[s]]
                  /\ UNCHANGED crun
             ELSE CleanupReservation(u) /\ Fails(u)
      PROVE  ClaudeInv'
  <2>1. /\ run \in ClaudeRecords /\ run.turn = sends[u].turn /\ run.result = 0
        /\ run.status = "running" /\ run.name = sessions[s].name
    <3> DEFINE old == sessions[s]
    <3>1. old \in ClaudeRecords
      BY <1>1, <1>2 DEF ClaudeTypes
    <3> HIDE DEF old
    <3>2. LET x == [old EXCEPT !.status = "running", !.turn = sends[u].turn, !.result = 0]
          IN  /\ x \in ClaudeRecords /\ x.turn = sends[u].turn /\ x.result = 0
              /\ x.status = "running" /\ x.name = old.name
      BY <1>2, <3>1 DEF ClaudeRecords, CStatus
    <3> QED
      BY <3>2 DEF old
  <2> HIDE DEF run
  <2>2. /\ stop \in ClaudeRecords /\ stop.turn = sends[u].turn /\ stop.result = 0
        /\ stop.status = "interrupted" /\ stop.name = sessions[s].name
    BY <2>1 DEF ClaudeRecords, CStatus
  <2> HIDE DEF stop
  <2>2a. /\ new \in [CSessions -> ClaudeRecords] /\ cut \in [CSessions -> ClaudeRecords]
         /\ \A r \in CSessions \ {s} : new[r] = sessions[r] /\ cut[r] = sessions[r]
         /\ new[s] = (IF sessions[s] = NoSession THEN NoSession ELSE run)
         /\ cut[s] = (IF sessions[s] = NoSession THEN NoSession ELSE stop)
    BY <1>2, <2>1, <2>2, WithRecordIs
  <2>2b. run # NoSession /\ stop # NoSession
    BY <2>1, <2>2 DEF NoSession
  <2>3. /\ sessions' = IF outcome = "saved" THEN new
                       ELSE IF outcome = "uncommitted" THEN sessions ELSE cut
        /\ SaveIndexLocked(new, outcome)
    BY <1>5
  <2> HIDE DEF new, cut
  <2>4. \A r \in CSessions : ResultFits(new[r]) /\ ResultFits(cut[r])
    BY <1>1, <2>1, <2>2, <2>2a DEF RecordsTrue, ResultFits, NoSession
  <2>5. \A r \in CSessions : r > made' => new[r] = NoSession /\ cut[r] = NoSession
    BY <1>1, <1>2, <1>3, <2>2a DEF RecordsTrue, CSessions
  <2>6. SameSessions(cut, new) /\ SameSessions(new, new) /\ SameSessions(sessions, sessions)
    BY <2>1, <2>2, <2>2a, <2>2b DEF SameSessions
  <2>7. sessions' \in [CSessions -> ClaudeRecords] /\ \A r \in CSessions \ {s} : sessions'[r] = sessions[r]
    BY <1>1, <2>3, <2>2a DEF ClaudeTypes
  <2>8. \A r \in CSessions : /\ ResultFits(new[r]) /\ ResultFits(sessions'[r])
                             /\ r > made' => new[r] = NoSession /\ sessions'[r] = NoSession
    BY <1>1, <1>3, <2>3, <2>4, <2>5 DEF RecordsTrue
  <2>9. /\ outcome = "uncommitted" => SameSessions(sessions', sessions)
        /\ outcome # "uncommitted" => SameSessions(sessions', new)
    BY <2>3, <2>6
  <2>10. index' \in [CSessions -> ClaudeRecords] /\ RecordsTrue'
    BY <1>3, <2>3, <2>7, <2>8, <2>9, <2>2a, RecordsSaved
  <2>11. CASE outcome # "saved"
    BY <1>1, <1>3, <1>5, <2>7, <2>10, <2>11, FailureKeeps
  <2>12. CASE outcome = "saved"
    <3> DEFINE x == [sends[u] EXCEPT !.step = "start", !.previous = sessions[s]]
    <3>1. Goes0(u, x) /\ UNCHANGED crun
      BY <1>1, <1>5, <2>12 DEF Goes0, ClaudeTypes
    <3>2. /\ x \in SendRecords /\ x.step = "start" /\ x.turn = sends[u].turn /\ x.s = s
          /\ x.previous = sessions[s]
      BY <1>1, <1>2 DEF SendRecords, ClaudeSteps, ClaudeTypes
    <3> HIDE DEF x
    <3>3. crun' \in [CSessions -> [turn : Nat, canceled : BOOLEAN, cmd : BOOLEAN]]
      BY <1>1, <3>1 DEF ClaudeTypes
    <3>4. /\ \A v \in ClaudeUsers \ {u} : sends'[v] = sends[v] => SendTrue(v)'
          /\ \A t \in CTurns : TurnTrue(t)'
      BY <1>1, <1>3, <2>7, <3>1, <3>3, OwnSessionKeeps
    <3>5. sends'[u] = x => SendTrue(u)'
      BY <1>1, <1>2, <1>3, <2>1, <2>3, <2>12, <2>2a, <3>1, <3>2 DEF SendTrue, RecordsTrue
    <3>6. sends' \in [ClaudeUsers -> SendRecords] /\ SendsApart' /\ \A v \in ClaudeUsers : SendTrue(v)'
      BY <1>1, <3>1, <3>2, <3>4, <3>5, RunIsOwn, GoesWith
    <3>7. ClaudeTypes'
      BY <1>1, <1>3, <2>7, <2>10, <3>3, <3>6 DEF ClaudeTypes, SendRecords
    <3> QED
      BY <2>10, <3>4, <3>6, <3>7 DEF ClaudeInv
  <2> QED
    BY <2>11, <2>12
<1> QED
  BY <1>4, <1>5 DEF PrepareRun

\* StartCommand.
LEMMA StartKeepsClaude ==
    ASSUME ClaudeInv, NEW u \in ClaudeUsers, StartCommand(u)
    PROVE  ClaudeInv'
<1> DEFINE s == sends[u].s
           t == sends[u].turn
           old == WithRecord(s, sends[u].previous)
<1>1. /\ ClaudeTypes /\ RecordsTrue /\ SendTrue(u) /\ sends[u].step = "start"
      /\ sends[u] \in SendRecords
  BY DEF ClaudeInv, StartCommand, ClaudeTypes, SendRecords
<1>2. /\ s \in CSessions /\ t \in CTurns /\ s <= made /\ made \in Nat
      /\ sends[u].previous \in ClaudeRecords /\ ResultFits(sends[u].previous)
  BY <1>1 DEF SendTrue, SendRecords, ClaudeTypes
<1>3. UNCHANGED <<indexErr, turnOf, made, names>>
  BY DEF StartCommand, claudeCount
<1>4. ASSUME RollBack(u), UNCHANGED <<cproc, output>>
      PROVE  ClaudeInv'
  <2>1. PICK outcome \in Outcomes :
           /\ SaveIndexLocked(old, outcome)
           /\ sessions' = IF outcome = "uncommitted" THEN sessions ELSE old
    BY <1>4 DEF RollBack
  <2>2. CleanupReservation(u) /\ Fails(u)
    BY <1>4 DEF RollBack
  <2>3. /\ old \in [CSessions -> ClaudeRecords] /\ old[s] \in {sends[u].previous, NoSession}
        /\ \A r \in CSessions \ {s} : old[r] = sessions[r]
    BY <1>2, WithRecordIs
  <2> HIDE DEF old
  <2>4. sessions' \in [CSessions -> ClaudeRecords] /\ \A r \in CSessions \ {s} : sessions'[r] = sessions[r]
    BY <1>1, <2>1, <2>3 DEF ClaudeTypes
  <2>5. \A r \in CSessions : /\ ResultFits(old[r]) /\ ResultFits(sessions'[r])
                             /\ r > made' => old[r] = NoSession /\ sessions'[r] = NoSession
    BY <1>1, <1>2, <1>3, <2>1, <2>3 DEF RecordsTrue, CSessions, ResultFits, NoSession
  <2>6. /\ outcome = "uncommitted" => SameSessions(sessions', sessions)
        /\ outcome # "uncommitted" => SameSessions(sessions', old)
    BY <2>1 DEF SameSessions
  <2>7. index' \in [CSessions -> ClaudeRecords] /\ RecordsTrue'
    BY <1>2, <1>3, <2>1, <2>3, <2>4, <2>5, <2>6, RecordsSaved
  <2> QED
    BY <1>1, <1>3, <1>4, <2>2, <2>4, <2>7, FailureKeeps
<1>5. ASSUME cproc' = [cproc EXCEPT ![t] = "live"], Steps(u, "started"),
             UNCHANGED <<sessions, index, crun, output>>
      PROVE  ClaudeInv'
  <2> DEFINE x == [sends[u] EXCEPT !.step = "started"]
  <2>1. Goes0(u, x)
    BY <1>5 DEF Steps, Goes0
  <2>2. x \in SendRecords /\ x.step = "started" /\ x.s = s /\ x.previous = sends[u].previous
    BY <1>1 DEF SendRecords, ClaudeSteps
  <2> HIDE DEF x
  <2>3. /\ cproc' \in [CTurns -> {"none", "live", "dead", "waited", "orphan"}] /\ cproc'[t] = "live"
        /\ \A v \in CTurns \ {t} : cproc'[v] = cproc[v]
    BY <1>1, <1>2, <1>5 DEF ClaudeTypes
  <2>4. ASSUME NEW v \in ClaudeUsers \ {u}, sends'[v] = sends[v] PROVE SendTrue(v)'
    <3>1. SendTrue(v)
      BY DEF ClaudeInv
    <3>2. sends[v].step \in {"prepare", "start"} => sends[v].turn \in CTurns \ {t}
      BY <1>1, <3>1, RunIsOwn DEF SendTrue
    <3> QED
      BY <1>2, <1>3, <1>5, <2>3, <2>4, <3>2, SendStays DEF SameRun, SameTurn
  <2>5. sends' \in [ClaudeUsers -> SendRecords] /\ SendsApart' /\ \A v \in ClaudeUsers : SendTrue(v)'
    BY <1>2, <1>3, <2>1, <2>2, <2>4, GoesWithout
  <2>6. ASSUME NEW v \in CTurns PROVE TurnTrue(v)'
    <3>1. CASE v = t
      <4>1. TurnTrue(t) /\ t # 0
        BY <1>2, ClaudeAssumption DEF ClaudeInv, CTurns
      <4>2. s # 0
        BY <1>2, ClaudeAssumption DEF CSessions
      <4> QED
        BY <1>1, <1>2, <1>3, <1>5, <2>3, <3>1, <4>1, <4>2 DEF TurnTrue, SendTrue
    <3>2. CASE v # t
      BY <1>2, <1>3, <1>5, <2>3, <3>2, TurnStays DEF SameRun, SameTurn
    <3> QED
      BY <3>1, <3>2
  <2>7. RecordsTrue'
    BY <1>1, <1>3, <1>5 DEF RecordsTrue
  <2>8. ClaudeTypes'
    BY <1>1, <1>3, <1>5, <2>3, <2>5 DEF ClaudeTypes, SendRecords
  <2> QED
    BY <2>5, <2>6, <2>7, <2>8 DEF ClaudeInv
<1> QED
  BY <1>4, <1>5 DEF StartCommand

\* The runs and the processes change, the records do not: no run is another
\* turn's, and a process only ends.
LEMMA RunsKeep ==
    ASSUME ClaudeInv, UNCHANGED <<sessions, index, indexErr, turnOf, made, names>>,
           crun' \in [CSessions -> [turn : Nat, canceled : BOOLEAN, cmd : BOOLEAN]],
           \A r \in CSessions : crun'[r].turn = crun[r].turn,
           cproc' \in [CTurns -> {"none", "live", "dead", "waited", "orphan"}],
           output' \in [CTurns -> {"none", "written", "read", "done"}],
           \A t \in CTurns :
               /\ cproc'[t] # cproc[t] => cproc[t] = "live" /\ cproc'[t] = "dead"
               /\ output'[t] \in {"written", "read"} =>
                      output[t] \in {"written", "read"} \/ cproc'[t] = "live"
    PROVE  /\ sends' = sends => ClaudeInv'
           /\ \A u \in ClaudeUsers : Leaves(u) /\ sends[u].step # "idle" => ClaudeInv'
<1>1. ClaudeTypes /\ RecordsTrue /\ made \in Nat
  BY DEF ClaudeInv, ClaudeTypes
<1>2. ASSUME NEW v \in ClaudeUsers, sends'[v] = sends[v] PROVE SendTrue(v)'
  <2>1. SendTrue(v)
    BY DEF ClaudeInv
  <2> QED
    BY <1>1, <1>2, <2>1, SendStays DEF SendTrue, SameRun, SameTurn
<1>3. ASSUME NEW t \in CTurns PROVE TurnTrue(t)'
  <2>1. TurnTrue(t)
    BY DEF ClaudeInv
  <2> QED
    BY <1>1, <2>1, TurnStays DEF TurnTrue, SameRun, SameTurn
<1>4. RecordsTrue'
  BY <1>1 DEF RecordsTrue
<1>5. ASSUME sends' = sends PROVE ClaudeInv'
  <2>1. SendsApart' /\ ClaudeTypes'
    BY <1>1, <1>5 DEF ClaudeInv, SendsApart, ClaudeTypes
  <2> QED
    BY <1>2, <1>3, <1>4, <1>5, <2>1 DEF ClaudeInv
<1>6. ASSUME NEW u \in ClaudeUsers, Leaves(u), sends[u].step # "idle" PROVE ClaudeInv'
  <2>1. PICK x \in SendRecords :
           /\ Goes0(u, x) /\ x.step \notin {"prepare", "start"} /\ ResultFits(x.previous)
           /\ x.s <= made /\ (x.step # "idle" => x.s \in CSessions)
    BY <1>6, FailsGoes
  <2>2. sends' \in [ClaudeUsers -> SendRecords] /\ SendsApart' /\ \A v \in ClaudeUsers : SendTrue(v)'
    BY <1>1, <1>2, <2>1, GoesWithout
  <2>3. ClaudeTypes'
    BY <1>1, <2>2 DEF ClaudeTypes, SendRecords
  <2> QED
    BY <1>3, <1>4, <2>2, <2>3 DEF ClaudeInv
<1> QED
  BY <1>5, <1>6

\* A process is killed.
LEMMA KilledEnds ==
    ASSUME ClaudeInv, NEW t, cproc' = Killed(t)
    PROVE  /\ cproc' \in [CTurns -> {"none", "live", "dead", "waited", "orphan"}]
           /\ \A v \in CTurns : cproc'[v] # cproc[v] => cproc[v] = "live" /\ cproc'[v] = "dead"
BY DEF ClaudeInv, ClaudeTypes, Killed

\* CommandStarted.
LEMMA CommandKeepsClaude ==
    ASSUME ClaudeInv, NEW u \in ClaudeUsers, CommandStarted(u)
    PROVE  ClaudeInv'
<1>1. UNCHANGED <<sessions, index, indexErr, output, turnOf, made, names>>
  BY DEF CommandStarted, indexVars, claudeCount
<1>2. Leaves(u) /\ sends[u].step # "idle"
  BY DEF CommandStarted
<1>3. /\ crun' \in [CSessions -> [turn : Nat, canceled : BOOLEAN, cmd : BOOLEAN]]
      /\ \A r \in CSessions : crun'[r].turn = crun[r].turn
  <2>1. sends[u].s \in CSessions /\ crun' = [crun EXCEPT ![sends[u].s].cmd = TRUE]
    BY <1>2 DEF ClaudeInv, SendTrue, CommandStarted
  <2>2. crun \in [CSessions -> [turn : Nat, canceled : BOOLEAN, cmd : BOOLEAN]]
    BY DEF ClaudeInv, ClaudeTypes
  <2>3. LET x == [crun[sends[u].s] EXCEPT !.cmd = TRUE]
        IN  /\ x \in [turn : Nat, canceled : BOOLEAN, cmd : BOOLEAN]
            /\ x.turn = crun[sends[u].s].turn /\ crun' = [crun EXCEPT ![sends[u].s] = x]
    BY <2>1, <2>2
  <2> QED
    BY <2>1, <2>2, <2>3
<1>4. /\ cproc' \in [CTurns -> {"none", "live", "dead", "waited", "orphan"}]
      /\ \A v \in CTurns : cproc'[v] # cproc[v] => cproc[v] = "live" /\ cproc'[v] = "dead"
  <2>1. CASE crun[sends[u].s].canceled
    BY <2>1, KilledEnds DEF CommandStarted
  <2>2. CASE ~crun[sends[u].s].canceled
    BY <2>2 DEF CommandStarted, ClaudeInv, ClaudeTypes
  <2> QED
    BY <2>1, <2>2
<1>5. output' \in [CTurns -> {"none", "written", "read", "done"}]
  BY <1>1 DEF ClaudeInv, ClaudeTypes
<1> QED
  BY <1>1, <1>2, <1>3, <1>4, <1>5, RunsKeep

\* WriteResult, ProcessEnds and ReadStdout.
LEMMA OutputKeepsClaude ==
    ASSUME ClaudeInv, NEW t \in CTurns, WriteResult(t) \/ ProcessEnds(t) \/ ReadStdout(t)
    PROVE  ClaudeInv'
<1>1. UNCHANGED <<sessions, index, indexErr, crun, sends, turnOf, made, names>>
  BY DEF WriteResult, ProcessEnds, ReadStdout, indexVars, claudeCount
<1>2. /\ crun' \in [CSessions -> [turn : Nat, canceled : BOOLEAN, cmd : BOOLEAN]]
      /\ \A r \in CSessions : crun'[r].turn = crun[r].turn
  BY <1>1 DEF ClaudeInv, ClaudeTypes
<1>3. CASE WriteResult(t)
  BY <1>1, <1>2, <1>3, RunsKeep DEF ClaudeInv, ClaudeTypes, WriteResult
<1>4. CASE ProcessEnds(t)
  BY <1>1, <1>2, <1>4, RunsKeep DEF ClaudeInv, ClaudeTypes, ProcessEnds
<1>5. CASE ReadStdout(t)
  BY <1>1, <1>2, <1>5, RunsKeep DEF ClaudeInv, ClaudeTypes, ReadStdout
<1> QED
  BY <1>3, <1>4, <1>5

\* Cancel.
LEMMA CancelKeepsClaude ==
    ASSUME ClaudeInv, NEW s \in CSessions, Cancel(s)
    PROVE  ClaudeInv'
<1>1. UNCHANGED <<sessions, index, indexErr, output, sends, turnOf, made, names>>
  BY DEF Cancel, indexVars, claudeCount
<1>2. /\ crun' \in [CSessions -> [turn : Nat, canceled : BOOLEAN, cmd : BOOLEAN]]
      /\ \A r \in CSessions : crun'[r].turn = crun[r].turn
  BY DEF ClaudeInv, ClaudeTypes, Cancel
<1>3. /\ cproc' \in [CTurns -> {"none", "live", "dead", "waited", "orphan"}]
      /\ \A v \in CTurns : cproc'[v] # cproc[v] => cproc[v] = "live" /\ cproc'[v] = "dead"
  <2>1. CASE crun[s].cmd
    BY <2>1, KilledEnds DEF Cancel
  <2>2. CASE ~crun[s].cmd
    BY <2>2 DEF Cancel, ClaudeInv, ClaudeTypes
  <2> QED
    BY <2>1, <2>2
<1>4. output' \in [CTurns -> {"none", "written", "read", "done"}]
  BY <1>1 DEF ClaudeInv, ClaudeTypes
<1> QED
  BY <1>1, <1>2, <1>3, <1>4, RunsKeep

\* CloseClaude.
LEMMA CloseKeepsClaude ==
    ASSUME ClaudeInv, CloseClaude
    PROVE  ClaudeInv'
<1>1. UNCHANGED <<sessions, index, indexErr, output, sends, turnOf, made, names>>
  BY DEF CloseClaude, indexVars, claudeCount
<1>2. /\ crun' \in [CSessions -> [turn : Nat, canceled : BOOLEAN, cmd : BOOLEAN]]
      /\ \A r \in CSessions : crun'[r].turn = crun[r].turn
  BY DEF ClaudeInv, ClaudeTypes, CloseClaude
<1>3. /\ cproc' \in [CTurns -> {"none", "live", "dead", "waited", "orphan"}]
      /\ \A v \in CTurns : cproc'[v] # cproc[v] => cproc[v] = "live" /\ cproc'[v] = "dead"
  BY DEF CloseClaude, ClaudeInv, ClaudeTypes
<1>4. output' \in [CTurns -> {"none", "written", "read", "done"}]
  BY <1>1 DEF ClaudeInv, ClaudeTypes
<1> QED
  BY <1>1, <1>2, <1>3, <1>4, RunsKeep

\* The records change, of sessions that keep their turn or have no run.
LEMMA RecordsKeep ==
    ASSUME ClaudeInv, UNCHANGED <<indexErr, crun, cproc, turnOf, made>>, RecordsTrue',
           names' \in Nat,
           sessions' \in [CSessions -> ClaudeRecords], index' \in [CSessions -> ClaudeRecords],
           output' \in [CTurns -> {"none", "written", "read", "done"}],
           \A t \in CTurns : output'[t] \in {"written", "read"} => output[t] \in {"written", "read"},
           \A s \in CSessions : SameTurn(s)
    PROVE  /\ sends' = sends => ClaudeInv'
           /\ \A u \in ClaudeUsers : Leaves(u) /\ sends[u].step # "idle" => ClaudeInv'
<1>1. ClaudeTypes /\ RecordsTrue /\ made \in Nat
  BY DEF ClaudeInv, ClaudeTypes
<1>2. ASSUME NEW v \in ClaudeUsers, sends'[v] = sends[v] PROVE SendTrue(v)'
  <2>1. SendTrue(v)
    BY DEF ClaudeInv
  <2> QED
    BY <1>1, <1>2, <2>1, SendStays DEF SendTrue, SameRun
<1>3. ASSUME NEW t \in CTurns PROVE TurnTrue(t)'
  <2>1. TurnTrue(t)
    BY DEF ClaudeInv
  <2> QED
    BY <1>1, <2>1, TurnStays DEF TurnTrue, SameRun
<1>4. ASSUME sends' = sends PROVE ClaudeInv'
  <2>1. SendsApart' /\ ClaudeTypes'
    BY <1>1, <1>4 DEF ClaudeInv, SendsApart, ClaudeTypes
  <2> QED
    BY <1>2, <1>3, <1>4, <2>1 DEF ClaudeInv
<1>5. ASSUME NEW u \in ClaudeUsers, Leaves(u), sends[u].step # "idle" PROVE ClaudeInv'
  <2>1. PICK x \in SendRecords :
           /\ Goes0(u, x) /\ x.step \notin {"prepare", "start"} /\ ResultFits(x.previous)
           /\ x.s <= made /\ (x.step # "idle" => x.s \in CSessions)
    BY <1>5, FailsGoes
  <2>2. sends' \in [ClaudeUsers -> SendRecords] /\ SendsApart' /\ \A v \in ClaudeUsers : SendTrue(v)'
    BY <1>1, <1>2, <2>1, GoesWithout
  <2>3. ClaudeTypes'
    BY <1>1, <2>2 DEF ClaudeTypes, SendRecords
  <2> QED
    BY <1>3, <2>2, <2>3 DEF ClaudeInv
<1> QED
  BY <1>4, <1>5

\* One record is replaced, and the change is saved or not.
LEMMA RecordReplaced ==
    ASSUME ClaudeInv, NEW s \in CSessions, NEW r \in ClaudeRecords, NEW outcome,
           LET new == [sessions EXCEPT ![s] = r]
           IN  SaveIndexLocked(new, outcome) /\ sessions' \in {sessions, new}
               /\ (outcome = "uncommitted" => SameSessions(sessions', sessions))
               /\ (outcome # "uncommitted" => sessions' = new),
           UNCHANGED <<indexErr, made>>,
           ResultFits(r), r # NoSession => sessions[s] # NoSession /\ r.turn = sessions[s].turn
    PROVE  /\ sessions' \in [CSessions -> ClaudeRecords] /\ index' \in [CSessions -> ClaudeRecords]
           /\ RecordsTrue' /\ \A v \in CSessions : SameTurn(v)
<1> DEFINE new == [sessions EXCEPT ![s] = r]
<1>1. ClaudeTypes /\ RecordsTrue /\ made' \in Nat /\ made <= made' /\ made' = made
  BY DEF ClaudeInv, ClaudeTypes
<1>2. /\ new \in [CSessions -> ClaudeRecords] /\ new[s] = r
      /\ \A v \in CSessions \ {s} : new[v] = sessions[v]
  BY <1>1 DEF ClaudeTypes
<1>3. /\ SaveIndexLocked(new, outcome) /\ sessions' \in {sessions, new}
      /\ outcome = "uncommitted" => SameSessions(sessions', sessions)
      /\ outcome # "uncommitted" => sessions' = new
  OBVIOUS
<1> HIDE DEF new
<1>4. \A v \in CSessions : ResultFits(new[v]) /\ (v > made' => new[v] = NoSession)
  BY <1>1, <1>2 DEF RecordsTrue
<1>5. \A v \in CSessions : /\ ResultFits(new[v]) /\ ResultFits(sessions'[v])
                           /\ v > made' => new[v] = NoSession /\ sessions'[v] = NoSession
  BY <1>1, <1>3, <1>4 DEF RecordsTrue
<1>6. sessions' \in [CSessions -> ClaudeRecords]
  BY <1>1, <1>2, <1>3 DEF ClaudeTypes
<1>7. outcome # "uncommitted" => SameSessions(sessions', new)
  BY <1>3 DEF SameSessions
<1>8. index' \in [CSessions -> ClaudeRecords] /\ RecordsTrue'
  BY <1>1, <1>2, <1>3, <1>5, <1>6, <1>7, RecordsSaved
<1>9. \A v \in CSessions : SameTurn(v)
  BY <1>2, <1>3 DEF SameTurn
<1> QED
  BY <1>6, <1>8, <1>9

\* UndoCreate and DeleteClaudeSession.
LEMMA RemovalKeepsClaude ==
    ASSUME ClaudeInv
    PROVE  /\ \A u \in ClaudeUsers : UndoCreate(u) => ClaudeInv'
           /\ \A s \in CSessions : DeleteClaudeSession(s) => ClaudeInv'
<1>1. NoSession \in ClaudeRecords /\ ResultFits(NoSession)
  BY DEF NoSession, ClaudeRecords, CStatus, ResultFits
<1>2. ClaudeTypes
  BY DEF ClaudeInv
<1>3. \A f : SameSessions(f, f)
  BY DEF SameSessions
<1>4. ASSUME NEW u \in ClaudeUsers, UndoCreate(u) PROVE ClaudeInv'
  <2>1. sends[u].s \in CSessions /\ sends[u].step # "idle" /\ Leaves(u)
    BY <1>4 DEF ClaudeInv, SendTrue, UndoCreate
  <2>2. UNCHANGED <<indexErr, crun, cproc, output, turnOf, made, names>>
    BY <1>4 DEF UndoCreate, runVars, claudeCount
  <2>3. /\ sessions' \in [CSessions -> ClaudeRecords] /\ index' \in [CSessions -> ClaudeRecords]
        /\ RecordsTrue' /\ \A v \in CSessions : SameTurn(v)
    BY <1>1, <1>3, <1>4, <2>1, <2>2, RecordReplaced DEF UndoCreate
  <2> QED
    BY <1>2, <2>1, <2>2, <2>3, RecordsKeep DEF ClaudeTypes
<1>5. ASSUME NEW s \in CSessions, DeleteClaudeSession(s) PROVE ClaudeInv'
  <2>2. UNCHANGED <<indexErr, crun, sends, cproc, output, turnOf, made, names>>
    BY <1>5 DEF DeleteClaudeSession, runVars, claudeCount
  <2>3. /\ sessions' \in [CSessions -> ClaudeRecords] /\ index' \in [CSessions -> ClaudeRecords]
        /\ RecordsTrue' /\ \A v \in CSessions : SameTurn(v)
    BY <1>1, <1>3, <1>5, <2>2, RecordReplaced DEF DeleteClaudeSession
  <2> QED
    BY <1>2, <2>2, <2>3, RecordsKeep DEF ClaudeTypes
<1> QED
  BY <1>4, <1>5

\* Rename.
LEMMA RenameKeepsClaude ==
    ASSUME ClaudeInv, NEW s \in CSessions, Rename(s)
    PROVE  ClaudeInv'
<1> DEFINE r == [sessions[s] EXCEPT !.name = names + 1]
<1>1. ClaudeTypes /\ sessions[s] \in ClaudeRecords /\ sessions[s] # NoSession
  BY DEF ClaudeInv, ClaudeTypes, Rename, SessionExists
<1>2. ResultFits(sessions[s]) /\ names \in Nat
  BY DEF ClaudeInv, RecordsTrue, ClaudeTypes
<1>3. r \in ClaudeRecords /\ r.turn = sessions[s].turn /\ r.result = sessions[s].result
  BY <1>1, <1>2 DEF ClaudeRecords
<1>4. UNCHANGED <<indexErr, crun, sends, cproc, output, turnOf, made>> /\ names' \in Nat
  BY <1>2 DEF Rename, runVars
<1>5. PICK outcome \in Outcomes :
        LET new == [sessions EXCEPT ![s].name = names + 1] IN
        /\ SaveIndexLocked(new, outcome)
        /\ sessions' = IF outcome = "uncommitted" THEN sessions ELSE new
  BY DEF Rename
<1>6. [sessions EXCEPT ![s].name = names + 1] = [sessions EXCEPT ![s] = r]
  BY <1>1 DEF ClaudeTypes
<1>7. ResultFits(r)
  BY <1>2, <1>3 DEF ResultFits
<1> HIDE DEF r
<1>8. \A f : SameSessions(f, f)
  BY DEF SameSessions
<1>9. /\ sessions' \in [CSessions -> ClaudeRecords] /\ index' \in [CSessions -> ClaudeRecords]
      /\ RecordsTrue' /\ \A v \in CSessions : SameTurn(v)
  BY <1>1, <1>3, <1>4, <1>5, <1>6, <1>7, <1>8, RecordReplaced
<1> QED
  BY <1>1, <1>4, <1>9, RecordsKeep DEF ClaudeTypes

\* HandleStreamLine: the record of the turn's session is still of that turn.
LEMMA ResultKeepsClaude ==
    ASSUME ClaudeInv, NEW t \in CTurns, HandleStreamLine(t)
    PROVE  ClaudeInv'
<1> DEFINE s == turnOf[t]
<1>1. ClaudeTypes /\ TurnTrue(t) /\ names \in Nat
  BY DEF ClaudeInv, ClaudeTypes
<1>2. s \in CSessions /\ (sessions[s] # NoSession => sessions[s].turn = t)
  BY <1>1 DEF TurnTrue, HandleStreamLine
<1>3. UNCHANGED <<indexErr, crun, sends, cproc, turnOf, made, names>>
  BY DEF HandleStreamLine, claudeCount
<1>4. /\ output' \in [CTurns -> {"none", "written", "read", "done"}]
      /\ \A v \in CTurns : output'[v] \in {"written", "read"} => output[v] \in {"written", "read"}
  BY <1>1 DEF HandleStreamLine, ClaudeTypes
<1>5. CASE UNCHANGED <<sessions, index>>
  <2>1. RecordsTrue' /\ \A v \in CSessions : SameTurn(v)
    BY <1>3, <1>5 DEF ClaudeInv, RecordsTrue, SameTurn
  <2> QED
    BY <1>1, <1>3, <1>4, <1>5, <2>1, RecordsKeep DEF ClaudeTypes
<1>6. CASE sessions[s] # NoSession
  <2>1. PICK status \in {"completed", "failed"}, outcome \in Outcomes :
          LET new == [sessions EXCEPT ![s].status = status, ![s].result = t]
          IN  sessions' = new /\ SaveIndexLocked(new, outcome)
    BY <1>6 DEF HandleStreamLine, SessionExists, PersistIndexAsyncLocked
  <2> DEFINE r == [sessions[s] EXCEPT !.status = status, !.result = t]
  <2>2. sessions[s] \in ClaudeRecords /\ t \in Nat
    BY <1>1, <1>2, ClaudeAssumption DEF ClaudeTypes, CTurns
  <2>3. [sessions EXCEPT ![s].status = status, ![s].result = t] = [sessions EXCEPT ![s] = r]
    BY <1>1, <1>2 DEF ClaudeTypes
  <2>4. /\ r \in ClaudeRecords /\ r.turn = sessions[s].turn /\ r.name = sessions[s].name
        /\ r.result = t /\ r.status = status
    BY <2>2 DEF ClaudeRecords, CStatus
  <2>5. ResultFits(r) /\ r # NoSession
    BY <1>2, <1>6, <2>4 DEF ResultFits, NoSession
  <2> HIDE DEF r
  <2>6. sessions' = [sessions EXCEPT ![s] = r] /\ SaveIndexLocked([sessions EXCEPT ![s] = r], outcome)
    BY <2>1, <2>3
  <2>7. SameSessions(sessions', sessions)
    BY <1>1, <1>2, <1>6, <2>4, <2>5, <2>6 DEF SameSessions, ClaudeTypes
  <2>8. /\ sessions' \in [CSessions -> ClaudeRecords] /\ index' \in [CSessions -> ClaudeRecords]
        /\ RecordsTrue' /\ \A v \in CSessions : SameTurn(v)
    BY <1>2, <1>3, <1>6, <2>4, <2>5, <2>6, <2>7, RecordReplaced
  <2> QED
    BY <1>1, <1>3, <1>4, <2>8, RecordsKeep
<1> QED
  BY <1>5, <1>6 DEF HandleStreamLine, SessionExists

\* WaitRun: the run is freed, and nobody else has it.
LEMMA WaitKeepsClaude ==
    ASSUME ClaudeInv, NEW t \in CTurns, WaitRun(t)
    PROVE  ClaudeInv'
<1> DEFINE s == turnOf[t]
<1>1. ClaudeTypes /\ TurnTrue(t) /\ names \in Nat /\ made \in Nat
  BY DEF ClaudeInv, ClaudeTypes
<1>2. s \in CSessions /\ crun[s].turn = t /\ cproc[t] = "dead"
  BY <1>1 DEF TurnTrue, WaitRun
<1>3. UNCHANGED <<indexErr, sends, output, turnOf, made, names>>
  BY DEF WaitRun, claudeCount
<1>4. /\ sessions' \in [CSessions -> ClaudeRecords] /\ index' \in [CSessions -> ClaudeRecords]
      /\ RecordsTrue' /\ \A v \in CSessions : SameTurn(v)
  <2>1. CASE UNCHANGED <<sessions, index>>
    BY <1>1, <1>3, <2>1 DEF ClaudeInv, ClaudeTypes, RecordsTrue, SameTurn
  <2>2. CASE sessions[s] # NoSession
    <3>1. PICK status \in {"completed", "failed"}, outcome \in Outcomes :
            LET new == [sessions EXCEPT ![s].status =
                    IF @ # "running" THEN @ ELSE IF crun[s].canceled THEN "canceled" ELSE status]
            IN  sessions' = new /\ SaveIndexLocked(new, outcome)
      BY <2>2 DEF WaitRun, SessionExists, PersistIndexAsyncLocked
    <3> DEFINE kind == IF sessions[s].status # "running" THEN sessions[s].status
                       ELSE IF crun[s].canceled THEN "canceled" ELSE status
               r == [sessions[s] EXCEPT !.status = kind]
    <3>2. sessions[s] \in ClaudeRecords /\ ResultFits(sessions[s])
      BY <1>1, <1>2 DEF ClaudeTypes, ClaudeInv, RecordsTrue
    <3>3. kind \in CStatus /\ (kind = "none" => sessions[s].status = "none")
      BY <3>2 DEF ClaudeRecords, CStatus
    <3>4. [sessions EXCEPT ![s].status =
                    IF @ # "running" THEN @ ELSE IF crun[s].canceled THEN "canceled" ELSE status]
              = [sessions EXCEPT ![s] = r]
      BY <1>1, <1>2 DEF ClaudeTypes
    <3> HIDE DEF kind
    <3>5. /\ r \in ClaudeRecords /\ r.turn = sessions[s].turn /\ r.name = sessions[s].name
          /\ r.result = sessions[s].result /\ r.status = kind
      BY <3>2, <3>3 DEF ClaudeRecords
    <3>6. ResultFits(r) /\ r # NoSession
      <4>1. ResultFits(r)
        BY <3>2, <3>5 DEF ResultFits
      <4>2. kind # "none" => r # NoSession
        BY <3>5 DEF NoSession
      <4>3. kind = "none" => r = sessions[s]
        BY <3>2, <3>3, <3>5 DEF ClaudeRecords
      <4> QED
        BY <2>2, <4>1, <4>2, <4>3
    <3> HIDE DEF r
    <3>7. sessions' = [sessions EXCEPT ![s] = r] /\ SaveIndexLocked([sessions EXCEPT ![s] = r], outcome)
      BY <3>1, <3>4
    <3>8. SameSessions(sessions', sessions)
      BY <1>1, <1>2, <2>2, <3>5, <3>6, <3>7 DEF SameSessions, ClaudeTypes
    <3> QED
      BY <1>2, <1>3, <2>2, <3>5, <3>6, <3>7, <3>8, RecordReplaced
  <2> QED
    BY <2>1, <2>2 DEF WaitRun, SessionExists
<1>5. /\ crun' \in [CSessions -> [turn : Nat, canceled : BOOLEAN, cmd : BOOLEAN]]
      /\ \A r \in CSessions \ {s} : crun'[r] = crun[r]
  BY <1>1, <1>2 DEF WaitRun, ClaudeTypes, NoRun
<1>6. /\ cproc' \in [CTurns -> {"none", "live", "dead", "waited", "orphan"}] /\ cproc'[t] = "waited"
      /\ \A v \in CTurns \ {t} : cproc'[v] = cproc[v]
  BY <1>1 DEF WaitRun, ClaudeTypes
<1>7. ASSUME NEW u \in ClaudeUsers PROVE SendTrue(u)'
  <2>1. SendTrue(u) /\ sends[u].turn # t
    BY DEF ClaudeInv, WaitRun
  <2>2. sends[u].step \in {"prepare", "start"} =>
            sends[u].s \in CSessions \ {s} /\ sends[u].turn \in CTurns \ {t}
    BY <1>2, <2>1 DEF SendTrue
  <2> QED
    BY <1>1, <1>3, <1>4, <1>5, <1>6, <2>1, <2>2, SendStays DEF SameRun, SendTrue
<1>8. ASSUME NEW v \in CTurns PROVE TurnTrue(v)'
  <2>1. TurnTrue(v)
    BY DEF ClaudeInv
  <2>2. CASE v = t
    BY <1>1, <1>2, <1>3, <1>6, <2>1, <2>2 DEF TurnTrue, WaitRun
  <2>3. CASE v # t
    <3>1. cproc[v] \in {"live", "dead"} => turnOf[v] \in CSessions \ {s}
      BY <1>2, <2>1, <2>3 DEF TurnTrue
    <3> QED
      BY <1>1, <1>3, <1>4, <1>5, <1>6, <2>3, <3>1, TurnStays DEF SameRun
  <2> QED
    BY <2>2, <2>3
<1>9. SendsApart' /\ ClaudeTypes'
  BY <1>1, <1>3, <1>4, <1>5, <1>6 DEF ClaudeInv, SendsApart, ClaudeTypes
<1> QED
  BY <1>4, <1>7, <1>8, <1>9 DEF ClaudeInv

\* LoadIndex: nothing of this Node runs, and the sessions are the ones of the index.
LEMMA LoadKeepsClaude ==
    ASSUME ClaudeInv, LoadIndex
    PROVE  ClaudeInv'
<1>1. ClaudeTypes /\ RecordsTrue
  BY DEF ClaudeInv
<1>2. UNCHANGED <<index, made, names>> /\ made \in Nat /\ names \in Nat
  BY <1>1 DEF LoadIndex, ClaudeTypes
<1>3. NoSession \in ClaudeRecords /\ ResultFits(NoSession)
  BY DEF NoSession, ClaudeRecords, CStatus, ResultFits
<1>4. /\ sends' \in [ClaudeUsers -> [op : {"none", "create", "send"}, step : ClaudeSteps, s : Nat,
                                     turn : Nat, previous : ClaudeRecords]]
      /\ \A u \in ClaudeUsers : sends'[u] = NoSend
  BY <1>3 DEF LoadIndex, NoSend, ClaudeSteps
<1>5. /\ crun' \in [CSessions -> [turn : Nat, canceled : BOOLEAN, cmd : BOOLEAN]]
      /\ cproc' \in [CTurns -> {"none", "live", "dead", "waited", "orphan"}]
      /\ output' \in [CTurns -> {"none", "written", "read", "done"}]
      /\ turnOf' \in [CTurns -> Nat]
  BY <1>1 DEF LoadIndex, ClaudeTypes, NoRun
<1>6. LET m == MarkInterrupted(index)
      IN  /\ m \in [CSessions -> ClaudeRecords] /\ SameSessions(m, index)
          /\ \A s \in CSessions : ResultFits(m[s]) /\ (index[s] = NoSession => m[s] = NoSession)
  <2> DEFINE m == MarkInterrupted(index)
  <2>1. ASSUME NEW s \in CSessions
        PROVE  /\ m[s] \in ClaudeRecords /\ m[s].name = index[s].name /\ ResultFits(m[s])
               /\ (index[s] # NoSession <=> m[s] # NoSession)
    <3>1. index[s] \in ClaudeRecords /\ ResultFits(index[s])
      BY <1>1 DEF ClaudeTypes, RecordsTrue
    <3>2. CASE index[s].status = "running"
      <4>1. m[s] = [index[s] EXCEPT !.status = "interrupted"]
        BY <3>2 DEF MarkInterrupted
      <4>2. /\ m[s] \in ClaudeRecords /\ m[s].name = index[s].name /\ m[s].status = "interrupted"
            /\ m[s].result = index[s].result /\ m[s].turn = index[s].turn
        BY <3>1, <4>1 DEF ClaudeRecords, CStatus
      <4> QED
        BY <3>1, <3>2, <4>2 DEF ResultFits, NoSession
    <3>3. CASE index[s].status # "running"
      BY <3>1, <3>3 DEF MarkInterrupted
    <3> QED
      BY <3>2, <3>3
  <2>2. m = [s \in CSessions |-> m[s]]
    BY DEF MarkInterrupted
  <2> HIDE DEF m
  <2>3. m \in [CSessions -> ClaudeRecords]
    BY <2>1, <2>2
  <2>4. SameSessions(m, index)
    BY <2>1 DEF SameSessions
  <2> QED
    BY <2>1, <2>3, <2>4 DEF m
<1>7. sessions' \in [CSessions -> ClaudeRecords] /\ indexErr' \in BOOLEAN /\ RecordsTrue'
  <2>1. CASE sessions' = MarkInterrupted(index) /\ indexErr' = FALSE
    BY <1>1, <1>2, <1>6, <2>1 DEF RecordsTrue
  <2>2. CASE sessions' = [s \in CSessions |-> NoSession] /\ indexErr' = TRUE
    BY <1>1, <1>2, <1>3, <2>2 DEF RecordsTrue
  <2> QED
    BY <2>1, <2>2 DEF LoadIndex
<1>8. ASSUME NEW t \in CTurns PROVE TurnTrue(t)'
  <2>1. TurnTrue(t)
    BY DEF ClaudeInv
  <2>2. /\ cproc'[t] \notin {"live", "dead"} /\ (cproc[t] = "none" <=> cproc'[t] = "none")
        /\ output'[t] = IF cproc[t] = "none" THEN "none" ELSE "done"
        /\ turnOf'[t] = turnOf[t]
    BY <1>1 DEF LoadIndex, ClaudeTypes
  <2> QED
    BY <1>2, <2>1, <2>2 DEF TurnTrue
<1>9. ASSUME NEW u \in ClaudeUsers PROVE SendTrue(u)'
  BY <1>2, <1>3, <1>4 DEF SendTrue, NoSend
<1>10. SendsApart' /\ ClaudeTypes'
  BY <1>2, <1>1, <1>4, <1>5, <1>7 DEF SendsApart, NoSend, ClaudeTypes
<1> QED
  BY <1>7, <1>8, <1>9, <1>10 DEF ClaudeInv

\* Every step keeps it.
LEMMA ClaudeStep == ClaudeInv /\ [ClaudeNext]_claudeVars => ClaudeInv'
<1> SUFFICES ASSUME ClaudeInv, [ClaudeNext]_claudeVars PROVE ClaudeInv'
  OBVIOUS
<1>1. CASE UNCHANGED claudeVars
  BY <1>1 DEF claudeVars, indexVars, runVars, claudeCount, ClaudeInv, ClaudeTypes, RecordsTrue,
     SendsApart, SendTrue, TurnTrue
<1>2. ASSUME NEW u \in ClaudeUsers, ClaudeUserStep(u) PROVE ClaudeInv'
  BY <1>2, CreateKeepsClaude, ReserveKeepsClaude, PrepareKeepsClaude, StartKeepsClaude,
     CommandKeepsClaude, RemovalKeepsClaude, SendKeepsClaude DEF ClaudeUserStep
<1>3. ASSUME NEW t \in CTurns,
             WriteResult(t) \/ ProcessEnds(t) \/ HandleStreamLine(t) \/ ReadStdout(t) \/ WaitRun(t)
      PROVE  ClaudeInv'
  BY <1>3, OutputKeepsClaude, ResultKeepsClaude, WaitKeepsClaude
<1>4. ASSUME NEW s \in CSessions, Cancel(s) \/ Rename(s) \/ DeleteClaudeSession(s)
      PROVE  ClaudeInv'
  BY <1>4, CancelKeepsClaude, RenameKeepsClaude, RemovalKeepsClaude
<1> QED
  BY <1>1, <1>2, <1>3, <1>4, CloseKeepsClaude, LoadKeepsClaude DEF ClaudeNext

\* A session has one Claude process at a time among those started since the Node
\* started (one that an earlier Node left may run beside it, and nothing here says
\* that it ends), the result it shows is its latest turn's, and a restart shows the sessions that the adapter shows: "two concurrent
\* session.send do not start two Claude processes", and a change of which the save
\* fails, before or after the file is replaced, leaves the same in memory and on
\* disk (claude_adapter.go).
THEOREM ClaudeStaysSound == ClaudeSpec => []ClaudeIsSound
<1>1. ClaudeInit => ClaudeInv
  BY ClaudeStarts
<1>2. ClaudeInv /\ [ClaudeNext]_claudeVars => ClaudeInv'
  BY ClaudeStep
<1>3. ClaudeInv => ClaudeIsSound
  BY ClaudeInvIsSound
<1> QED
  BY <1>1, <1>2, <1>3, PTL DEF ClaudeSpec

-----------------------------------------------------------------------------
(***************************************************************************)
(* The types of the ledger, whatever fails.                                *)
(***************************************************************************)
\* A record that names a session is not reserved any more.
Named(r) ==
    \A k \in Keys : r[k] # None =>
        /\ r[k].state = "reserved" => r[k].sid = 0
        /\ r[k].state \in {"thread_created", "succeeded", "deleting"} => r[k].sid # 0

\* Who is at work on a session has its number.
Numbered == \A a \in Actors : csid[a] = 0 <=> pc[a] \in {"idle", "reserved"}

\* The types of the ledger, without a word about the faults.
LedgerNamed == LedgerTyped /\ Named(rec) /\ Named(disk) /\ Numbered /\ restarts \in 0 .. MaxRestarts

\* A record is written, or removed.
LEMMA RowWritten ==
    ASSUME NEW r \in [Keys -> Rows], Named(r), NEW k, NEW x,
           k \in Keys => /\ x \in Rows
                         /\ x # None => /\ x.state = "reserved" => x.sid = 0
                                        /\ x.state \in {"thread_created", "succeeded", "deleting"} => x.sid # 0
    PROVE  [r EXCEPT ![k] = x] \in [Keys -> Rows] /\ Named([r EXCEPT ![k] = x])
BY DEF Named

\* What is at work is interrupted.
LEMMA RowsInterrupted ==
    ASSUME NEW r \in [Keys -> Rows], Named(r)
    PROVE  Interrupted(r) \in [Keys -> Rows] /\ Named(Interrupted(r))
<1>1. ASSUME NEW k \in Keys, r[k] # None
      PROVE  /\ [r[k] EXCEPT !.state = "in_doubt"] \in Records
             /\ [r[k] EXCEPT !.state = "in_doubt"].state = "in_doubt"
  BY <1>1 DEF Rows, Records, RecordStates
<1>2. ASSUME NEW k \in Keys
      PROVE  /\ Interrupted(r)[k] \in Rows
             /\ Interrupted(r)[k] # None => 
                  /\ Interrupted(r)[k].state = "reserved" => Interrupted(r)[k].sid = 0
                  /\ Interrupted(r)[k].state \in {"thread_created", "succeeded", "deleting"}
                        => Interrupted(r)[k].sid # 0
  <2>1. CASE r[k] # None /\ r[k].state \in {"reserved", "thread_created"}
    BY <1>1, <2>1 DEF Interrupted, Rows
  <2>2. CASE ~(r[k] # None /\ r[k].state \in {"reserved", "thread_created"})
    BY <2>2 DEF Interrupted, Named
  <2> QED
    BY <2>1, <2>2
<1>3. Interrupted(r) = [k \in Keys |-> Interrupted(r)[k]]
  BY DEF Interrupted
<1> QED
  BY <1>2, <1>3 DEF Named

\* The ledger is saved, or a save fails.
LEMMA SaveNamed ==
    ASSUME LedgerNamed, NEW new \in [Keys -> Rows], Named(new), NEW kept \in [Keys -> Rows], Named(kept),
           Saved(new) \/ SaveFails(new, kept)
    PROVE  rec' \in [Keys -> Rows] /\ disk' \in [Keys -> Rows] /\ Named(rec') /\ Named(disk')
<1>1. Interrupted(new) \in [Keys -> Rows] /\ Named(Interrupted(new))
  BY RowsInterrupted
<1> QED
  BY <1>1 DEF LedgerNamed, LedgerTyped, Saved, SaveFails

\* A record is updated, or that fails.
LEMMA UpdateNamed ==
    ASSUME LedgerNamed, NEW k, NEW st \in RecordStates, NEW n \in 0 .. MaxSessions,
           st = "in_doubt" \/ (st # "reserved" /\ n # 0), UpdateOK(k, st, n) \/ UpdateFails(k, st, n)
    PROVE  rec' \in [Keys -> Rows] /\ disk' \in [Keys -> Rows] /\ Named(rec') /\ Named(disk')
<1>0. rec \in [Keys -> Rows] /\ Named(rec) /\ disk \in [Keys -> Rows] /\ Named(disk)
  BY DEF LedgerNamed, LedgerTyped
<1>1. CASE ~Has(k) /\ UNCHANGED storeVars
  BY <1>0, <1>1 DEF storeVars
<1>2. CASE Has(k)
  <2> DEFINE x == Record(rec[k].spec, st, n)
  <2>1. k \in Keys => x \in Rows /\ x.state = st /\ x.sid = n
    BY <1>0, <1>2 DEF Has, Rows, Records, Record
  <2>2. Updated(k, st, n) = [rec EXCEPT ![k] = x]
    BY <1>0 DEF Updated
  <2> HIDE DEF x
  <2>3. Updated(k, st, n) \in [Keys -> Rows] /\ Named(Updated(k, st, n))
    <3>1. k \in Keys => /\ x \in Rows
                        /\ x # None => /\ x.state = "reserved" => x.sid = 0
                                       /\ x.state \in {"thread_created", "succeeded", "deleting"} => x.sid # 0
      BY <2>1
    <3>2. [rec EXCEPT ![k] = x] \in [Keys -> Rows] /\ Named([rec EXCEPT ![k] = x])
      BY <1>0, <3>1, RowWritten
    <3> QED
      BY <2>2, <3>2
  <2> QED
    BY <1>0, <1>2, <2>3, SaveNamed DEF UpdateOK, UpdateFails
<1> QED
  BY <1>1, <1>2 DEF UpdateOK, UpdateFails

\* An actor goes on, and keeps its session or returns.
LEMMA GoesNumbered ==
    ASSUME LedgerNamed, NEW a \in Actors, NEW p \in LedgerSteps,
           \/ p \notin {"idle", "reserved"} /\ pc[a] \notin {"idle", "reserved"} /\ Goto(a, p) /\ UNCHANGED csid
           \/ p \notin {"idle", "reserved"} /\ Goto(a, p)
              /\ \E n \in Sessions : csid' = [csid EXCEPT ![a] = n]
           \/ p = "reserved" /\ pc[a] = "idle" /\ Goto(a, p) /\ UNCHANGED csid
           \/ p = "idle" /\ Done(a)
    PROVE  pc' \in [Actors -> LedgerSteps] /\ csid' \in [Actors -> 0..MaxSessions] /\ Numbered'
<1>1. pc \in [Actors -> LedgerSteps] /\ csid \in [Actors -> 0..MaxSessions] /\ Numbered
  BY DEF LedgerNamed, LedgerTyped
<1>2. pc' = [pc EXCEPT ![a] = p]
  BY DEF Goto, Done
<1>3. PICK n \in 0 .. MaxSessions :
         csid' = [csid EXCEPT ![a] = n] /\ (n = 0 <=> p \in {"idle", "reserved"})
  <2>1. ASSUME UNCHANGED csid, pc[a] \in {"idle", "reserved"} <=> p \in {"idle", "reserved"}
        PROVE  csid[a] \in 0 .. MaxSessions /\ csid' = [csid EXCEPT ![a] = csid[a]]
               /\ (csid[a] = 0 <=> p \in {"idle", "reserved"})
    BY <1>1, <2>1 DEF Numbered
  <2>2. CASE p \notin {"idle", "reserved"} /\ \E n \in Sessions : csid' = [csid EXCEPT ![a] = n]
    <3>1. PICK n \in Sessions : csid' = [csid EXCEPT ![a] = n]
      BY <2>2
    <3>2. n \in 0 .. MaxSessions /\ n # 0
      BY LedgerSigns
    <3> QED
      BY <2>2, <3>1, <3>2
  <2>3. CASE p = "idle" /\ Done(a)
    <3>1. 0 \in 0 .. MaxSessions
      BY BoundsAssumption
    <3> QED
      BY <2>3, <3>1 DEF Done
  <2>4. CASE p \notin {"idle", "reserved"} /\ pc[a] \notin {"idle", "reserved"} /\ UNCHANGED csid
    BY <2>1, <2>4
  <2>5. CASE p = "reserved" /\ pc[a] = "idle" /\ UNCHANGED csid
    BY <2>1, <2>5
  <2> QED
    BY <2>2, <2>3, <2>4, <2>5
<1>4. pc' \in [Actors -> LedgerSteps] /\ pc'[a] = p /\ \A b \in Actors \ {a} : pc'[b] = pc[b]
  BY <1>1, <1>2
<1>6. csid' \in [Actors -> 0..MaxSessions] /\ csid'[a] = n /\ \A b \in Actors \ {a} : csid'[b] = csid[b]
  BY <1>1, <1>3
<1>5. ASSUME NEW b \in Actors PROVE csid'[b] = 0 <=> pc'[b] \in {"idle", "reserved"}
  <2>1. CASE b = a
    BY <1>3, <1>4, <1>6, <2>1
  <2>2. CASE b # a
    BY <1>1, <1>4, <1>6, <2>2 DEF Numbered
  <2> QED
    BY <2>1, <2>2
<1> QED
  BY <1>4, <1>5, <1>6 DEF Numbered

\* The steps of session.create that leave the ledger alone.
LEMMA CallersNamed ==
    ASSUME LedgerNamed, NEW c \in Callers, Send(c) \/ Started(c) \/ StartTurn(c) \/ Archive(c)
    PROVE  LedgerNamed'
<1>0. c \in Actors /\ LedgerTyped /\ Sessions \subseteq 0 .. MaxSessions
  BY LedgerSigns DEF LedgerNamed
<1>1. CASE Send(c)
  <2>1. sent + 1 \in Sessions /\ sent' = sent + 1
    BY <1>1 DEF Send
  <2>2. pc' \in [Actors -> LedgerSteps] /\ csid' \in [Actors -> 0..MaxSessions] /\ Numbered'
    BY <1>0, <1>1, <2>1, GoesNumbered DEF Send, LedgerSteps, CallerSteps
  <2>3. /\ sess' \in [Sessions -> SessStates] /\ skey' \in [Sessions -> Keys \cup {None}]
        /\ sspec' \in [Sessions -> Specs \cup {None}]
    BY <1>0, <1>1, <2>1 DEF Send, LedgerTyped, SessStates
  <2> QED
    BY <1>0, <1>1, <2>1, <2>2, <2>3 DEF Send, LedgerNamed, LedgerTyped, Named, storeVars, histVars
<1>2. CASE Started(c)
  <2>1. pc' \in [Actors -> LedgerSteps] /\ csid' \in [Actors -> 0..MaxSessions] /\ Numbered'
    BY <1>0, <1>2, GoesNumbered DEF Started, LedgerSteps, CallerSteps
  <2> QED
    BY <1>0, <1>2, <2>1 DEF Started, LedgerNamed, LedgerTyped, Named, storeVars, histVars, sessVars
<1>3. CASE StartTurn(c)
  <2>1. PICK p \in {"ready", "delete", "spoiled"} : Goto(c, p)
    BY <1>3 DEF StartTurn
  <2>2. p \in LedgerSteps /\ p \notin {"idle", "reserved"}
    BY DEF LedgerSteps, CallerSteps, DeleteSteps
  <2>3. pc[c] \notin {"idle", "reserved"} /\ UNCHANGED csid
    BY <1>3 DEF StartTurn
  <2>4. pc' \in [Actors -> LedgerSteps] /\ csid' \in [Actors -> 0..MaxSessions] /\ Numbered'
    BY <1>0, <2>1, <2>2, <2>3, GoesNumbered
  <2> QED
    BY <1>0, <1>3, <2>4 DEF StartTurn, LedgerNamed, LedgerTyped, Named, storeVars, histVars, sessVars
<1>4. CASE Archive(c)
  <2>1. pc' \in [Actors -> LedgerSteps] /\ csid' \in [Actors -> 0..MaxSessions] /\ Numbered'
    BY <1>0, <1>4, GoesNumbered DEF Archive, LedgerSteps
  <2>2. sess' \in [Sessions -> SessStates]
    BY <1>0, <1>4 DEF Archive, LedgerTyped, SessStates
  <2> QED
    BY <1>0, <1>4, <2>1, <2>2 DEF Archive, LedgerNamed, LedgerTyped, Named, storeVars, histVars
<1> QED
  BY <1>1, <1>2, <1>3, <1>4
\* The steps of session.create that write the record.
LEMMA WritersNamed ==
    ASSUME LedgerNamed, NEW c \in Callers, Abort(c) \/ Doubt(c) \/ Describe(c) \/ DoubtKnown(c) \/ Succeed(c)
    PROVE  LedgerNamed'
<1>0. /\ c \in Actors /\ LedgerTyped /\ csid[c] \in 0 .. MaxSessions
      /\ rec \in [Keys -> Rows] /\ Named(rec)
      /\ (csid[c] = 0 <=> pc[c] \in {"idle", "reserved"})
  BY LedgerSigns DEF LedgerNamed, LedgerTyped, Numbered
<1>1. ASSUME rec' \in [Keys -> Rows], disk' \in [Keys -> Rows], Named(rec'), Named(disk'),
             \/ Done(c)
             \/ /\ pc[c] \notin {"idle", "reserved"} /\ UNCHANGED csid
                /\ Goto(c, "spoiled") \/ Goto(c, "ready") \/ Goto(c, "created") \/ Goto(c, "archive"),
             told' \in [Keys -> 0 .. MaxSessions],
             UNCHANGED <<up, loadErr, ckey, cspec, sessVars, restarts, reclaimed>>
      PROVE  LedgerNamed'
  <2>1. pc' \in [Actors -> LedgerSteps] /\ csid' \in [Actors -> 0..MaxSessions] /\ Numbered'
    BY <1>0, <1>1, GoesNumbered DEF LedgerSteps, CallerSteps
  <2> QED
    BY <1>0, <1>1, <2>1 DEF LedgerNamed, LedgerTyped, Named, sessVars
<1>2. told \in [Keys -> 0 .. MaxSessions] /\ 0 \in 0 .. MaxSessions
      /\ (UNCHANGED storeVars => rec' \in [Keys -> Rows] /\ disk' \in [Keys -> Rows] /\ Named(rec') /\ Named(disk'))
  BY <1>0, BoundsAssumption DEF LedgerNamed, LedgerTyped, Named, storeVars
<1>3. CASE Abort(c)
  <2> DEFINE new == [rec EXCEPT ![ckey[c]] = None]
  <2>1. new \in [Keys -> Rows] /\ Named(new)
    BY <1>0, RowWritten DEF Rows
  <2> HIDE DEF new
  <2>2. CASE UNCHANGED storeVars
    BY <1>1, <1>2, <1>3, <2>2 DEF Abort, histVars
  <2>3. CASE Saved(new) \/ SaveFails(new, rec)
    <3>1. rec' \in [Keys -> Rows] /\ disk' \in [Keys -> Rows] /\ Named(rec') /\ Named(disk')
      BY <1>0, <2>1, <2>3, SaveNamed
    <3> QED
      BY <1>1, <1>2, <1>3, <3>1 DEF Abort, histVars
  <2> QED
    BY <1>3, <2>2, <2>3 DEF Abort, new
<1>4. CASE Doubt(c)
  <2>1. rec' \in [Keys -> Rows] /\ disk' \in [Keys -> Rows] /\ Named(rec') /\ Named(disk')
    BY <1>2, <1>4, UpdateNamed DEF Doubt, RecordStates
  <2> QED
    BY <1>1, <1>2, <1>4, <2>1 DEF Doubt, histVars
<1>5. CASE Describe(c)
  <2>1. pc[c] \notin {"idle", "reserved"} /\ csid[c] # 0
    BY <1>0, <1>5 DEF Describe
  <2>2. CASE UNCHANGED storeVars
    BY <1>1, <1>2, <1>5, <2>1, <2>2 DEF Describe, histVars
  <2>3. CASE UpdateOK(ckey[c], "thread_created", csid[c]) \/ UpdateFails(ckey[c], "thread_created", csid[c])
    <3>1. rec' \in [Keys -> Rows] /\ disk' \in [Keys -> Rows] /\ Named(rec') /\ Named(disk')
      BY <1>0, <2>1, <2>3, UpdateNamed DEF RecordStates
    <3> QED
      BY <1>1, <1>2, <1>5, <2>1, <3>1 DEF Describe, histVars
  <2> QED
    BY <1>5, <2>2, <2>3 DEF Describe
<1>6. CASE DoubtKnown(c)
  <2>1. pc[c] \notin {"idle", "reserved"}
    BY <1>6 DEF DoubtKnown
  <2>2. rec' \in [Keys -> Rows] /\ disk' \in [Keys -> Rows] /\ Named(rec') /\ Named(disk')
    BY <1>0, <1>6, UpdateNamed DEF DoubtKnown, RecordStates
  <2> QED
    BY <1>1, <1>2, <1>6, <2>1, <2>2 DEF DoubtKnown, histVars
<1>7. CASE Succeed(c)
  <2>1. csid[c] # 0
    BY <1>0, <1>7 DEF Succeed
  <2>2. UpdateOK(ckey[c], "succeeded", csid[c]) \/ UpdateFails(ckey[c], "succeeded", csid[c])
    BY <1>7 DEF Succeed
  <2>3. rec' \in [Keys -> Rows] /\ disk' \in [Keys -> Rows] /\ Named(rec') /\ Named(disk')
    BY <1>0, <2>1, <2>2, UpdateNamed DEF RecordStates
  <2>4. told' \in [Keys -> 0 .. MaxSessions]
    BY <1>0, <1>2, <1>7 DEF Succeed
  <2> QED
    BY <1>1, <1>7, <2>3, <2>4 DEF Succeed
<1> QED
  BY <1>3, <1>4, <1>5, <1>6, <1>7
\* The steps of session.delete, and of the owner.
LEMMA DeletersNamed ==
    ASSUME LedgerNamed,
           \/ \E n \in Sessions, d \in Deleters : Delete(d, n)
           \/ \E a \in Actors : Prepare(a) \/ DeleteSession(a) \/ Finalize(a)
           \/ \E k \in Keys : Release(k)
    PROVE  LedgerNamed'
<1>0. /\ LedgerTyped /\ Sessions \subseteq 0 .. MaxSessions /\ Deleters \subseteq Actors
      /\ rec \in [Keys -> Rows] /\ Named(rec)
  BY LedgerSigns DEF LedgerNamed, LedgerTyped
<1>1. ASSUME NEW n \in Sessions, NEW d \in Deleters, Delete(d, n) PROVE LedgerNamed'
  <2>1. pc' \in [Actors -> LedgerSteps] /\ csid' \in [Actors -> 0..MaxSessions] /\ Numbered'
    BY <1>0, <1>1, GoesNumbered DEF Delete, LedgerSteps, DeleteSteps
  <2> QED
    BY <1>0, <1>1, <2>1 DEF Delete, LedgerNamed, LedgerTyped, Named, storeVars, sessVars, histVars
<1>2. ASSUME NEW a \in Actors, NEW p \in {"idle", "prepared"}, Goto(a, p), pc[a] = "delete",
             p = "idle" => csid' = [csid EXCEPT ![a] = 0], p # "idle" => UNCHANGED csid,
             rec' \in [Keys -> Rows], disk' \in [Keys -> Rows], Named(rec'), Named(disk'),
             UNCHANGED <<up, loadErr, ckey, cspec, sessVars, restarts, histVars>>
      PROVE  LedgerNamed'
  <2>1. pc' \in [Actors -> LedgerSteps] /\ csid' \in [Actors -> 0..MaxSessions] /\ Numbered'
    BY <1>0, <1>2, GoesNumbered DEF LedgerSteps, DeleteSteps, Done
  <2> QED
    BY <1>0, <1>2, <2>1 DEF LedgerNamed, LedgerTyped, Named, sessVars, histVars
<1>3. ASSUME NEW a \in Actors, Prepare(a) PROVE LedgerNamed'
  <2> DEFINE n == csid[a]
             open == {k \in RecordsOf(n) : rec[k].state # "deleting"}
             new == [k \in Keys |-> IF k \in open THEN Record(rec[k].spec, "deleting", n) ELSE rec[k]]
  <2>1. n \in 0 .. MaxSessions /\ n # 0
    BY <1>3 DEF Prepare, LedgerNamed, LedgerTyped, Numbered
  <2>2. ASSUME NEW k \in Keys
        PROVE  /\ new[k] \in Rows
               /\ new[k] # None =>
                    /\ new[k].state = "reserved" => new[k].sid = 0
                    /\ new[k].state \in {"thread_created", "succeeded", "deleting"} => new[k].sid # 0
    <3>1. CASE k \in open
      <4>1. new[k] = Record(rec[k].spec, "deleting", n) /\ rec[k] \in Records
        BY <1>0, <3>1 DEF RecordsOf, Has, Rows
      <4> HIDE DEF new, n
      <4>2. new[k] \in Records /\ new[k].state = "deleting" /\ new[k].sid = n
        BY <2>1, <4>1 DEF Records, Record, RecordStates
      <4> QED
        BY <2>1, <4>2 DEF Rows
    <3>2. CASE k \notin open
      <4>1. new[k] = rec[k]
        BY <3>2
      <4> HIDE DEF new
      <4> QED
        BY <1>0, <4>1 DEF Named
    <3> QED
      BY <3>1, <3>2
  <2>3. new \in [Keys -> Rows] /\ Named(new)
    <3>1. new = [k \in Keys |-> new[k]]
      OBVIOUS
    <3> HIDE DEF new
    <3> QED
      BY <2>2, <3>1 DEF Named
  <2> HIDE DEF new, open
  <2>4. CASE UNCHANGED <<storeVars, csid>> /\ Goto(a, "prepared")
    BY <1>0, <1>2, <1>3, <2>4 DEF Prepare, LedgerNamed, LedgerTyped, Named, storeVars
  <2>5. CASE Saved(new) \/ SaveFails(new, rec)
    <3>1. rec' \in [Keys -> Rows] /\ disk' \in [Keys -> Rows] /\ Named(rec') /\ Named(disk')
      BY <1>0, <2>3, <2>5, SaveNamed
    <3>2. \/ Goto(a, "prepared") /\ UNCHANGED csid
          \/ Goto(a, "idle") /\ csid' = [csid EXCEPT ![a] = 0]
      BY <1>3 DEF Prepare, Done
    <3> QED
      BY <1>2, <1>3, <3>1, <3>2 DEF Prepare
  <2> QED
    BY <1>3, <2>4, <2>5 DEF Prepare, new, open
<1>4. ASSUME NEW a \in Actors, DeleteSession(a) PROVE LedgerNamed'
  <2>1. pc' \in [Actors -> LedgerSteps] /\ csid' \in [Actors -> 0..MaxSessions] /\ Numbered'
    BY <1>0, <1>4, GoesNumbered DEF DeleteSession, LedgerSteps, DeleteSteps
  <2>2. sess' \in [Sessions -> SessStates]
    BY <1>0, <1>4 DEF DeleteSession, LedgerTyped, SessStates
  <2> QED
    BY <1>0, <1>4, <2>1, <2>2 DEF DeleteSession, LedgerNamed, LedgerTyped, Named, storeVars, histVars
<1>5. ASSUME NEW a \in Actors, Finalize(a) PROVE LedgerNamed'
  <2> DEFINE n == csid[a]
             closed == {k \in RecordsOf(n) : rec[k].state = "deleting"}
             new == [k \in Keys |-> IF k \in closed THEN None ELSE rec[k]]
  <2>1. n \in 0 .. MaxSessions /\ n # 0
    BY <1>5 DEF Finalize, LedgerNamed, LedgerTyped, Numbered
  <2>2. n \in Sessions
    BY <2>1, LedgerSigns
  <2>3. new \in [Keys -> Rows] /\ Named(new)
    BY <1>0 DEF Named, Rows
  <2> HIDE DEF new, closed
  <2>4. rec' \in [Keys -> Rows] /\ disk' \in [Keys -> Rows] /\ Named(rec') /\ Named(disk')
    <3>1. CASE UNCHANGED storeVars
      BY <1>0, <3>1 DEF LedgerNamed, LedgerTyped, Named, storeVars
    <3>2. CASE Saved(new) \/ SaveFails(new, rec)
      BY <1>0, <2>3, <3>2, SaveNamed
    <3> QED
      BY <1>5, <3>1, <3>2 DEF Finalize, new, closed
  <2>5. pc' \in [Actors -> LedgerSteps] /\ csid' \in [Actors -> 0..MaxSessions] /\ Numbered'
    BY <1>0, <1>5, GoesNumbered DEF Finalize, LedgerSteps
  <2>6. reclaimed' \in SUBSET Sessions
    BY <1>0, <1>5, <2>2 DEF Finalize, LedgerTyped
  <2> QED
    BY <1>0, <1>5, <2>4, <2>5, <2>6 DEF Finalize, LedgerNamed, LedgerTyped, sessVars
<1>6. ASSUME NEW k \in Keys, Release(k) PROVE LedgerNamed'
  <2> DEFINE new == [rec EXCEPT ![k] = None]
  <2>1. new \in [Keys -> Rows] /\ Named(new)
    BY <1>0, RowWritten DEF Rows
  <2> HIDE DEF new
  <2>2. rec' \in [Keys -> Rows] /\ disk' \in [Keys -> Rows] /\ Named(rec') /\ Named(disk')
    BY <1>0, <1>6, <2>1, SaveNamed DEF Release, new
  <2> QED
    BY <1>0, <1>6, <2>2 DEF Release, LedgerNamed, LedgerTyped, Numbered, callVars, sessVars, histVars
<1> QED
  BY <1>1, <1>3, <1>4, <1>5, <1>6

\* The types of the ledger.
LEMMA LedgerNamedIs ==
    /\ Init => LedgerNamed
    /\ LedgerNamed /\ [Next]_vars => LedgerNamed'
    /\ LedgerNamed => TypeOK
<1>1. ASSUME Init PROVE LedgerNamed
  <2>1. 0 \in 0 .. MaxSessions /\ 0 \in 0 .. MaxRestarts
    BY BoundsAssumption
  <2> QED
    BY <1>1, <2>1 DEF Init, LedgerNamed, LedgerTyped, Rows, LedgerSteps, SessStates, Named, Numbered
<1>2. ASSUME LedgerNamed, [Next]_vars PROVE LedgerNamed'
  <2>0. rec \in [Keys -> Rows] /\ Named(rec) /\ disk \in [Keys -> Rows] /\ Named(disk)
    BY <1>2 DEF LedgerNamed, LedgerTyped
  <2>1. ASSUME NEW c \in Callers, NEW k \in Keys, NEW s \in Specs, Begin(c, k, s) PROVE LedgerNamed'
    <3>1. CASE Known(c, k, s)
      <4>1. told' \in [Keys -> 0 .. MaxSessions]
        <5>1. rec[k].spec = s /\ rec[k].state = "succeeded" => rec[k].sid \in 0 .. MaxSessions
          BY <2>0, <3>1 DEF Known, Has, Rows, Records
        <5> QED
          BY <1>2, <3>1, <5>1 DEF Known, LedgerNamed, LedgerTyped
      <4> QED
        BY <1>2, <2>1, <3>1, <4>1 DEF Begin, Known, LedgerNamed, LedgerTyped, Named, Numbered, storeVars,
                                      callVars, sessVars
    <3>2. CASE Reserve(c, k, s)
      <4> DEFINE new == [rec EXCEPT ![k] = Record(s, "reserved", 0)]
      <4>1. Record(s, "reserved", 0) \in Rows /\ Record(s, "reserved", 0).state = "reserved"
            /\ Record(s, "reserved", 0).sid = 0
        BY BoundsAssumption DEF Record, Rows, Records, RecordStates
      <4>2. new \in [Keys -> Rows] /\ Named(new)
        BY <2>0, <4>1, RowWritten
      <4> HIDE DEF new
      <4>3. rec' \in [Keys -> Rows] /\ disk' \in [Keys -> Rows] /\ Named(rec') /\ Named(disk')
        BY <1>2, <2>0, <3>2, <4>2, SaveNamed DEF Reserve, new
      <4>4. c \in Actors
        BY DEF Actors
      <4>5. pc' \in [Actors -> LedgerSteps] /\ csid' \in [Actors -> 0..MaxSessions] /\ Numbered'
        <5>1. CASE UNCHANGED callVars
          BY <1>2, <5>1 DEF LedgerNamed, LedgerTyped, Numbered, callVars
        <5>2. CASE Goto(c, "reserved") /\ UNCHANGED csid
          BY <1>2, <2>1, <4>4, <5>2, GoesNumbered DEF Begin, LedgerSteps, CallerSteps
        <5> QED
          BY <3>2, <5>1, <5>2 DEF Reserve
      <4>6. ckey' \in [Actors -> Keys \cup {None}] /\ cspec' \in [Actors -> Specs \cup {None}]
        BY <1>2, <3>2 DEF Reserve, LedgerNamed, LedgerTyped, callVars
      <4> QED
        BY <1>2, <2>1, <3>2, <4>3, <4>5, <4>6 DEF Begin, Reserve, LedgerNamed, LedgerTyped, sessVars
    <3> QED
      BY <2>1, <3>1, <3>2 DEF Begin
  <2>2. ASSUME NEW n \in Sessions, Provide(n) PROVE LedgerNamed'
    <3>1. sess' \in [Sessions -> SessStates]
      BY <1>2, <2>2 DEF Provide, LedgerNamed, LedgerTyped, SessStates
    <3> QED
      BY <1>2, <2>2, <3>1 DEF Provide, LedgerNamed, LedgerTyped, Named, Numbered, storeVars, callVars, histVars
  <2>3. CASE Crash
    <3>1. 0 \in 0 .. MaxSessions /\ (restarts \in 0 .. MaxRestarts /\ restarts < MaxRestarts =>
                                       restarts + 1 \in 0 .. MaxRestarts)
      BY BoundsAssumption
    <3>2. pc' \in [Actors -> LedgerSteps] /\ csid' \in [Actors -> 0..MaxSessions] /\ Numbered'
      BY <2>3, <3>1 DEF Crash, LedgerSteps, Numbered
    <3> QED
      BY <1>2, <2>3, <3>1, <3>2 DEF Crash, LedgerNamed, LedgerTyped, Rows, Named, sessVars, histVars
  <2>4. CASE Load
    <3>1. Interrupted(disk) \in [Keys -> Rows] /\ Named(Interrupted(disk))
      BY <2>0, RowsInterrupted
    <3>2. rec' \in [Keys -> Rows] /\ Named(rec')
      BY <2>0, <2>4, <3>1 DEF Load
    <3> QED
      BY <1>2, <2>4, <3>2 DEF Load, LedgerNamed, LedgerTyped, Named, Numbered, callVars, sessVars, histVars
  <2>5. CASE UNCHANGED vars
    BY <1>2, <2>5 DEF vars, LedgerNamed, LedgerTyped, Named, Numbered, storeVars, callVars, sessVars, histVars
  <2> QED
    BY <1>2, <2>1, <2>2, <2>3, <2>4, <2>5, CallersNamed, WritersNamed, DeletersNamed DEF Next
<1>3. ASSUME LedgerNamed PROVE TypeOK
  BY <1>3 DEF LedgerNamed, LedgerTyped, Named, TypeOK, Rows, LedgerSteps, SessStates
<1> QED
  BY <1>1, <1>2, <1>3

-----------------------------------------------------------------------------
(***************************************************************************)
(* The types of the writer of files, wherever the link leads.              *)
(***************************************************************************)
\* A request knows its path, and the path that it locks.
Aimed(r) ==
    /\ r.at \in {"resolve", "lock", "plan"} => r.path \in EditPaths
    /\ r.at = "lock" => r.lock \in EditPaths

\* The types of the writer, wherever the link leads.
EditsAimed ==
    /\ EditTypes /\ etemps \in SUBSET EditReqs
    /\ esaves.moves <= Cardinality(EditSaves)
    /\ \A q \in EditReqs : Aimed(edits[q])

\* A request becomes r.
LEMMA AimedGoes ==
    ASSUME EditsAimed, NEW q \in EditReqs, NEW r \in EditRows, Becomes(q, r), Aimed(r),
           efile' \in [EditFiles -> EditContents], elocks' \in SUBSET EditPaths,
           etemps' \in SUBSET EditReqs, UNCHANGED <<elink, esaves>>
    PROVE  EditsAimed'
<1>1. /\ edits' \in [EditReqs -> EditRows] /\ edits'[q] = r
      /\ \A p \in EditReqs \ {q} : edits'[p] = edits[p]
  BY RowPut DEF EditsAimed
<1> QED
  BY <1>1 DEF EditsAimed, EditTypes, Aimed

\* It goes on to at, where it needs neither its path nor its lock, or has them.
LEMMA AimedPasses ==
    ASSUME EditsAimed, NEW q \in EditReqs, NEW at \in EditSteps \ {"resolve", "lock"}, Passes(q, at),
           at = "plan" => edits[q].at = "lock",
           efile' \in [EditFiles -> EditContents], elocks' \in SUBSET EditPaths,
           etemps' \in SUBSET EditReqs, UNCHANGED <<elink, esaves>>
    PROVE  EditsAimed'
<1>1. PICK r \in EditRows : r = Onward(q, at) /\ r.at = at /\ r.path = edits[q].path /\ Becomes(q, r)
  BY OnwardRow DEF EditsAimed
<1>2. Aimed(r)
  BY <1>1 DEF EditsAimed, Aimed
<1> QED
  BY <1>1, <1>2, AimedGoes

\* It returns.
LEMMA AimedEnds ==
    ASSUME EditsAimed, NEW q \in EditReqs, NEW how \in {"ok", "shown", "failed", "conflict", "exists"},
           Ends(q, how), UNCHANGED <<efile, elink, esaves>>
    PROVE  EditsAimed'
<1>1. PICK r \in EditRows : r = EditEnded(q, how) /\ r.at = "over"
  BY EndedRow DEF EditsAimed
<1>2. Becomes(q, r)
  BY <1>1 DEF Ends, Becomes, EditEnded
<1>3. Aimed(r)
  BY <1>1 DEF Aimed
<1>4. elocks' \in SUBSET EditPaths /\ etemps' \in SUBSET EditReqs /\ efile' \in [EditFiles -> EditContents]
  BY DEF Ends, EditsAimed, EditTypes
<1> QED
  BY <1>1, <1>2, <1>3, <1>4, AimedGoes

\* A step of a request.
LEMMA RequestAimed ==
    ASSUME EditsAimed, NEW q \in EditReqs, FileEditStep(q)
    PROVE  EditsAimed'
<1>0. /\ efile \in [EditFiles -> EditContents] /\ elocks \in SUBSET EditPaths /\ etemps \in SUBSET EditReqs
      /\ elink \in EditFiles /\ edits \in [EditReqs -> EditRows] /\ Aimed(edits[q])
  BY DEF EditsAimed, EditTypes
<1>1. PICK e \in EditRows : e = edits[q]
  BY <1>0
<1>2. \A p \in EditPaths : ResolveMachinePath(p) \in EditFiles
  BY <1>0 DEF EditPaths, ResolveMachinePath
<1>3. CASE edits[q].at = "none" /\ SendEdit(q)
  <2>1. PICK a \in EditActions, p \in EditPaths :
            /\ edits' = [edits EXCEPT ![q] = [@ EXCEPT !.at = "resolve", !.action = a, !.path = p,
                                                       !.expected = efile[ResolveMachinePath(p)]]]
            /\ UNCHANGED <<efile, elink, elocks, etemps, esaves>>
    BY <1>3 DEF SendEdit
  <2>2. PICK x \in EditContents : x = efile[ResolveMachinePath(p)]
    BY <1>0, <1>2
  <2> DEFINE r == [e EXCEPT !.at = "resolve", !.action = a, !.path = p, !.expected = x]
  <2>3. r \in EditRows /\ r.at = "resolve" /\ r.path = p
    BY DEF EditRows, EditSteps
  <2>4. Becomes(q, r)
    BY <1>0, <1>1, <2>1, <2>2 DEF Becomes
  <2> HIDE DEF r
  <2>5. Aimed(r)
    BY <2>3 DEF Aimed
  <2> QED
    BY <1>0, <2>1, <2>3, <2>4, <2>5, AimedGoes
<1>4. CASE edits[q].at = "resolve" /\ ResolveFileEditLockTarget(q)
  <2>1. PICK p \in EditPaths : p = IF e.action = "create" THEN e.path ELSE ResolveMachinePath(e.path)
    BY <1>0, <1>1, <1>2, <1>4 DEF Aimed, EditPaths
  <2> DEFINE r == [e EXCEPT !.at = "lock", !.lock = p]
  <2>2. r \in EditRows /\ r.at = "lock" /\ r.lock = p /\ r.path = e.path
    BY DEF EditRows, EditSteps
  <2>3. CASE Ends(q, "failed")
    BY <1>4, <2>3, AimedEnds DEF ResolveFileEditLockTarget
  <2>4. CASE Becomes(q, r) /\ UNCHANGED <<elocks, etemps>>
    <3> HIDE DEF r
    <3>1. Aimed(r)
      BY <1>0, <1>1, <1>4, <2>2 DEF Aimed
    <3> QED
      BY <1>0, <1>4, <2>2, <2>4, <3>1, AimedGoes DEF ResolveFileEditLockTarget
  <2> QED
    BY <1>0, <1>1, <1>4, <2>1, <2>3, <2>4 DEF ResolveFileEditLockTarget, Becomes
<1>5. CASE edits[q].at = "lock" /\ FileEditLock(q)
  <2>1. elocks' \in SUBSET EditPaths /\ Passes(q, "plan")
    BY <1>0, <1>5 DEF FileEditLock, Aimed
  <2> QED
    BY <1>0, <1>5, <2>1, AimedPasses DEF FileEditLock, EditSteps, Holding
<1>6. CASE edits[q].at = "plan" /\ PlanFileEdit(q)
  <2>1. PICK t \in EditFiles : t = ResolveMachinePath(e.path)
    BY <1>0, <1>1, <1>2, <1>6 DEF Aimed
  <2>2. CASE \E how \in {"failed", "conflict", "shown"} : Ends(q, how)
    BY <1>6, <2>2, AimedEnds DEF PlanFileEdit
  <2>3. CASE /\ efile[t] # Absent /\ UNCHANGED <<elocks, etemps>>
             /\ edits' = [edits EXCEPT ![q] = [@ EXCEPT !.at = "temp", !.target = t,
                                                        !.after = efile[t] \cup {q}]]
    <3>1. efile[t] \in EditContents
      BY <1>0
    <3>2. PICK a \in SUBSET Changes : a = efile[t] \cup {q}
      BY <2>3, <3>1 DEF EditContents, Changes
    <3> DEFINE r == [e EXCEPT !.at = "temp", !.target = t, !.after = a]
    <3>3. r \in EditRows /\ r.at = "temp"
      BY DEF EditRows, EditSteps, Holding, EditPaths
    <3>4. Becomes(q, r)
      BY <1>0, <1>1, <2>3, <3>2 DEF Becomes
    <3> HIDE DEF r
    <3> QED
      BY <1>0, <1>6, <2>3, <3>3, <3>4, AimedGoes DEF PlanFileEdit, Aimed
  <2> QED
    BY <1>1, <1>6, <2>1, <2>2, <2>3 DEF PlanFileEdit
<1>7. CASE edits[q].at = "plan" /\ PlanFileCreate(q)
  <2>1. CASE Ends(q, "exists")
    BY <1>7, <2>1, AimedEnds DEF PlanFileCreate
  <2>2. CASE /\ UNCHANGED <<elocks, etemps>>
             /\ edits' = [edits EXCEPT ![q] = [@ EXCEPT !.at = "temp", !.target = e.path, !.after = {q}]]
    <3> DEFINE r == [e EXCEPT !.at = "temp", !.target = e.path, !.after = {q}]
    <3>1. e.path \in EditPaths /\ {q} \in SUBSET Changes
      BY <1>0, <1>1, <1>7 DEF Aimed, Changes
    <3>2. r \in EditRows /\ r.at = "temp"
      BY <3>1 DEF EditRows, EditSteps, Holding
    <3>3. Becomes(q, r)
      BY <1>0, <1>1, <2>2 DEF Becomes
    <3> HIDE DEF r
    <3> QED
      BY <1>0, <1>7, <2>2, <3>2, <3>3, AimedGoes DEF PlanFileCreate, Aimed
  <2> QED
    BY <1>1, <1>7, <2>1, <2>2 DEF PlanFileCreate
<1>8. CASE edits[q].at = "temp" /\ WritePreparedEdit(q)
  <2>1. CASE Ends(q, "failed")
    BY <1>8, <2>1, AimedEnds DEF WritePreparedEdit
  <2>2. CASE \E at \in {"look", "check"} : Passes(q, at) /\ etemps' = etemps \cup {q} /\ UNCHANGED elocks
    BY <1>0, <1>8, <2>2, AimedPasses DEF WritePreparedEdit, EditSteps, Holding
  <2> QED
    BY <1>8, <2>1, <2>2 DEF WritePreparedEdit
<1>9. CASE edits[q].at = "check" /\ BoundedFileSHA256(q)
  <2>1. CASE Ends(q, "conflict")
    BY <1>9, <2>1, AimedEnds DEF BoundedFileSHA256
  <2>2. CASE Passes(q, "rename") /\ UNCHANGED <<elocks, etemps>>
    BY <1>0, <1>9, <2>2, AimedPasses DEF BoundedFileSHA256, EditSteps, Holding
  <2> QED
    BY <1>9, <2>1, <2>2 DEF BoundedFileSHA256
<1>10. ASSUME efile' = [efile EXCEPT ![edits[q].target] = edits[q].after], etemps' = etemps \ {q},
              Passes(q, "sync"), UNCHANGED <<elocks, elink, esaves>>
       PROVE  EditsAimed'
  <2>1. e.after \in EditContents
    BY DEF EditRows, EditContents
  <2>2. efile' \in [EditFiles -> EditContents]
    BY <1>0, <1>1, <1>10, <2>1
  <2> QED
    BY <1>0, <1>10, <2>2, AimedPasses DEF EditSteps, Holding
<1>11. CASE edits[q].at = "rename" /\ WriteAtomicEditedFile(q)
  BY <1>10, <1>11, AimedEnds DEF WriteAtomicEditedFile
<1>12. CASE edits[q].at = "look" /\ LookAgain(q)
  <2>1. CASE Ends(q, "exists")
    BY <1>12, <2>1, AimedEnds DEF LookAgain
  <2>2. CASE Passes(q, "link") /\ UNCHANGED <<elocks, etemps>>
    BY <1>0, <1>12, <2>2, AimedPasses DEF LookAgain, EditSteps, Holding
  <2> QED
    BY <1>12, <2>1, <2>2 DEF LookAgain
<1>13. CASE edits[q].at = "link" /\ WriteAtomicCreatedFile(q)
  BY <1>10, <1>13, AimedEnds DEF WriteAtomicCreatedFile
<1>14. CASE edits[q].at = "sync" /\ SyncEditedParent(q)
  BY <1>14, AimedEnds DEF SyncEditedParent
<1> QED
  BY <1>3, <1>4, <1>5, <1>6, <1>7, <1>8, <1>9, <1>11, <1>12, <1>13, <1>14 DEF FileEditStep

\* The types of the writer of files.
LEMMA EditsAimedIs ==
    /\ FileEditInit => EditsAimed
    /\ EditsAimed /\ [FileEditNext]_fileEditVars => EditsAimed'
    /\ EditsAimed => FileEditTypeOK
<1>0. Cardinality(EditSaves) \in Nat
  BY FileEditAssumption, FS_CardinalityType
<1>1. ASSUME FileEditInit PROVE EditsAimed
  <2>1. EditTypes
    BY <1>1, EditStarts DEF EditInv
  <2>2. \A q \in EditReqs : edits[q].at = "none"
    BY <1>1, NoEditHere DEF FileEditInit
  <2> QED
    BY <1>0, <1>1, <2>1, <2>2 DEF FileEditInit, EditsAimed, Aimed
<1>2. ASSUME EditsAimed, EditorSaves PROVE EditsAimed'
  <2>1. PICK f \in EditFiles, n \in EditSaves \ esaves.made :
            /\ efile' = [efile EXCEPT ![f] = IF @ = Absent THEN {n} ELSE @ \cup {n}]
            /\ esaves' = [esaves EXCEPT !.made = @ \cup {n},
                              !.late = IF \E q \in EditReqs : edits[q].at = "rename" /\ edits[q].target = f
                                       THEN @ \cup {n} ELSE @]
            /\ UNCHANGED <<elink, edits, elocks, etemps>>
    BY <1>2 DEF EditorSaves
  <2>2. efile \in [EditFiles -> EditContents]
        /\ esaves \in [made : SUBSET EditSaves, late : SUBSET EditSaves, moves : Nat]
    BY <1>2 DEF EditsAimed, EditTypes
  <2>3. efile' \in [EditFiles -> EditContents]
    BY <2>1, <2>2 DEF EditContents, Changes
  <2>4. PICK l \in SUBSET EditSaves : esaves' = [esaves EXCEPT !.made = @ \cup {n}, !.late = l]
    BY <2>1, <2>2
  <2>5. esaves' \in [made : SUBSET EditSaves, late : SUBSET EditSaves, moves : Nat]
        /\ esaves'.moves = esaves.moves
    BY <2>2, <2>4
  <2> QED
    BY <1>2, <2>1, <2>3, <2>5 DEF EditsAimed, EditTypes, Aimed
<1>3. ASSUME EditsAimed, LinkIsMoved PROVE EditsAimed'
  <2>1. esaves \in [made : SUBSET EditSaves, late : SUBSET EditSaves, moves : Nat]
        /\ esaves.moves < Cardinality(EditSaves) /\ esaves' = [esaves EXCEPT !.moves = @ + 1]
    BY <1>3 DEF LinkIsMoved, EditsAimed, EditTypes
  <2>2. esaves' \in [made : SUBSET EditSaves, late : SUBSET EditSaves, moves : Nat]
        /\ esaves'.moves = esaves.moves + 1 /\ esaves.moves \in Nat
    BY <2>1
  <2>3. esaves'.moves <= Cardinality(EditSaves)
    BY <1>0, <2>1, <2>2
  <2> QED
    BY <1>3, <2>2, <2>3 DEF LinkIsMoved, EditsAimed, EditTypes, Aimed
<1>4. ASSUME EditsAimed, NodeIsKilled PROVE EditsAimed'
  <2>1. ASSUME NEW q \in EditReqs PROVE edits'[q] \in EditRows /\ Aimed(edits'[q])
    <3>1. edits'[q] = edits[q] \/ edits'[q] = EditEnded(q, "killed")
      BY <1>4 DEF NodeIsKilled, EditEnded
    <3>2. edits[q] \in EditRows /\ Aimed(edits[q])
      BY <1>4 DEF EditsAimed, EditTypes
    <3>3. EditEnded(q, "killed") \in EditRows /\ EditEnded(q, "killed").at = "over"
      BY <1>4, EndedRow DEF EditsAimed
    <3> QED
      BY <3>1, <3>2, <3>3 DEF Aimed
  <2>2. edits' = [q \in EditReqs |-> edits'[q]]
    BY <1>4 DEF NodeIsKilled
  <2>3. edits' \in [EditReqs -> EditRows]
    BY <2>1, <2>2
  <2> QED
    BY <1>4, <2>1, <2>3 DEF NodeIsKilled, EditsAimed, EditTypes
<1>5. ASSUME EditsAimed, UNCHANGED fileEditVars PROVE EditsAimed'
  BY <1>5 DEF fileEditVars, EditsAimed, EditTypes, Aimed
<1>6. EditsAimed /\ [FileEditNext]_fileEditVars => EditsAimed'
  BY <1>2, <1>3, <1>4, <1>5, RequestAimed DEF FileEditNext
<1>7. ASSUME EditsAimed PROVE FileEditTypeOK
  <2>1. esaves \in [made : SUBSET EditSaves, late : SUBSET EditSaves, moves : Nat]
        /\ esaves.moves \in 0 .. Cardinality(EditSaves)
    BY <1>0, <1>7 DEF EditsAimed, EditTypes
  <2>2. esaves \in [made : SUBSET EditSaves, late : SUBSET EditSaves, moves : 0 .. Cardinality(EditSaves)]
    BY <2>1
  <2>3. \A q \in EditReqs : edits[q] \in EditRows
    BY <1>7 DEF EditsAimed, EditTypes
  <2> QED
    BY <1>7, <2>2, <2>3 DEF EditsAimed, EditTypes, FileEditTypeOK, EditRows, EditSteps, Holding, EditContents
<1> QED
  BY <1>1, <1>6, <1>7

-----------------------------------------------------------------------------
(***************************************************************************)
(* The types of the Claude adapter.                                        *)
(***************************************************************************)
\* The turns and the names of a record, of all records.
RecordWithin(r) == r.turn \in 0 .. MaxClaudeTurns /\ r.result \in 0 .. MaxClaudeTurns /\ r.name \in 0 .. MaxNames
AllWithin(rs) == rs \in [CSessions -> ClaudeRecords] /\ \A s \in CSessions : RecordWithin(rs[s])

\* The bounds of the adapter: its counters are those of sessions and turns.
ClaudeWithin ==
    /\ AllWithin(sessions) /\ AllWithin(index) /\ names \in 0 .. MaxNames
    /\ \A s \in CSessions : crun[s].turn \in 0 .. MaxClaudeTurns
    /\ \A t \in CTurns : turnOf[t] \in 0 .. MaxClaudeSessions
    /\ \A u \in ClaudeUsers : sends[u].previous \in ClaudeRecords /\ RecordWithin(sends[u].previous)

ClaudeTyped == ClaudeInv /\ ClaudeWithin

\* One record is changed.
LEMMA OneWithin ==
    ASSUME NEW rs, AllWithin(rs), NEW s, NEW r, s \in CSessions => r \in ClaudeRecords /\ RecordWithin(r)
    PROVE  AllWithin([rs EXCEPT ![s] = r])
BY DEF AllWithin

\* No session.
LEMMA NoneWithin == NoSession \in ClaudeRecords /\ RecordWithin(NoSession)
BY ClaudeAssumption DEF NoSession, ClaudeRecords, CStatus, RecordWithin

\* A goroutine that starts.
LEMMA NewcomerWithin ==
    ASSUME NEW op \in {"none", "create", "send"}, NEW step \in ClaudeSteps, NEW s \in Nat
    PROVE  LET x == [NoSend EXCEPT !.op = op, !.step = step, !.s = s]
           IN  x \in SendRecords /\ x.previous = NoSession
<1> DEFINE n == NoSend
<1>1. NoSession \in ClaudeRecords
  BY NoneWithin
<1>2. n \in SendRecords /\ n.previous = NoSession
  BY <1>1 DEF NoSend, SendRecords, ClaudeSteps
<1> HIDE DEF n
<1>3. n = NoSend
  BY DEF n
<1> DEFINE x == [n EXCEPT !.op = op, !.step = step, !.s = s]
<1>4. x \in SendRecords /\ x.previous = NoSession
  BY <1>2 DEF SendRecords
<1> QED
  BY <1>3, <1>4

\* The index is saved, or not.
LEMMA SavedWithin ==
    ASSUME AllWithin(index), NEW new, AllWithin(new), NEW outcome, SaveIndexLocked(new, outcome)
    PROVE  AllWithin(index')
BY DEF SaveIndexLocked, AllWithin

\* The records of a step that changes neither runs nor names.
LEMMA RecordsWithin ==
    ASSUME ClaudeTyped, AllWithin(sessions'), AllWithin(index'), names' \in 0 .. MaxNames,
           UNCHANGED turnOf,
           \A s \in CSessions : crun'[s].turn \in {0, crun[s].turn},
           \A u \in ClaudeUsers : sends'[u].previous \in {sends[u].previous, NoSession}
    PROVE  ClaudeWithin'
<1>1. 0 \in 0 .. MaxClaudeTurns
  BY ClaudeAssumption
<1> QED
  BY <1>1, NoneWithin DEF ClaudeTyped, ClaudeWithin

\* Who leaves, goes on or fails keeps what it had.
LEMMA PreviousStays ==
    ASSUME ClaudeTyped, NEW u \in ClaudeUsers,
           \/ Fails(u) \/ Leaves(u) \/ UNCHANGED sends
           \/ \E step \in ClaudeSteps : Steps(u, step)
           \/ \E x \in SendRecords : sends' = [sends EXCEPT ![u] = x] /\ x.previous = NoSession
    PROVE  \A v \in ClaudeUsers : sends'[v].previous \in {sends[v].previous, NoSession}
<1>1. sends \in [ClaudeUsers -> SendRecords]
  BY DEF ClaudeTyped, ClaudeInv, ClaudeTypes, SendRecords
<1>2. NoSend.previous = NoSession
  BY DEF NoSend
<1>3. CASE Leaves(u) \/ UNCHANGED sends
  BY <1>1, <1>2, <1>3 DEF Leaves
<1>4. ASSUME NEW step \in ClaudeSteps, Steps(u, step) PROVE \A v \in ClaudeUsers : sends'[v].previous = sends[v].previous
  <2> DEFINE x == [sends[u] EXCEPT !.step = step]
  <2>1. sends' = [sends EXCEPT ![u] = x]
    BY <1>1, <1>4 DEF Steps
  <2>2. x.previous = sends[u].previous
    BY <1>1 DEF SendRecords
  <2> HIDE DEF x
  <2> QED
    BY <1>1, <2>1, <2>2
<1>5. CASE \E x \in SendRecords : sends' = [sends EXCEPT ![u] = x] /\ x.previous = NoSession
  BY <1>1, <1>5
<1> QED
  BY <1>3, <1>4, <1>5 DEF Fails, ClaudeSteps

\* A run is given back.
LEMMA CleanedWithin ==
    ASSUME ClaudeTyped, NEW u \in ClaudeUsers, CleanupReservation(u) \/ UNCHANGED crun
    PROVE  \A s \in CSessions : crun'[s].turn \in {0, crun[s].turn}
BY DEF ClaudeTyped, ClaudeInv, ClaudeTypes, CleanupReservation, NoRun

\* The goroutines that create and send.
LEMMA UsersWithin ==
    ASSUME ClaudeTyped, NEW u \in ClaudeUsers, ClaudeUserStep(u)
    PROVE  ClaudeWithin'
<1>0. /\ AllWithin(sessions) /\ AllWithin(index) /\ names \in 0 .. MaxNames /\ ClaudeTypes
      /\ sends \in [ClaudeUsers -> SendRecords] /\ sends[u] \in SendRecords /\ SendTrue(u)
      /\ sends[u].previous \in ClaudeRecords /\ RecordWithin(sends[u].previous)
  BY DEF ClaudeTyped, ClaudeWithin, ClaudeInv, ClaudeTypes, SendRecords

<1>1. CASE Create(u)
  <2> DEFINE n == [NoSession EXCEPT !.status = "created"]
             new == [sessions EXCEPT ![made + 1] = n]
             x == [NoSend EXCEPT !.op = "create", !.step = "reserve", !.s = made + 1]
  <2>1. n \in ClaudeRecords /\ RecordWithin(n)
    BY NoneWithin DEF NoSession, ClaudeRecords, CStatus, RecordWithin
  <2>2. AllWithin(new)
    BY <1>0, <2>1, OneWithin
  <2>3. x \in SendRecords /\ x.previous = NoSession
    <3>1. made + 1 \in Nat /\ "reserve" \in ClaudeSteps
      BY <1>0 DEF ClaudeTypes, ClaudeSteps
    <3> QED
      BY <3>1, NewcomerWithin
  <2> HIDE DEF new, x
  <2>4. PICK outcome \in Outcomes : /\ SaveIndexLocked(new, outcome)
                                    /\ sessions' = IF outcome = "uncommitted" THEN sessions ELSE new
                                    /\ sends' = IF outcome = "saved" THEN [sends EXCEPT ![u] = x] ELSE sends
    BY <1>1 DEF Create, new, x
  <2>5. AllWithin(sessions') /\ AllWithin(index')
    BY <1>0, <2>2, <2>4, SavedWithin
  <2>6. \A v \in ClaudeUsers : sends'[v].previous \in {sends[v].previous, NoSession}
    BY <2>3, <2>4, PreviousStays
  <2> QED
    BY <1>0, <1>1, <2>5, <2>6, RecordsWithin DEF Create, runVars
<1>2. CASE \E s \in CSessions : SendToClaude(u, s)
  <2>1. PICK s \in CSessions : SendToClaude(u, s)
    BY <1>2
  <2> DEFINE x == [NoSend EXCEPT !.op = "send", !.step = "reserve", !.s = s]
  <2>2. x \in SendRecords /\ x.previous = NoSession
    <3>1. s \in Nat /\ "reserve" \in ClaudeSteps
      BY ClaudeAssumption DEF CSessions, ClaudeSteps
    <3> QED
      BY <3>1, NewcomerWithin
  <2>3. sends' = [sends EXCEPT ![u] = x]
    BY <2>1 DEF SendToClaude
  <2> HIDE DEF x
  <2>4. \A v \in ClaudeUsers : sends'[v].previous \in {sends[v].previous, NoSession}
    BY <2>2, <2>3, PreviousStays
  <2> QED
    BY <1>0, <2>1, <2>4, RecordsWithin DEF SendToClaude, indexVars, runVars, claudeCount
<1>3. CASE ReserveRun(u)
  <2>1. sends[u].s \in CSessions /\ sends[u].s \in 0 .. MaxClaudeSessions
    BY <1>0, <1>3, ClaudeAssumption DEF ReserveRun, SendTrue, CSessions
  <2>2. CASE Fails(u) /\ UNCHANGED <<crun, turnOf>>
    <3>1. \A v \in ClaudeUsers : sends'[v].previous \in {sends[v].previous, NoSession}
      BY <2>2, PreviousStays
    <3> QED
      BY <1>0, <1>3, <2>2, <3>1, RecordsWithin DEF ReserveRun, indexVars, claudeCount
  <2>3. ASSUME NEW t \in CTurns, crun' = [crun EXCEPT ![sends[u].s] = [NoRun EXCEPT !.turn = t]],
               sends' = [sends EXCEPT ![u].step = "prepare", ![u].turn = t],
               turnOf' = [turnOf EXCEPT ![t] = sends[u].s]
        PROVE  ClaudeWithin'
    <3> DEFINE x == [sends[u] EXCEPT !.step = "prepare", !.turn = t]
    <3>1. sends' = [sends EXCEPT ![u] = x]
      BY <1>0, <2>3
    <3>2. x.previous = sends[u].previous
      BY <1>0 DEF SendRecords
    <3> HIDE DEF x
    <3>3. \A v \in ClaudeUsers : sends'[v].previous = sends[v].previous
      BY <1>0, <3>1, <3>2
    <3>4. \A r \in CSessions : crun'[r].turn \in 0 .. MaxClaudeTurns
      <4>1. [NoRun EXCEPT !.turn = t].turn \in 0 .. MaxClaudeTurns
        BY ClaudeAssumption DEF NoRun, CTurns
      <4> QED
        BY <1>0, <2>3, <4>1 DEF ClaudeTypes, ClaudeTyped, ClaudeWithin
    <3>5. \A v \in CTurns : turnOf'[v] \in 0 .. MaxClaudeSessions
      BY <1>0, <2>1, <2>3 DEF ClaudeTypes, ClaudeTyped, ClaudeWithin
    <3> QED
      BY <1>0, <1>3, <3>3, <3>4, <3>5 DEF ReserveRun, indexVars, claudeCount, ClaudeTyped, ClaudeWithin
  <2> QED
    BY <1>3, <2>2, <2>3 DEF ReserveRun
<1>4. CASE PrepareRun(u)
  <2> DEFINE s == sends[u].s
  <2>1. s \in CSessions /\ sends[u].turn \in CTurns
    BY <1>0, <1>4 DEF PrepareRun, SendTrue
  <2>2. CASE CleanupReservation(u) /\ Fails(u) /\ UNCHANGED <<sessions, index>>
    <3>1. \A v \in ClaudeUsers : sends'[v].previous \in {sends[v].previous, NoSession}
      BY <2>2, PreviousStays
    <3>2. \A r \in CSessions : crun'[r].turn \in {0, crun[r].turn}
      BY <2>2, CleanedWithin
    <3> QED
      BY <1>0, <1>4, <2>2, <3>1, <3>2, RecordsWithin DEF PrepareRun, runVars, claudeCount
  <2> DEFINE run == [sessions[s] EXCEPT !.status = "running", !.turn = sends[u].turn, !.result = 0]
             stop == [run EXCEPT !.status = "interrupted"]
             new == WithRecord(s, run)
             cut == WithRecord(s, stop)
  <2>3. run \in ClaudeRecords /\ RecordWithin(run)
    <3> DEFINE r == sessions[s]
               x == [r EXCEPT !.status = "running", !.turn = sends[u].turn, !.result = 0]
    <3>1. r \in ClaudeRecords /\ RecordWithin(r)
      BY <1>0, <2>1 DEF AllWithin
    <3> HIDE DEF r
    <3>2. sends[u].turn \in 0 .. MaxClaudeTurns /\ sends[u].turn \in Nat /\ 0 \in 0 .. MaxClaudeTurns
      BY <2>1, ClaudeAssumption DEF CTurns
    <3>3. x \in ClaudeRecords /\ x.turn = sends[u].turn /\ x.result = 0 /\ x.name = r.name
      BY <3>1, <3>2 DEF ClaudeRecords, CStatus
    <3>4. x \in ClaudeRecords /\ RecordWithin(x)
      <4> HIDE DEF x
      <4> QED
        BY <3>1, <3>2, <3>3 DEF RecordWithin
    <3> QED
      BY <3>4 DEF r
  <2> HIDE DEF run
  <2>4. stop \in ClaudeRecords /\ RecordWithin(stop)
    <3>1. stop \in ClaudeRecords /\ stop.turn = run.turn /\ stop.result = run.result /\ stop.name = run.name
      BY <2>3 DEF ClaudeRecords, CStatus
    <3> HIDE DEF stop
    <3> QED
      BY <2>3, <3>1 DEF RecordWithin
  <2> HIDE DEF stop
  <2>4a. AllWithin(new) /\ AllWithin(cut)
    BY <1>0, <2>3, <2>4, OneWithin DEF WithRecord
  <2>5. ASSUME NEW outcome \in Outcomes, SaveIndexLocked(new, outcome),
               sessions' = CASE outcome = "saved" -> new
                             [] outcome = "uncommitted" -> sessions
                             [] OTHER -> cut,
               IF outcome = "saved"
               THEN /\ sends' = [sends EXCEPT ![u].step = "start", ![u].previous = sessions[s]]
                    /\ UNCHANGED crun
               ELSE CleanupReservation(u) /\ Fails(u)
        PROVE  ClaudeWithin'
    <3> HIDE DEF new, cut
    <3>1. AllWithin(sessions') /\ AllWithin(index')
      BY <1>0, <2>4a, <2>5, SavedWithin
    <3>2. CASE outcome # "saved"
      <4>1. \A v \in ClaudeUsers : sends'[v].previous \in {sends[v].previous, NoSession}
        BY <2>5, <3>2, PreviousStays
      <4>2. \A r \in CSessions : crun'[r].turn \in {0, crun[r].turn}
        BY <2>5, <3>2, CleanedWithin
      <4> QED
        BY <1>0, <1>4, <3>1, <4>1, <4>2, RecordsWithin DEF PrepareRun, runVars, claudeCount
    <3>3. CASE outcome = "saved"
      <4> DEFINE x == [sends[u] EXCEPT !.step = "start", !.previous = sessions[s]]
      <4>1. sends' = [sends EXCEPT ![u] = x] /\ UNCHANGED crun
        BY <1>0, <2>5, <3>3
      <4>2. x.previous = sessions[s] /\ sessions[s] \in ClaudeRecords /\ RecordWithin(sessions[s])
        BY <1>0, <2>1 DEF SendRecords, AllWithin
      <4> HIDE DEF x
      <4>3. \A v \in ClaudeUsers : sends'[v].previous \in ClaudeRecords /\ RecordWithin(sends'[v].previous)
        BY <1>0, <4>1, <4>2 DEF ClaudeTyped, ClaudeWithin
      <4> QED
        BY <1>0, <1>4, <3>1, <4>1, <4>3 DEF PrepareRun, runVars, claudeCount, ClaudeTyped, ClaudeWithin
    <3> QED
      BY <3>2, <3>3
  <2> QED
    BY <1>4, <2>2, <2>5 DEF PrepareRun, run, stop
<1>5. CASE StartCommand(u)
  <2> DEFINE old == WithRecord(sends[u].s, sends[u].previous)
  <2>1. AllWithin(old)
    BY <1>0, OneWithin DEF WithRecord
  <2> HIDE DEF old
  <2>2. CASE RollBack(u)
    <3>1. PICK outcome \in Outcomes : /\ SaveIndexLocked(old, outcome)
                                      /\ sessions' = IF outcome = "uncommitted" THEN sessions ELSE old
      BY <2>2 DEF RollBack, old
    <3>2. AllWithin(sessions') /\ AllWithin(index')
      BY <1>0, <2>1, <3>1, SavedWithin
    <3>3. \A v \in ClaudeUsers : sends'[v].previous \in {sends[v].previous, NoSession}
      BY <2>2, PreviousStays DEF RollBack
    <3>4. \A r \in CSessions : crun'[r].turn \in {0, crun[r].turn}
      BY <2>2, CleanedWithin DEF RollBack
    <3> QED
      BY <1>0, <1>5, <3>2, <3>3, <3>4, RecordsWithin DEF StartCommand, claudeCount
  <2>3. CASE Steps(u, "started") /\ UNCHANGED <<sessions, index, crun, output>>
    <3>1. \A v \in ClaudeUsers : sends'[v].previous \in {sends[v].previous, NoSession}
      BY <2>3, PreviousStays DEF ClaudeSteps
    <3> QED
      BY <1>0, <1>5, <2>3, <3>1, RecordsWithin DEF StartCommand, claudeCount
  <2> QED
    BY <1>5, <2>2, <2>3 DEF StartCommand
<1>6. CASE CommandStarted(u)
  <2>1. \A v \in ClaudeUsers : sends'[v].previous \in {sends[v].previous, NoSession}
    BY <1>6, PreviousStays DEF CommandStarted
  <2>2. \A r \in CSessions : crun'[r].turn \in {0, crun[r].turn}
    BY <1>0, <1>6 DEF CommandStarted, ClaudeTypes
  <2> QED
    BY <1>0, <1>6, <2>1, <2>2, RecordsWithin DEF CommandStarted, indexVars, claudeCount
<1>7. CASE UndoCreate(u)
  <2> DEFINE without == [sessions EXCEPT ![sends[u].s] = NoSession]
  <2>1. AllWithin(without)
    BY <1>0, NoneWithin, OneWithin
  <2> HIDE DEF without
  <2>2. PICK outcome \in Outcomes : /\ SaveIndexLocked(without, outcome)
                                    /\ sessions' = IF outcome = "uncommitted" THEN sessions ELSE without
    BY <1>7 DEF UndoCreate, without
  <2>3. AllWithin(sessions') /\ AllWithin(index')
    BY <1>0, <2>1, <2>2, SavedWithin
  <2>4. \A v \in ClaudeUsers : sends'[v].previous \in {sends[v].previous, NoSession}
    BY <1>7, PreviousStays DEF UndoCreate
  <2> QED
    BY <1>0, <1>7, <2>3, <2>4, RecordsWithin DEF UndoCreate, runVars, claudeCount
<1> QED
  BY <1>1, <1>2, <1>3, <1>4, <1>5, <1>6, <1>7 DEF ClaudeUserStep

\* One record is changed in its status or its result.
LEMMA ChangedWithin ==
    ASSUME ClaudeTyped, NEW s \in CSessions, NEW r \in ClaudeRecords, RecordWithin(r),
           NEW outcome \in Outcomes, SaveIndexLocked([sessions EXCEPT ![s] = r], outcome),
           sessions' \in {sessions, [sessions EXCEPT ![s] = r]}
    PROVE  AllWithin(sessions') /\ AllWithin(index')
<1> DEFINE new == [sessions EXCEPT ![s] = r]
<1>1. AllWithin(sessions) /\ AllWithin(index)
  BY DEF ClaudeTyped, ClaudeWithin
<1>2. AllWithin(new)
  BY <1>1, OneWithin
<1>3. SaveIndexLocked(new, outcome) /\ sessions' \in {sessions, new}
  OBVIOUS
<1> HIDE DEF new
<1> QED
  BY <1>1, <1>2, <1>3, SavedWithin

\* The process of a turn, its reader and its waiter.
LEMMA TurnsWithin ==
    ASSUME ClaudeTyped, NEW t \in CTurns,
           WriteResult(t) \/ ProcessEnds(t) \/ HandleStreamLine(t) \/ ReadStdout(t) \/ WaitRun(t)
    PROVE  ClaudeWithin'
<1> DEFINE s == turnOf[t]
<1>0. /\ AllWithin(sessions) /\ AllWithin(index) /\ names \in 0 .. MaxNames /\ ClaudeTypes
      /\ TurnTrue(t) /\ sessions \in [CSessions -> ClaudeRecords]
      /\ t \in 0 .. MaxClaudeTurns /\ t \in Nat
  BY ClaudeAssumption DEF ClaudeTyped, ClaudeWithin, ClaudeInv, ClaudeTypes, CTurns
<1>1. CASE WriteResult(t) \/ ProcessEnds(t) \/ ReadStdout(t)
  BY <1>0, <1>1, RecordsWithin
     DEF WriteResult, ProcessEnds, ReadStdout, indexVars, claudeCount
<1>2. CASE HandleStreamLine(t)
  <2>1. CASE UNCHANGED <<sessions, index>>
    BY <1>0, <1>2, <2>1, RecordsWithin DEF HandleStreamLine, claudeCount
  <2>2. CASE sessions[s] # NoSession
    <3>1. s \in CSessions
      BY <1>0, <1>2 DEF TurnTrue, HandleStreamLine
    <3>2. PICK status \in {"completed", "failed"}, outcome \in Outcomes :
            LET new == [sessions EXCEPT ![s].status = status, ![s].result = t]
            IN  sessions' = new /\ SaveIndexLocked(new, outcome)
      BY <1>2, <2>2 DEF HandleStreamLine, SessionExists, PersistIndexAsyncLocked
    <3> DEFINE old == sessions[s]
               r == [old EXCEPT !.status = status, !.result = t]
    <3>3. [sessions EXCEPT ![s].status = status, ![s].result = t] = [sessions EXCEPT ![s] = r]
      BY <1>0, <3>1
    <3>4. old \in ClaudeRecords /\ RecordWithin(old)
      BY <1>0, <3>1 DEF AllWithin
    <3> HIDE DEF old
    <3>5. r \in ClaudeRecords /\ r.turn = old.turn /\ r.name = old.name /\ r.result = t
      BY <1>0, <3>4 DEF ClaudeRecords, CStatus
    <3> HIDE DEF r
    <3>6. RecordWithin(r)
      BY <1>0, <3>4, <3>5 DEF RecordWithin
    <3>7. AllWithin(sessions') /\ AllWithin(index')
      BY <3>1, <3>2, <3>3, <3>5, <3>6, ChangedWithin
    <3> QED
      BY <1>0, <1>2, <3>7, RecordsWithin DEF HandleStreamLine, claudeCount
  <2> QED
    BY <1>2, <2>1, <2>2 DEF HandleStreamLine, SessionExists
<1>3. CASE WaitRun(t)
  <2>1. s \in CSessions
    BY <1>0, <1>3 DEF TurnTrue, WaitRun
  <2>2. \A r \in CSessions : crun'[r].turn \in {0, crun[r].turn}
    BY <1>0, <1>3 DEF WaitRun, ClaudeTypes, NoRun
  <2>3. CASE UNCHANGED <<sessions, index>>
    BY <1>0, <1>3, <2>2, <2>3, RecordsWithin DEF WaitRun, claudeCount
  <2>4. CASE sessions[s] # NoSession
    <3>1. PICK status \in {"completed", "failed"}, outcome \in Outcomes :
            LET new == [sessions EXCEPT ![s].status =
                    IF @ # "running" THEN @ ELSE IF crun[s].canceled THEN "canceled" ELSE status]
            IN  sessions' = new /\ SaveIndexLocked(new, outcome)
      BY <1>3, <2>4 DEF WaitRun, SessionExists, PersistIndexAsyncLocked
    <3> DEFINE old == sessions[s]
               kind == IF old.status # "running" THEN old.status
                       ELSE IF crun[s].canceled THEN "canceled" ELSE status
               r == [old EXCEPT !.status = kind]
    <3>2. old \in ClaudeRecords /\ RecordWithin(old)
      BY <1>0, <2>1 DEF AllWithin
    <3>3. kind \in CStatus
      BY <3>2 DEF ClaudeRecords, CStatus
    <3>4. [sessions EXCEPT ![s].status =
                    IF @ # "running" THEN @ ELSE IF crun[s].canceled THEN "canceled" ELSE status]
              = [sessions EXCEPT ![s] = r]
      BY <1>0, <2>1
    <3> HIDE DEF kind, old
    <3>5. r \in ClaudeRecords /\ r.turn = old.turn /\ r.name = old.name /\ r.result = old.result
      BY <3>2, <3>3 DEF ClaudeRecords
    <3> HIDE DEF r
    <3>6. RecordWithin(r)
      BY <3>2, <3>5 DEF RecordWithin
    <3>7. AllWithin(sessions') /\ AllWithin(index')
      BY <2>1, <3>1, <3>4, <3>5, <3>6, ChangedWithin
    <3> QED
      BY <1>0, <1>3, <2>2, <3>7, RecordsWithin DEF WaitRun, claudeCount
  <2> QED
    BY <1>3, <2>3, <2>4 DEF WaitRun, SessionExists
<1> QED
  BY <1>1, <1>2, <1>3

\* Who cancels, closes, renames or deletes.
LEMMA OthersWithin ==
    ASSUME ClaudeTyped,
           \/ \E s \in CSessions : Cancel(s) \/ Rename(s) \/ DeleteClaudeSession(s)
           \/ CloseClaude
    PROVE  ClaudeWithin'
<1>0. /\ AllWithin(sessions) /\ AllWithin(index) /\ names \in 0 .. MaxNames /\ ClaudeTypes
      /\ sessions \in [CSessions -> ClaudeRecords]
  BY DEF ClaudeTyped, ClaudeWithin, ClaudeInv, ClaudeTypes
<1>1. ASSUME NEW s \in CSessions, Cancel(s) PROVE ClaudeWithin'
  <2>1. \A r \in CSessions : crun'[r].turn = crun[r].turn
    BY <1>0, <1>1 DEF Cancel, ClaudeTypes
  <2> QED
    BY <1>0, <1>1, <2>1, RecordsWithin DEF Cancel, indexVars, claudeCount
<1>2. CASE CloseClaude
  <2>1. \A r \in CSessions : crun'[r].turn = crun[r].turn
    BY <1>0, <1>2 DEF CloseClaude, ClaudeTypes
  <2> QED
    BY <1>0, <1>2, <2>1, RecordsWithin DEF CloseClaude, indexVars, claudeCount
<1>3. ASSUME NEW s \in CSessions, Rename(s) PROVE ClaudeWithin'
  <2> DEFINE old == sessions[s]
             r == [old EXCEPT !.name = names + 1]
  <2>1. names + 1 \in Nat /\ names + 1 \in 0 .. MaxNames
    BY <1>0, <1>3, ClaudeAssumption DEF Rename
  <2>2. old \in ClaudeRecords /\ RecordWithin(old)
    BY <1>0 DEF AllWithin
  <2>3. [sessions EXCEPT ![s].name = names + 1] = [sessions EXCEPT ![s] = r]
    BY <1>0
  <2> HIDE DEF old
  <2>4. r \in ClaudeRecords /\ r.turn = old.turn /\ r.result = old.result /\ r.name = names + 1
    BY <2>1, <2>2 DEF ClaudeRecords
  <2> HIDE DEF r
  <2>5. RecordWithin(r)
    BY <2>1, <2>2, <2>4 DEF RecordWithin
  <2>6. PICK outcome \in Outcomes :
            /\ SaveIndexLocked([sessions EXCEPT ![s] = r], outcome)
            /\ sessions' \in {sessions, [sessions EXCEPT ![s] = r]}
    BY <1>3, <2>3 DEF Rename
  <2>7. AllWithin(sessions') /\ AllWithin(index')
    BY <2>4, <2>5, <2>6, ChangedWithin
  <2>8. names' \in 0 .. MaxNames
    BY <1>3, <2>1 DEF Rename
  <2> QED
    BY <1>0, <1>3, <2>7, <2>8, RecordsWithin DEF Rename, runVars
<1>4. ASSUME NEW s \in CSessions, DeleteClaudeSession(s) PROVE ClaudeWithin'
  <2>1. PICK outcome \in Outcomes :
            /\ SaveIndexLocked([sessions EXCEPT ![s] = NoSession], outcome)
            /\ sessions' \in {sessions, [sessions EXCEPT ![s] = NoSession]}
    BY <1>4 DEF DeleteClaudeSession
  <2>2. AllWithin(sessions') /\ AllWithin(index')
    BY <2>1, NoneWithin, ChangedWithin
  <2> QED
    BY <1>0, <1>4, <2>2, RecordsWithin DEF DeleteClaudeSession, runVars, claudeCount
<1> QED
  BY <1>1, <1>2, <1>3, <1>4

\* The Node starts again.
LEMMA LoadWithin ==
    ASSUME ClaudeTyped, LoadIndex
    PROVE  ClaudeWithin'
<1>0. /\ AllWithin(sessions) /\ AllWithin(index) /\ names \in 0 .. MaxNames /\ ClaudeTypes
  BY DEF ClaudeTyped, ClaudeWithin, ClaudeInv
<1>1. AllWithin(MarkInterrupted(index))
  <2> DEFINE m == MarkInterrupted(index)
  <2>1. ASSUME NEW s \in CSessions PROVE m[s] \in ClaudeRecords /\ RecordWithin(m[s])
    <3> DEFINE old == index[s]
               r == [old EXCEPT !.status = "interrupted"]
    <3>1. old \in ClaudeRecords /\ RecordWithin(old)
      BY <1>0 DEF AllWithin
    <3>2. m[s] \in {old, r}
      BY DEF MarkInterrupted
    <3> HIDE DEF old, m
    <3>3. r \in ClaudeRecords /\ r.turn = old.turn /\ r.result = old.result /\ r.name = old.name
      BY <3>1 DEF ClaudeRecords, CStatus
    <3> HIDE DEF r
    <3> QED
      BY <3>1, <3>2, <3>3 DEF RecordWithin
  <2>2. m = [s \in CSessions |-> m[s]]
    BY DEF MarkInterrupted
  <2> HIDE DEF m
  <2>3. AllWithin(m)
    BY <2>1, <2>2 DEF AllWithin
  <2> QED
    BY <2>3 DEF m
<1>2. AllWithin([s \in CSessions |-> NoSession])
  BY NoneWithin DEF AllWithin
<1>3. AllWithin(sessions') /\ AllWithin(index') /\ names' \in 0 .. MaxNames
  BY <1>0, <1>1, <1>2 DEF LoadIndex
<1>4. \A t \in CTurns : turnOf'[t] \in 0 .. MaxClaudeSessions
  BY DEF LoadIndex, ClaudeTyped, ClaudeWithin
<1>5. \A s \in CSessions : crun'[s].turn \in 0 .. MaxClaudeTurns
  BY ClaudeAssumption DEF LoadIndex, NoRun
<1>6. \A u \in ClaudeUsers : sends'[u].previous = NoSession
  BY DEF LoadIndex, NoSend
<1> QED
  BY <1>3, <1>4, <1>5, <1>6, NoneWithin DEF ClaudeWithin

\* The adapter starts typed, stays typed, and is.
LEMMA ClaudeTypedIs ==
    /\ ClaudeInit => ClaudeTyped
    /\ ClaudeTyped /\ [ClaudeNext]_claudeVars => ClaudeTyped'
    /\ ClaudeTyped => ClaudeTypeOK
<1>1. ASSUME ClaudeInit PROVE ClaudeTyped
  <2>1. AllWithin([s \in CSessions |-> NoSession])
    BY NoneWithin DEF AllWithin
  <2>2. AllWithin(sessions) /\ AllWithin(index) /\ names \in 0 .. MaxNames
    BY <1>1, <2>1, ClaudeAssumption DEF ClaudeInit
  <2>3. \A s \in CSessions : crun[s].turn \in 0 .. MaxClaudeTurns
    BY <1>1, ClaudeAssumption DEF ClaudeInit, NoRun
  <2>4. \A t \in CTurns : turnOf[t] \in 0 .. MaxClaudeSessions
    BY <1>1, ClaudeAssumption DEF ClaudeInit
  <2>5. \A u \in ClaudeUsers : sends[u].previous = NoSession
    BY <1>1 DEF ClaudeInit, NoSend
  <2> QED
    BY <1>1, <2>2, <2>3, <2>4, <2>5, NoneWithin, ClaudeStarts DEF ClaudeTyped, ClaudeWithin
<1>2. ASSUME ClaudeTyped, [ClaudeNext]_claudeVars PROVE ClaudeTyped'
  <2>1. ClaudeInv'
    BY <1>2, ClaudeStep DEF ClaudeTyped
  <2>2. CASE UNCHANGED claudeVars
    BY <1>2, <2>1, <2>2
       DEF claudeVars, indexVars, runVars, claudeCount, ClaudeTyped, ClaudeWithin, AllWithin
  <2>3. CASE ClaudeNext
    BY <1>2, <2>1, <2>3, UsersWithin, TurnsWithin, OthersWithin, LoadWithin
       DEF ClaudeNext, ClaudeTyped
  <2> QED
    BY <1>2, <2>2, <2>3
<1>3. ASSUME ClaudeTyped PROVE ClaudeTypeOK
  <2>1. ASSUME NEW r \in ClaudeRecords, RecordWithin(r) PROVE r \in CRecord
    BY <2>1 DEF ClaudeRecords, RecordWithin, CRecord
  <2>2. ASSUME NEW rs, AllWithin(rs) PROVE rs \in [CSessions -> CRecord]
    BY <2>1, <2>2 DEF AllWithin
  <2>3. sessions \in [CSessions -> CRecord] /\ index \in [CSessions -> CRecord]
    BY <1>3, <2>2 DEF ClaudeTyped, ClaudeWithin
  <2>4. crun \in [CSessions -> [turn : 0 .. MaxClaudeTurns, canceled : BOOLEAN, cmd : BOOLEAN]]
    <3>1. /\ crun \in [CSessions -> [turn : Nat, canceled : BOOLEAN, cmd : BOOLEAN]]
          /\ \A s \in CSessions : crun[s].turn \in 0 .. MaxClaudeTurns
      BY <1>3 DEF ClaudeTyped, ClaudeWithin, ClaudeInv, ClaudeTypes
    <3>2. ASSUME NEW s \in CSessions
          PROVE  crun[s] \in [turn : 0 .. MaxClaudeTurns, canceled : BOOLEAN, cmd : BOOLEAN]
      BY <3>1
    <3> QED
      BY <3>1, <3>2
  <2>5. turnOf \in [CTurns -> 0 .. MaxClaudeSessions]
    <3>1. turnOf \in [CTurns -> Nat] /\ \A t \in CTurns : turnOf[t] \in 0 .. MaxClaudeSessions
      BY <1>3 DEF ClaudeTyped, ClaudeWithin, ClaudeInv, ClaudeTypes
    <3> QED
      BY <3>1
  <2>6. /\ indexErr \in BOOLEAN
        /\ cproc \in [CTurns -> {"none", "live", "dead", "waited", "orphan"}]
        /\ output \in [CTurns -> {"none", "written", "read", "done"}]
    BY <1>3 DEF ClaudeTyped, ClaudeInv, ClaudeTypes
  <2>7. \A u \in ClaudeUsers : sends[u].op \in {"none", "create", "send"}
    <3>1. sends \in [ClaudeUsers -> SendRecords]
      BY <1>3 DEF ClaudeTyped, ClaudeInv, ClaudeTypes, SendRecords
    <3> QED
      BY <3>1 DEF SendRecords
  <2> QED
    BY <2>3, <2>4, <2>5, <2>6, <2>7 DEF ClaudeTypeOK
<1> QED
  BY <1>1, <1>2, <1>3

-----------------------------------------------------------------------------
(***************************************************************************)
(* The types of the visibility of sessions and of the application.         *)
(***************************************************************************)
\* What hides stays typed.
LEMMA VisTypedIs == VisInv => VisTypeOK
  BY DEF VisInv, VTypes, VisTypeOK, Stores, Sidecars, SessionRows, VisRows, VisSteps

\* So does the application.
LEMMA AppTypedIs == AppInv => AppTypeOK
  BY DEF AppInv, AppTyped, AppTypeOK, RuntimeRows, UiRows, UiSteps

-----------------------------------------------------------------------------
(***************************************************************************)
(* The parts of a Node in one behaviour.  agentPart names the part that    *)
(* runs; it keeps its own invariant, and the others stay as they began.    *)
(***************************************************************************)
AgentTypesInv ==
    /\ agentPart = "ledger" => LedgerNamed
    /\ agentPart \in CodexParts => CodexInv /\ GensKnown
    /\ agentPart = "claude" => ClaudeTyped
    /\ agentPart = "visibility" => VisInv
    /\ agentPart = "app" => AppInv
    /\ agentPart = "edits" => EditsAimed

\* The parts of a Node have different names.
LEMMA AgentPartsDiffer ==
    \A p \in CodexParts : p \notin {"ledger", "claude", "visibility", "app", "edits"}
  BY DEF CodexParts

\* Every part begins with its invariant.
LEMMA AgentTypesFirst == AgentInit => AgentTypesInv
  BY LedgerNamedIs, CodexTypedIs, ClaudeTypedIs, VisStarts, AppStarts, EditsAimedIs
     DEF AgentInit, AgentTypesInv

\* A step of the part that runs keeps its invariant.
LEMMA AgentTypesStep == AgentTypesInv /\ [AgentNext]_<<agentPart, agentVars>> => AgentTypesInv'
  <1> SUFFICES ASSUME AgentTypesInv, [AgentNext]_<<agentPart, agentVars>> PROVE AgentTypesInv'
    OBVIOUS
  <1>1. UNCHANGED agentPart
    BY DEF AgentNext
  <1>2. /\ agentPart = "ledger" => [Next]_vars
        /\ agentPart \in CodexParts => [CodexNext]_codexVars
        /\ agentPart = "claude" => [ClaudeNext]_claudeVars
        /\ agentPart = "visibility" => [VisNext]_visVars
        /\ agentPart = "app" => [AppNext]_appVars
        /\ agentPart = "edits" => [FileEditNext]_fileEditVars
    <2>1. CASE AgentNext
      BY <2>1, AgentPartsDiffer DEF AgentNext
    <2>2. CASE UNCHANGED <<agentPart, agentVars>>
      BY <2>2 DEF agentVars
    <2> QED
      BY <2>1, <2>2
  <1>3. /\ agentPart = "ledger" => LedgerNamed'
        /\ agentPart \in CodexParts => (CodexInv /\ GensKnown)'
        /\ agentPart = "claude" => ClaudeTyped'
    BY <1>2, LedgerNamedIs, CodexTypedIs, ClaudeTypedIs DEF AgentTypesInv
  <1>4. /\ agentPart = "visibility" => VisInv'
        /\ agentPart = "app" => AppInv'
        /\ agentPart = "edits" => EditsAimed'
    BY <1>2, VisStays, AppStays, EditsAimedIs DEF AgentTypesInv
  <1> QED
    BY <1>1, <1>3, <1>4 DEF AgentTypesInv, CodexParts

\* Type correctness of the parts of a Node that keep a state of their own, whichever
\* of them runs and whatever fails: no session number, generation, turn or record
\* leaves its range (session_create_store.go, codex_adapter.go, claude_adapter.go,
\* session_visibility.go, the application and the writer of files).
THEOREM AgentStaysTyped == AgentSpec => []AgentTypeOK
  <1>1. AgentTypesInv => AgentTypeOK
    BY LedgerNamedIs, CodexTypedIs, ClaudeTypedIs, VisTypedIs, AppTypedIs, EditsAimedIs
       DEF AgentTypesInv, AgentTypeOK
  <1> QED
    BY <1>1, AgentTypesFirst, AgentTypesStep, PTL DEF AgentSpec
================================================================================
