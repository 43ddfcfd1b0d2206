------------------------------- MODULE HubProofs -------------------------------
(***************************************************************************)
(* Proofs about the parts of the Hub that keep their own state: the result *)
(* pool, the OAuth server, the release feed, the backups, the accounts,    *)
(* and the commands that remove backups and staging directories.           *)
(***************************************************************************)
EXTENDS ResultPool, OAuthServer, ReleaseCache, StagingPrune, Accounts, FiniteSetTheorems, TLAPS

(***************************************************************************)
(* The result pool.  Revisions count: an open result at revision r has the *)
(* pages before r - 1, whoever attached them.                              *)
(***************************************************************************)
PagesAreCounted ==
    /\ result.status = "none" => pages = {}
    /\ result.status = "open" => /\ result.revision \in 1..(Pages + 1)
                                 /\ pages = 0..(result.revision - 2)

\* A request never runs ahead of the revision that its sender has seen.
Behind(kind, page, rev) ==
    /\ kind = "attach" => page \in PageNos /\ page + 1 <= rev
    /\ kind = "commit" => Pages + 1 <= rev

CallsAreBehind ==
    \A p \in Publishers : Behind(publisher[p].step, publisher[p].page, publisher[p].revision)

LateAreBehind == \A r \in late : Behind(r.kind, r.page, r.revision)

\* Who was told that the text is published was told of a result that is over.
PublishedIsOver ==
    \A p \in Publishers : publisher[p].step = "published" => result.status \in Terminal

ResInv == /\ ResTypeOK /\ PagesAreCounted /\ ReadyIsWhole /\ CallsAreBehind /\ LateAreBehind
          /\ PublishedIsOver

\* The number of a page is its own remainder.
LEMMA PageNumber ==
    ASSUME NEW n \in Nat
    PROVE  n % Pages \in PageNos /\ (n \in PageNos => n % Pages = n)
  BY ResAssumption DEF PageNos

\* No result, no call.
LEMMA ResInitInv == ResInit => ResInv
  BY ResAssumption
     DEF ResInit, ResInv, ResTypeOK, PagesAreCounted, ReadyIsWhole, CallsAreBehind, LateAreBehind,
         PublishedIsOver, Behind, NoResult, NoCall, Terminal, PageNos, Requests

\* The Hub executes a request that is not ahead of the result: it was the next
\* page, or every page was there.
LEMMA ExecuteFacts ==
    ASSUME ResInv, NEW r \in Requests, Behind(r.kind, r.page, r.revision), Execute(r)
    PROVE  /\ result' \in [status : {"none", "open"} \cup Terminal, revision : 0..(Pages + 2)]
           /\ pages' \subseteq PageNos /\ PagesAreCounted' /\ ReadyIsWhole'
           /\ result.status = "open" /\ result.revision = r.revision
           /\ result'.status # "none"
  <1> USE ResAssumption DEF ResInv, ResTypeOK, Execute, Accepts, Writable
  <1>1. /\ result.status = "open" /\ result.revision = r.revision
        /\ r.revision \in 1..(Pages + 1) /\ pages = 0..(r.revision - 2)
    BY DEF PagesAreCounted
  <1>2. CASE r.kind = "attach"
    <2>1. /\ r.page \in PageNos /\ r.page + 1 <= r.revision /\ r.page \notin pages
          /\ pages' = pages \cup {r.page}
          /\ result' = [result EXCEPT !.revision = r.revision + 1]
      BY <1>1, <1>2 DEF Behind, AttachResultPage
    <2>2. r.page = r.revision - 1 /\ r.revision \in 1..Pages
      BY <1>1, <2>1 DEF PageNos
    <2>3. /\ result' \in [status : {"none", "open"} \cup Terminal, revision : 0..(Pages + 2)]
          /\ result'.status = "open" /\ result'.revision = r.revision + 1
      BY <1>1, <2>1, <2>2
    <2>4. pages' = 0..(r.revision + 1 - 2)
      BY <1>1, <2>1, <2>2
    <2>5. pages' \subseteq PageNos
      BY <2>2, <2>4 DEF PageNos
    <2>6. PagesAreCounted'
      BY <2>2, <2>3, <2>4 DEF PagesAreCounted
    <2> QED
      BY <1>1, <2>3, <2>5, <2>6 DEF ReadyIsWhole
  <1>3. CASE r.kind = "commit"
    <2>1. r.revision = Pages + 1 /\ result' = [status |-> "ready", revision |-> r.revision + 1]
          /\ pages' = pages
      BY <1>1, <1>3 DEF Behind, CommitResult
    <2> QED
      BY <1>1, <2>1 DEF PagesAreCounted, ReadyIsWhole, PageNos, Terminal
  <1> QED
    BY <1>2, <1>3 DEF Requests

\* The request of a call that attaches or commits is one of the requests, and
\* not ahead.
LEMMA RequestFacts ==
    ASSUME ResInv, NEW p \in Publishers, publisher[p].step \in {"attach", "commit"}
    PROVE  /\ Request(p) \in Requests
           /\ Behind(Request(p).kind, Request(p).page, Request(p).revision)
           /\ Request(p).revision = publisher[p].revision
  <1> DEFINE c == publisher[p]
  <1>1. /\ c.page \in 0..Pages /\ c.revision \in 0..(Pages + 2) /\ c.step \in {"attach", "commit"}
        /\ Behind(c.step, c.page, c.revision)
    BY DEF ResInv, ResTypeOK, CallsAreBehind
  <1>2. c.page % Pages \in PageNos /\ (c.page \in PageNos => c.page % Pages = c.page)
    BY <1>1, PageNumber, ResAssumption
  <1> HIDE DEF c
  <1>3. Request(p) = [kind |-> c.step, page |-> c.page % Pages, revision |-> c.revision]
    BY DEF Request, c
  <1>4. Request(p) \in Requests /\ Request(p).revision = c.revision
    BY <1>1, <1>2, <1>3 DEF Requests
  <1>5. Behind(Request(p).kind, Request(p).page, Request(p).revision)
    BY <1>1, <1>2, <1>3 DEF Behind
  <1> QED
    BY <1>4, <1>5 DEF c

\* A call of PublishCloudResult goes to a step in which it is not ahead.
Calling == [step : {"idle", "attach", "commit", "published", "error"},
            revision : 0..(Pages + 2), page : 0..Pages]

\* The steps of one call that leave the result alone, or execute its request.
LEMMA CallMovesKeeps ==
    ASSUME ResInv, NEW p \in Publishers, NEW c \in Calling,
           publisher' = [publisher EXCEPT ![p] = c], Behind(c.step, c.page, c.revision),
           UNCHANGED <<result, pages>> \/ (\E r \in Requests : /\ Behind(r.kind, r.page, r.revision)
                                                               /\ Execute(r)),
           c.step = "published" => result'.status \in Terminal,
           late' = late \/ (\E r \in Requests : /\ Behind(r.kind, r.page, r.revision)
                                                /\ late' = late \cup {r}),
           UNCHANGED <<calls, retention>>
    PROVE  ResInv' /\ PublishedIsFinal
  <1> USE DEF ResInv
  <1>1. /\ result' \in [status : {"none", "open"} \cup Terminal, revision : 0..(Pages + 2)]
        /\ pages' \subseteq PageNos /\ PagesAreCounted' /\ ReadyIsWhole'
        /\ result'.status = result.status \/ result.status = "open"
    <2>1. CASE UNCHANGED <<result, pages>>
      BY <2>1 DEF ResTypeOK, PagesAreCounted, ReadyIsWhole
    <2>2. CASE \E r \in Requests : Behind(r.kind, r.page, r.revision) /\ Execute(r)
      BY <2>2, ExecuteFacts
    <2> QED
      BY <2>1, <2>2
  <1>2. /\ publisher' \in [Publishers -> Calling] /\ publisher'[p] = c
        /\ \A q \in Publishers \ {p} : publisher'[q] = publisher[q]
    BY DEF ResTypeOK, Calling
  <1>3. ResTypeOK' /\ LateAreBehind'
    BY <1>1, <1>2 DEF ResTypeOK, LateAreBehind, Calling
  <1>4. CallsAreBehind'
    BY <1>2 DEF CallsAreBehind
  <1>5. PublishedIsOver' /\ PublishedIsFinal
    BY <1>1, <1>2 DEF PublishedIsOver, PublishedIsFinal, Terminal
  <1> QED
    BY <1>1, <1>3, <1>4, <1>5

\* PublishBegin opens the result, or finds it as it is.
LEMMA PublishBeginKeeps ==
    ASSUME ResInv, NEW p \in Publishers, PublishBegin(p)
    PROVE  ResInv' /\ PublishedIsFinal
  <1> USE ResAssumption DEF ResInv
  <1>1. /\ result' \in [status : {"none", "open"} \cup Terminal, revision : 0..(Pages + 2)]
        /\ result'.status # "none" /\ PagesAreCounted' /\ ReadyIsWhole'
        /\ result'.status = result.status \/ result.status = "none"
    <2>1. CASE result.status = "none"
      <3>1. result' = [status |-> "open", revision |-> 1] /\ pages' = pages
        BY <2>1 DEF PublishBegin, Created
      <3>2. pages = {}
        BY <2>1 DEF PagesAreCounted
      <3> QED
        BY <2>1, <3>1, <3>2 DEF PagesAreCounted, ReadyIsWhole
    <2>2. CASE result.status # "none"
      BY <2>2 DEF PublishBegin, Created, ResTypeOK, PagesAreCounted, ReadyIsWhole
    <2> QED
      BY <2>1, <2>2
  <1>2. PICK c \in Calling : /\ publisher' = [publisher EXCEPT ![p] = c]
                             /\ Behind(c.step, c.page, c.revision)
                             /\ c.step = "published" => result'.status \in Terminal
    <2>1. CASE Created.status \in Terminal
      <3> DEFINE c == [NoCall EXCEPT !.step = "published"]
      <3>1. c \in Calling /\ Behind(c.step, c.page, c.revision)
        BY DEF Calling, Behind, NoCall
      <3>2. publisher' = [publisher EXCEPT ![p] = c] /\ result'.status \in Terminal
        BY <2>1 DEF PublishBegin
      <3> QED
        BY <3>1, <3>2
    <2>2. CASE Created.status \notin Terminal
      <3>1. result'.status = "open" /\ result'.revision \in 1..(Pages + 1)
        BY <1>1, <2>2 DEF PublishBegin, PagesAreCounted
      <3>2. PICK rev \in 1..(Pages + 1) : result'.revision = rev
        BY <3>1
      <3> DEFINE c == [step |-> "attach", revision |-> rev, page |-> 0]
      <3>3. c \in Calling /\ Behind(c.step, c.page, c.revision)
        BY DEF Calling, Behind, PageNos
      <3>4. publisher' = [publisher EXCEPT ![p] = c]
        BY <2>2, <3>2 DEF PublishBegin
      <3> QED
        BY <3>3, <3>4
    <2> QED
      BY <2>1, <2>2
  <1>3. /\ publisher' \in [Publishers -> Calling] /\ publisher'[p] = c
        /\ \A q \in Publishers \ {p} : publisher'[q] = publisher[q]
    BY <1>2 DEF ResTypeOK, Calling
  <1>4. UNCHANGED <<pages, late, retention>> /\ calls' \in 0..MaxCalls
    BY DEF PublishBegin, ResTypeOK
  <1>5. ResTypeOK' /\ LateAreBehind'
    BY <1>1, <1>3, <1>4 DEF ResTypeOK, LateAreBehind, Calling
  <1>6. CallsAreBehind'
    BY <1>2, <1>3 DEF CallsAreBehind
  <1>7. PublishedIsOver' /\ PublishedIsFinal
    BY <1>1, <1>2, <1>3 DEF PublishedIsOver, PublishedIsFinal, Terminal
  <1> QED
    BY <1>1, <1>5, <1>6, <1>7

\* A call that is over is behind whatever there is.
LEMMA StepFacts ==
    ASSUME ResInv, NEW p \in Publishers, NEW at \in {"published", "error"}, Step(p, at)
    PROVE  \E c \in Calling : /\ publisher' = [publisher EXCEPT ![p] = c]
                              /\ Behind(c.step, c.page, c.revision) /\ c.step = at
  <1>1. PICK d \in Calling : publisher[p] = d
    BY DEF ResInv, ResTypeOK, Calling
  <1> DEFINE c == [d EXCEPT !.step = at]
  <1>2. c \in Calling /\ c.step = at /\ Behind(c.step, c.page, c.revision)
    BY DEF Calling, Behind
  <1>3. publisher' = [publisher EXCEPT ![p] = c]
    BY <1>1 DEF Step, ResInv, ResTypeOK
  <1> QED
    BY <1>2, <1>3

\* A call that goes on has seen a newer revision.
LEMMA GoOnFacts ==
    ASSUME ResInv, NEW p \in Publishers, publisher[p].step = "attach",
           NEW rev \in 0..(Pages + 2), publisher[p].revision < rev,
           GoOn(p, publisher[p].page, rev)
    PROVE  \E c \in Calling : /\ publisher' = [publisher EXCEPT ![p] = c]
                              /\ Behind(c.step, c.page, c.revision) /\ c.step # "published"
  <1>1. PICK d \in Calling : publisher[p] = d
    BY DEF ResInv, ResTypeOK, Calling
  <1>2. d.page \in PageNos /\ d.page + 1 <= d.revision /\ d.revision < rev
    BY <1>1 DEF ResInv, CallsAreBehind, Behind
  <1> DEFINE at == IF d.page + 1 < Pages THEN "attach" ELSE "commit"
             c == [step |-> at, revision |-> rev, page |-> d.page + 1]
  <1>3. c \in Calling /\ Behind(c.step, c.page, c.revision) /\ c.step # "published"
    BY <1>2, ResAssumption DEF Calling, Behind, PageNos
  <1>4. publisher' = [publisher EXCEPT ![p] = c]
    BY <1>1 DEF GoOn
  <1> QED
    BY <1>3, <1>4

\* The rest of a call: it goes on behind the page that it has attached, or it
\* is over.
LEMMA CallKeeps ==
    ASSUME ResInv, NEW p \in Publishers,
           PublishAttach(p) \/ PublishLookup(p) \/ PublishCommit(p) \/ PublishFails(p)
    PROVE  ResInv' /\ PublishedIsFinal
  <1>1. PICK r \in Requests : /\ r = Request(p) /\ Behind(r.kind, r.page, r.revision)
                              /\ r.revision = publisher[p].revision
    <2>1. publisher[p].step \in {"attach", "commit"}
      BY DEF PublishAttach, PublishLookup, PublishCommit, PublishFails
    <2> QED
      BY <2>1, RequestFacts
  <1>2. /\ UNCHANGED <<result, pages>> \/ Execute(r)
        /\ late' = late \/ late' = late \cup {r}
        /\ UNCHANGED <<calls, retention>>
    BY <1>1 DEF PublishAttach, PublishLookup, PublishCommit, PublishFails
  <1>3. result'.revision \in 0..(Pages + 2) /\ r.revision \in 0..(Pages + 2)
        /\ (Execute(r) => r.revision + 1 \in 0..(Pages + 2))
    <2>1. Execute(r) => r.revision = result.revision /\ result.status = "open"
      BY <1>1, ExecuteFacts
    <2>2. Execute(r) => r.revision + 1 \in 0..(Pages + 2)
      BY <2>1, ResAssumption DEF ResInv, PagesAreCounted
    <2>3. result'.revision \in 0..(Pages + 2)
      BY <1>1, <1>2, ExecuteFacts DEF ResInv, ResTypeOK
    <2> QED
      BY <2>2, <2>3 DEF Requests
  <1>4. PICK c \in Calling : /\ publisher' = [publisher EXCEPT ![p] = c]
                             /\ Behind(c.step, c.page, c.revision)
                             /\ c.step = "published" => result'.status \in Terminal
    <2>1. CASE PublishAttach(p)
      <3>1. /\ publisher[p].step = "attach" /\ Execute(r)
            /\ GoOn(p, publisher[p].page, publisher[p].revision + 1)
        BY <1>1, <2>1 DEF PublishAttach
      <3>2. PICK rev \in 0..(Pages + 2) : rev = publisher[p].revision + 1
        BY <1>1, <1>3, <3>1
      <3>3. publisher[p].revision < rev
        BY <1>1, <3>2 DEF Requests
      <3> QED
        BY <3>1, <3>2, <3>3, GoOnFacts
    <2>2. CASE PublishLookup(p)
      <3>1. CASE Step(p, "error")
        BY <3>1, StepFacts
      <3>2. CASE /\ result'.revision > publisher[p].revision
                 /\ GoOn(p, publisher[p].page, result'.revision)
        <4>1. PICK rev \in 0..(Pages + 2) : rev = result'.revision
          BY <1>3
        <4>2. publisher[p].revision < rev /\ publisher[p].step = "attach"
          BY <1>1, <2>2, <3>2, <4>1 DEF PublishLookup, Requests
        <4> QED
          BY <3>2, <4>1, <4>2, GoOnFacts
      <3> QED
        BY <2>2, <3>1, <3>2 DEF PublishLookup
    <2>3. CASE PublishCommit(p)
      <3>1. CASE Step(p, "error")
        BY <3>1, StepFacts
      <3>2. CASE Step(p, "published") /\ result'.status = "ready"
        BY <3>2, StepFacts DEF Terminal
      <3>3. r.kind = "commit"
        BY <1>1, <2>3 DEF PublishCommit, Request
      <3> QED
        BY <1>1, <2>3, <3>1, <3>2, <3>3 DEF PublishCommit, Execute, CommitResult
    <2>4. CASE PublishFails(p)
      BY <2>4, StepFacts DEF PublishFails
    <2> QED
      BY <2>1, <2>2, <2>3, <2>4
  <1> QED
    BY <1>1, <1>2, <1>4, CallMovesKeeps

\* The other steps: a late request, a result that is given up, retention.
LEMMA OthersKeep ==
    ASSUME ResInv, \/ \E r \in late : LateRequest(r)
                   \/ TransitionResult \/ ExpireResult \/ CleanupResults \/ UNCHANGED resVars
    PROVE  ResInv' /\ PublishedIsFinal
  <1> USE ResAssumption DEF ResInv
  <1>1. ASSUME NEW r \in late, LateRequest(r) PROVE ResInv' /\ PublishedIsFinal
    <2>1. /\ r \in Requests /\ Behind(r.kind, r.page, r.revision) /\ Execute(r)
          /\ late' = late \ {r} /\ UNCHANGED <<publisher, calls, retention>>
      BY <1>1 DEF LateRequest, LateAreBehind, ResTypeOK
    <2>2. /\ result' \in [status : {"none", "open"} \cup Terminal, revision : 0..(Pages + 2)]
          /\ pages' \subseteq PageNos /\ PagesAreCounted' /\ ReadyIsWhole'
          /\ result.status = "open"
      BY <2>1, ExecuteFacts
    <2> QED
      BY <2>1, <2>2 DEF ResTypeOK, CallsAreBehind, LateAreBehind, PublishedIsOver,
                        PublishedIsFinal, Terminal
  <1>2. ASSUME TransitionResult PROVE ResInv' /\ PublishedIsFinal
    <2>1. /\ result.status = "open" /\ UNCHANGED <<pages, publisher, late, calls, retention>>
          /\ result.revision \in 1..(Pages + 1)
      BY <1>2 DEF TransitionResult, Writable, PagesAreCounted
    <2>2. PICK at \in {"aborted", "failed"} :
             result' = [result EXCEPT !.status = at, !.revision = @ + 1]
      BY <1>2 DEF TransitionResult
    <2>3. /\ result' \in [status : {"none", "open"} \cup Terminal, revision : 0..(Pages + 2)]
          /\ result'.status = at
      <3>1. result \in [status : {"none", "open"} \cup Terminal, revision : 0..(Pages + 2)]
        BY DEF ResTypeOK
      <3>2. result.revision + 1 \in 0..(Pages + 2) /\ at \in {"none", "open"} \cup Terminal
        BY <2>1 DEF Terminal
      <3> QED
        BY <2>2, <3>1, <3>2
    <2> QED
      BY <2>1, <2>3 DEF ResTypeOK, PagesAreCounted, ReadyIsWhole, CallsAreBehind, LateAreBehind,
                        PublishedIsOver, PublishedIsFinal, Terminal
  <1>3. ASSUME ExpireResult \/ CleanupResults \/ UNCHANGED resVars
        PROVE  ResInv' /\ PublishedIsFinal
    <2>1. UNCHANGED <<result, pages, publisher, late, calls>>
      BY <1>3 DEF ExpireResult, CleanupResults, resVars
    <2>2. retention' \in [expired : BOOLEAN, failed : BOOLEAN]
      BY <1>3 DEF ExpireResult, CleanupResults, resVars, ResTypeOK
    <2> QED
      BY <2>1, <2>2 DEF ResTypeOK, PagesAreCounted, ReadyIsWhole, CallsAreBehind, LateAreBehind,
                        PublishedIsOver, PublishedIsFinal
  <1> QED
    BY <1>1, <1>2, <1>3

(***************************************************************************)
(* A result that is ready has every page, and a call of PublishCloudResult *)
(* that returned one has said the last word about it: for any number of    *)
(* pages and of calls that overlap, retry and leave late requests behind.  *)
(***************************************************************************)
THEOREM ResultsStay == ResSpec => []ReadyIsWhole /\ ResultsAreFinal
  <1>1. ResInv /\ [ResNext]_resVars => ResInv' /\ [ReadyIsWhole' /\ PublishedIsFinal]_resVars
    <2>1. ResInv /\ [ResNext]_resVars => ResInv' /\ PublishedIsFinal
      BY PublishBeginKeeps, CallKeeps, OthersKeep DEF ResNext
    <2> QED
      BY <2>1 DEF ResInv
  <1>2. ResInv => ReadyIsWhole
    BY DEF ResInv
  <1> QED
    BY <1>1, <1>2, ResInitInv, PTL DEF ResSpec, ResultsAreFinal

-----------------------------------------------------------------------------
(***************************************************************************)
(* The OAuth server.                                                       *)
(***************************************************************************)
ClientRows == [row : BOOLEAN, used : BOOLEAN, born : Times, renews : BOOLEAN]
CodeRows == [state : {"none", "pending", "gone"}, client : OClients \cup {Nobody},
             owner : OOwners \cup {Nobody}, until : Times]
GrantRows == [row : BOOLEAN, code : 0..MaxCodes, client : OClients \cup {Nobody},
              owner : OOwners \cup {Nobody}, until : Times,
              revoked : Times \cup {NoTime}, deleted : BOOLEAN]
PairRows == [grant : 0..MaxGrants, born : Times \cup {NoTime}]
Exchanges == [step : {"idle", "client", "create", "save", "undo"},
              client : OClients \cup {Nobody}, owner : OOwners \cup {Nobody},
              code : 0..MaxCodes, grant : 0..MaxGrants, consumed : 0..MaxPairs, now : Times]

\* A code is gone when a request has taken it, and gives one authorization; the
\* requests that have taken codes have different ones.
CodesAreTaken ==
    /\ \A g \in Grants : grant[g].code # 0 => code[grant[g].code].state = "gone"
    /\ \A g, h \in Grants : grant[g].code = grant[h].code /\ grant[g].code # 0 => g = h
    /\ \A r \in OReqs : exchange[r].step = "create" =>
          /\ exchange[r].code # 0 /\ code[exchange[r].code].state = "gone"
          /\ \A g \in Grants : grant[g].code # exchange[r].code
          /\ \A s \in OReqs : exchange[s].step = "create" /\ exchange[s].code = exchange[r].code
                                 => s = r

\* An authorization in the table was given for a code, to a client that is known.
GrantsAreKnown ==
    \A g \in Grants : grant[g].row =>
        grant[g].code # 0 /\ grant[g].client \in OClients /\ client[grant[g].client].row

\* A pair was issued for an authorization, not later than now.
PairsAreIssued ==
    \A p \in Pairs : pair[p].grant # 0 =>
        grant[pair[p].grant].code # 0 /\ pair[p].born \in 0..oauthClock

\* A token row belongs to an authorization that is valid and lives longer.
TokensAreValid ==
    /\ \A p \in accessRow \cup refreshRow :
          /\ pair[p].grant # 0
          /\ grant[pair[p].grant].row /\ grant[pair[p].grant].revoked = NoTime
    /\ \A p \in accessRow : AccessUntil(p) <= grant[pair[p].grant].until
    /\ \A p \in refreshRow : RefreshUntil(p) <= grant[pair[p].grant].until

\* The refresh token of an authorization belongs to its newest pair.
NewestRefreshes ==
    /\ \A p, q \in refreshRow : pair[p].grant = pair[q].grant => p = q
    /\ \A p \in refreshRow, q \in accessRow :
          pair[p].grant = pair[q].grant => pair[q].born <= pair[p].born

\* A request that is about to save a pair: the first one of the authorization
\* that it alone has created, or the next one behind the pair that it has read.
SaversAreSingle ==
    \A r \in OReqs :
        LET x == exchange[r] IN
        /\ x.step # "idle" => x.client \in OClients
        /\ x.step \in {"client", "create"} => x.consumed = 0
        /\ x.step \in {"create", "save", "undo"} => x.now <= oauthClock
        /\ x.step \in {"save", "undo"} => x.grant # 0 /\ grant[x.grant].code # 0
        /\ x.step = "save" /\ x.consumed # 0 =>
              pair[x.consumed].grant = x.grant /\ pair[x.consumed].born <= x.now
        /\ x.step = "save" /\ x.consumed = 0 =>
              /\ \A p \in Pairs : pair[p].grant # x.grant
              /\ \A s \in OReqs : exchange[s].step = "save" /\ exchange[s].consumed = 0
                                     /\ exchange[s].grant = x.grant => s = r

OAuthInv == /\ OAuthTypeOK /\ CodesAreTaken /\ GrantsAreKnown /\ PairsAreIssued
            /\ TokensAreValid /\ NewestRefreshes /\ SaversAreSingle

\* The tables are empty.
LEMMA OAuthInitInv == OAuthInit => OAuthInv
  <1> SUFFICES ASSUME OAuthInit PROVE OAuthInv
    OBVIOUS
  <1> USE OAuthAssumption
      DEF OAuthInit, NoClient, NoCode, NoGrant, NoPair, NoExchange
  <1>1. OAuthTypeOK
    BY DEF OAuthTypeOK, Times, Nobody, NoTime
  <1>2. CodesAreTaken /\ GrantsAreKnown /\ PairsAreIssued
    BY DEF CodesAreTaken, GrantsAreKnown, PairsAreIssued
  <1>3. TokensAreValid /\ NewestRefreshes /\ SaversAreSingle
    BY DEF TokensAreValid, NewestRefreshes, SaversAreSingle
  <1> QED
    BY <1>1, <1>2, <1>3 DEF OAuthInv

\* The invariant is what the properties need.
LEMMA OAuthInvImplies == OAuthInv => TokensAreSound
  BY DEF OAuthInv, TokensAreSound, TokensAreCovered, RedeemedOnce, CodesAreTaken, GrantsAreKnown,
         TokensAreValid, NewestRefreshes, Known, Grants, OAuthTypeOK

(***************************************************************************)
(* A step that issues nothing: tokens go, authorizations are revoked,      *)
(* deleted or hidden, codes are used up, requests end.                     *)
(***************************************************************************)
Ends(x, y) ==
    \/ y = x \/ y.step = "idle" 
    \/ y.step = "client" /\ y.client \in OClients /\ y.consumed = 0
    \/ /\ x.step = "save" /\ y.step = "undo"
       /\ y.grant = x.grant /\ y.client = x.client /\ y.now = x.now

OnlyRemoves ==
    /\ UNCHANGED pair
    /\ oauthClock' \in oauthClock..MaxOAuthClock
    /\ accessRow' \subseteq accessRow /\ refreshRow' \subseteq refreshRow
    /\ client' \in [OClients -> ClientRows] /\ code' \in [Codes -> CodeRows]
    /\ grant' \in [Grants -> GrantRows] /\ exchange' \in [OReqs -> Exchanges]
    /\ \A k \in Codes : code[k].state = "gone" => code'[k].state = "gone"
    /\ \A g \in Grants :
          /\ grant'[g].code = grant[g].code /\ grant'[g].client = grant[g].client
          /\ grant'[g].until = grant[g].until
          /\ grant'[g].row => grant[g].row /\ client'[grant[g].client].row
    /\ \A p \in accessRow' \cup refreshRow' :
          grant'[pair[p].grant].row /\ grant'[pair[p].grant].revoked = NoTime
    /\ \A r \in OReqs : Ends(exchange[r], exchange'[r])

\* Such a step keeps the invariant.
LEMMA OnlyRemovesKeeps == OAuthInv /\ OnlyRemoves => OAuthInv'
  <1> SUFFICES ASSUME OAuthInv, OnlyRemoves PROVE OAuthInv'
    OBVIOUS
  <1> USE DEF OAuthInv
  <1>1. OAuthTypeOK'
    BY OAuthAssumption DEF OAuthTypeOK, OnlyRemoves, ClientRows, CodeRows, GrantRows, Exchanges
  <1>2. CodesAreTaken'
    <2>1. \A g \in Grants : grant[g].code \in 0..MaxCodes
      BY DEF OAuthTypeOK
    <2>2. \A r \in OReqs : exchange[r].code \in 0..MaxCodes
      BY DEF OAuthTypeOK
    <2>3. \A r \in OReqs : exchange'[r].step = "create" => exchange'[r] = exchange[r]
      BY DEF OnlyRemoves, Ends
    <2>4. \A n \in 0..MaxCodes : n # 0 => n \in Codes
      BY OAuthAssumption DEF Codes
    <2>5. /\ \A k \in Codes : code[k].state = "gone" => code'[k].state = "gone"
          /\ \A g \in Grants : grant'[g].code = grant[g].code
      BY DEF OnlyRemoves
    <2>6. \A g \in Grants : grant'[g].code # 0 => code'[grant'[g].code].state = "gone"
      BY <2>1, <2>4, <2>5 DEF CodesAreTaken
    <2>7. \A g, h \in Grants : grant'[g].code = grant'[h].code /\ grant'[g].code # 0 => g = h
      BY <2>5 DEF CodesAreTaken
    <2>8. ASSUME NEW r \in OReqs, exchange'[r].step = "create"
          PROVE  /\ exchange'[r].code # 0 /\ code'[exchange'[r].code].state = "gone"
                 /\ \A g \in Grants : grant'[g].code # exchange'[r].code
                 /\ \A s \in OReqs : exchange'[s].step = "create"
                                       /\ exchange'[s].code = exchange'[r].code => s = r
      <3>1. exchange'[r] = exchange[r] /\ exchange[r].code \in Codes
        BY <2>2, <2>3, <2>4, <2>8 DEF CodesAreTaken
      <3> QED
        BY <2>3, <2>5, <2>8, <3>1 DEF CodesAreTaken
    <2> QED
      BY <2>6, <2>7, <2>8 DEF CodesAreTaken
  <1>3. GrantsAreKnown' /\ PairsAreIssued'
    <2>1. \A p \in Pairs : pair[p].grant # 0 => pair[p].grant \in Grants
      BY DEF OAuthTypeOK, Grants
    <2>2. oauthClock \in 0..MaxOAuthClock
      BY DEF OAuthTypeOK
    <2> QED
      BY <2>1, <2>2, OAuthAssumption DEF OnlyRemoves, GrantsAreKnown, PairsAreIssued
  <1>4. TokensAreValid'
    <2>1. \A p \in accessRow \cup refreshRow : pair[p].grant \in Grants
      BY DEF OAuthTypeOK, Grants, TokensAreValid
    <2>2. \A p \in accessRow' \cup refreshRow' :
              pair'[p].grant # 0 /\ grant'[pair'[p].grant].until = grant[pair[p].grant].until
      BY <2>1 DEF OnlyRemoves, TokensAreValid
    <2>3. \A p \in Pairs : AccessUntil(p)' = AccessUntil(p) /\ RefreshUntil(p)' = RefreshUntil(p)
      BY DEF OnlyRemoves, AccessUntil, RefreshUntil
    <2>4. accessRow' \subseteq Pairs /\ refreshRow' \subseteq Pairs
      BY <1>1 DEF OAuthTypeOK
    <2>5. \A p \in accessRow' \cup refreshRow' :
              grant'[pair'[p].grant].row /\ grant'[pair'[p].grant].revoked = NoTime
      BY DEF OnlyRemoves
    <2>6. \A p \in accessRow' : AccessUntil(p)' <= grant'[pair'[p].grant].until
      BY <2>2, <2>3, <2>4 DEF OnlyRemoves, TokensAreValid
    <2>7. \A p \in refreshRow' : RefreshUntil(p)' <= grant'[pair'[p].grant].until
      BY <2>2, <2>3, <2>4 DEF OnlyRemoves, TokensAreValid
    <2> QED
      BY <2>2, <2>5, <2>6, <2>7 DEF TokensAreValid
  <1>5. NewestRefreshes'
    BY DEF OnlyRemoves, NewestRefreshes
  <1>6. SaversAreSingle'
    <2>1. oauthClock \in 0..MaxOAuthClock /\ \A r \in OReqs : exchange[r].grant \in 0..MaxGrants
                                                        /\ exchange[r].now \in Times
      BY DEF OAuthTypeOK
    <2> SUFFICES ASSUME NEW r \in OReqs
                 PROVE  LET x == exchange'[r] IN
                    /\ x.step # "idle" => x.client \in OClients
                    /\ x.step \in {"client", "create"} => x.consumed = 0
                    /\ x.step \in {"create", "save", "undo"} => x.now <= oauthClock'
                    /\ x.step \in {"save", "undo"} => x.grant # 0 /\ grant'[x.grant].code # 0
                    /\ x.step = "save" /\ x.consumed # 0 =>
                          pair'[x.consumed].grant = x.grant /\ pair'[x.consumed].born <= x.now
                    /\ x.step = "save" /\ x.consumed = 0 =>
                          /\ \A p \in Pairs : pair'[p].grant # x.grant
                          /\ \A s \in OReqs : exchange'[s].step = "save" /\ exchange'[s].consumed = 0
                                                 /\ exchange'[s].grant = x.grant => s = r
      BY DEF SaversAreSingle
    <2>2. \A s \in OReqs : exchange'[s].step = "save" => exchange'[s] = exchange[s]
      BY DEF OnlyRemoves, Ends
    <2>3. exchange[r].step # "idle" => exchange[r].client \in OClients
      BY DEF SaversAreSingle
    <2>4. exchange[r].step \in {"create", "save", "undo"} => exchange[r].now <= oauthClock
      BY DEF SaversAreSingle
    <2>5. exchange[r].step \in {"save", "undo"} =>
             exchange[r].grant # 0 /\ grant[exchange[r].grant].code # 0
      BY DEF SaversAreSingle
    <2>6. exchange[r].step \in {"save", "undo"} => grant'[exchange[r].grant].code # 0
      BY <2>1, <2>5 DEF OnlyRemoves, Grants
    <2>7. oauthClock <= oauthClock' /\ oauthClock' \in Int
      BY <2>1, OAuthAssumption DEF OnlyRemoves
    <2>8. Ends(exchange[r], exchange'[r]) /\ pair' = pair
      BY DEF OnlyRemoves
    <2>9. /\ exchange'[r].step # "idle" => exchange'[r].client \in OClients
          /\ exchange'[r].step \in {"client", "create"} => exchange'[r].consumed = 0
      BY <2>3, <2>8 DEF Ends, SaversAreSingle
    <2>10. exchange'[r].step \in {"create", "save", "undo"} => exchange'[r].now <= oauthClock'
      BY <2>1, <2>4, <2>7, <2>8 DEF Ends, Times
    <2>11. exchange'[r].step \in {"save", "undo"} =>
              exchange'[r].grant # 0 /\ grant'[exchange'[r].grant].code # 0
      BY <2>5, <2>6, <2>8 DEF Ends
    <2> QED
      BY <2>2, <2>8, <2>9, <2>10, <2>11 DEF SaversAreSingle
  <1> QED
    BY <1>1, <1>2, <1>3, <1>4, <1>5, <1>6

\* What a step of this kind leaves alone, most do.
LEMMA TypesNow ==
    ASSUME OAuthInv
    PROVE  /\ oauthClock \in 0..MaxOAuthClock /\ oauthClock \in oauthClock..MaxOAuthClock
           /\ oauthClock \in Times /\ oauthClock + CodeTTL \in Times
           /\ client \in [OClients -> ClientRows] /\ code \in [Codes -> CodeRows]
           /\ grant \in [Grants -> GrantRows] /\ pair \in [Pairs -> PairRows]
           /\ exchange \in [OReqs -> Exchanges]
           /\ accessRow \subseteq Pairs /\ refreshRow \subseteq Pairs
           /\ \A r \in OReqs : Ends(exchange[r], exchange[r])
           /\ \A g \in Grants : grant[g].row => client[grant[g].client].row
           /\ \A p \in accessRow \cup refreshRow :
                 /\ pair[p].grant \in Grants
                 /\ grant[pair[p].grant].row /\ grant[pair[p].grant].revoked = NoTime
  <1>1. /\ oauthClock \in 0..MaxOAuthClock
        /\ client \in [OClients -> ClientRows] /\ code \in [Codes -> CodeRows]
        /\ grant \in [Grants -> GrantRows] /\ pair \in [Pairs -> PairRows]
        /\ exchange \in [OReqs -> Exchanges]
        /\ accessRow \subseteq Pairs /\ refreshRow \subseteq Pairs
    BY DEF OAuthInv, OAuthTypeOK, ClientRows, CodeRows, GrantRows, PairRows, Exchanges
  <1>2. /\ oauthClock \in oauthClock..MaxOAuthClock
        /\ oauthClock \in Times /\ oauthClock + CodeTTL \in Times
    BY <1>1, OAuthAssumption DEF Times
  <1>3. \A p \in accessRow \cup refreshRow :
           /\ pair[p].grant \in Grants
           /\ grant[pair[p].grant].row /\ grant[pair[p].grant].revoked = NoTime
    <2>1. \A p \in Pairs : pair[p].grant # 0 => pair[p].grant \in Grants
      BY <1>1, OAuthAssumption DEF PairRows, Grants
    <2> QED
      BY <1>1, <2>1 DEF OAuthInv, TokensAreValid
  <1> QED
    BY <1>1, <1>2, <1>3 DEF Ends, OAuthInv, GrantsAreKnown

\* A row that stays or goes is a row.
AsRow(x, b) == [x EXCEPT !.row = b]

LEMMA RowStaysOrGoes ==
    ASSUME NEW b \in BOOLEAN
    PROVE  /\ \A x \in ClientRows : AsRow(x, b) \in ClientRows /\ AsRow(x, b).row = b
           /\ \A x \in GrantRows :
                 /\ AsRow(x, b) \in GrantRows /\ AsRow(x, b).row = b
                 /\ AsRow(x, b).code = x.code /\ AsRow(x, b).client = x.client
                 /\ AsRow(x, b).until = x.until /\ AsRow(x, b).revoked = x.revoked
  BY DEF ClientRows, GrantRows, AsRow

\* The clock, registrations and approvals issue nothing.
LEMMA FrontRemoves ==
    ASSUME OAuthInv, OAuthTick \/ OAuthRegister \/ OAuthAuthorize \/ UNCHANGED oauthVars
    PROVE  OnlyRemoves
  <1> USE TypesNow DEF OnlyRemoves, tokenRows
  <1>1. ASSUME OAuthTick \/ UNCHANGED oauthVars PROVE OnlyRemoves
    BY <1>1, OAuthAssumption DEF OAuthTick, oauthVars
  <1>2. ASSUME OAuthRegister PROVE OnlyRemoves
    <2>1. PICK c \in OClients, renews \in BOOLEAN : RegisterOAuthClient(c, renews)
      BY <1>2 DEF OAuthRegister
    <2> DEFINE gone == Forgettable(OClients, Rows, accessRow \cup refreshRow)
    <2>2. \A g \in Grants : grant[g].row => grant[g].client \notin gone
      BY DEF Forgettable, Rows
    <2> HIDE DEF gone
    <2>3. client' = [d \in OClients |->
             IF d = c THEN [row |-> TRUE, used |-> TRUE, born |-> oauthClock, renews |-> renews]
             ELSE [client[d] EXCEPT !.row = @ /\ d \notin gone]]
      BY <2>1 DEF RegisterOAuthClient, gone
    <2>4. client' \in [OClients -> ClientRows]
      <3>1. [row |-> TRUE, used |-> TRUE, born |-> oauthClock, renews |-> renews] \in ClientRows
        BY DEF ClientRows
      <3>2. ASSUME NEW d \in OClients
            PROVE  [client[d] EXCEPT !.row = @ /\ d \notin gone] \in ClientRows
        <4> DEFINE b == client[d].row /\ d \notin gone
        <4>1. b \in BOOLEAN /\ client[d] \in ClientRows
          BY DEF ClientRows
        <4>2. AsRow(client[d], b) \in ClientRows
          BY <4>1, RowStaysOrGoes
        <4> QED
          BY <4>2 DEF AsRow
      <3> QED
        BY <2>3, <3>1, <3>2
    <2>5. \A d \in OClients : client[d].row /\ d \notin gone => client'[d].row
      BY <2>3 DEF ClientRows
    <2>6. \A g \in Grants : grant[g].row => grant[g].client \in OClients
      BY DEF OAuthInv, GrantsAreKnown
    <2> QED
      BY <1>2, <2>2, <2>4, <2>5, <2>6 DEF OAuthRegister
  <1>3. ASSUME OAuthAuthorize PROVE OnlyRemoves
    <2>1. PICK c \in OClients, o \in OOwners, k \in Codes :
             /\ code[k].state = "none"
             /\ code' = [Pruned EXCEPT ![k] = [state |-> "pending", client |-> c, owner |-> o,
                                               until |-> oauthClock + CodeTTL]]
      BY <1>3 DEF OAuthAuthorize
    <2>2. Pruned \in [Codes -> CodeRows] /\ \A j \in Codes : code[j].state = "gone" => Pruned[j].state = "gone"
      BY DEF Pruned, CodeRows
    <2>3. [state |-> "pending", client |-> c, owner |-> o, until |-> oauthClock + CodeTTL] \in CodeRows
      BY DEF CodeRows
    <2>4. code' \in [Codes -> CodeRows] /\ \A j \in Codes : code[j].state = "gone" => code'[j].state = "gone"
      BY <2>1, <2>2, <2>3
    <2> QED
      BY <1>3, <2>4 DEF OAuthAuthorize
  <1> QED
    BY <1>1, <1>2, <1>3

\* RevokeGrant takes the tokens with the authorization.
LEMMA RevokeRemoves ==
    ASSUME OAuthInv, NEW g \in Grants, NEW now \in Times, RevokeGrant(g, now)
    PROVE  /\ UNCHANGED pair /\ accessRow' \subseteq accessRow /\ refreshRow' \subseteq refreshRow
           /\ grant' \in [Grants -> GrantRows]
           /\ \A h \in Grants :
                 /\ grant'[h].code = grant[h].code /\ grant'[h].client = grant[h].client
                 /\ grant'[h].until = grant[h].until /\ grant'[h].row = grant[h].row
           /\ \A p \in accessRow' \cup refreshRow' :
                 grant'[pair[p].grant].row /\ grant'[pair[p].grant].revoked = NoTime
  <1> USE TypesNow
  <1>1. grant' = [grant EXCEPT ![g].revoked = now]
    BY DEF RevokeGrant
  <1>2. grant' \in [Grants -> GrantRows]
    BY <1>1 DEF GrantRows
  <1>3. \A h \in Grants :
           /\ grant'[h].code = grant[h].code /\ grant'[h].client = grant[h].client
           /\ grant'[h].until = grant[h].until /\ grant'[h].row = grant[h].row
           /\ h # g => grant'[h] = grant[h]
    BY <1>1 DEF GrantRows
  <1>4. \A p \in accessRow' \cup refreshRow' : pair[p].grant # g
    BY DEF RevokeGrant, TokensOf
  <1>5. UNCHANGED pair /\ accessRow' \subseteq accessRow /\ refreshRow' \subseteq refreshRow
    BY DEF RevokeGrant
  <1> QED
    BY <1>2, <1>3, <1>4, <1>5

\* Requests that begin, end or undo what they did.
LEMMA RequestsRemove ==
    ASSUME OAuthInv, NEW r \in OReqs, TokenRequest(r) \/ UndoGrant(r) \/ DropRequest(r)
    PROVE  OnlyRemoves
  <1> USE TypesNow DEF OnlyRemoves, tokenRows
  <1>1. NoExchange \in Exchanges /\ NoExchange.step = "idle"
    BY OAuthAssumption DEF NoExchange, Exchanges, Times
  <1>2. ASSUME TokenRequest(r) PROVE OnlyRemoves
    <2>1. PICK c \in OClients :
             exchange' = [exchange EXCEPT ![r] = [NoExchange EXCEPT !.step = "client", !.client = c]]
      BY <1>2, Zenon DEF TokenRequest
    <2> DEFINE x == [NoExchange EXCEPT !.step = "client", !.client = c]
    <2>2. x \in Exchanges /\ x.step = "client" /\ x.client = c /\ x.consumed = 0
      BY <1>1 DEF Exchanges, NoExchange
    <2> HIDE DEF x
    <2>3. exchange' \in [OReqs -> Exchanges] /\ \A s \in OReqs : Ends(exchange[s], exchange'[s])
      BY <2>1, <2>2 DEF Ends, x
    <2> QED
      BY <1>2, <2>3 DEF TokenRequest
  <1>3. ASSUME exchange' = [exchange EXCEPT ![r] = NoExchange]
        PROVE  exchange' \in [OReqs -> Exchanges] /\ \A s \in OReqs : Ends(exchange[s], exchange'[s])
    BY <1>1, <1>3 DEF Ends
  <1>4. ASSUME DropRequest(r) PROVE OnlyRemoves
    BY <1>3, <1>4 DEF DropRequest
  <1>5. ASSUME UndoGrant(r) PROVE OnlyRemoves
    <2>0. exchange[r].grant # 0
      BY <1>5 DEF UndoGrant, OAuthInv, SaversAreSingle
    <2>1. PICK g \in Grants, now \in Times : g = exchange[r].grant /\ now = exchange[r].now
      BY <2>0, OAuthAssumption DEF Exchanges, Grants
    <2>2. CASE RevokeGrant(g, now)
      BY <1>3, <1>5, <2>1, <2>2, RevokeRemoves DEF UndoGrant
    <2>3. CASE UNCHANGED <<grant, tokenRows>>
      BY <1>3, <1>5, <2>3 DEF UndoGrant
    <2> QED
      BY <1>5, <2>1, <2>2, <2>3 DEF UndoGrant
  <1> QED
    BY <1>2, <1>4, <1>5

\* An authorization with another time of revocation is a row, and so is one
\* that its owner has hidden.
LEMMA RevokedIsARow ==
    ASSUME NEW x \in GrantRows, NEW t \in Times \cup {NoTime}
    PROVE  /\ [x EXCEPT !.revoked = t] \in GrantRows
           /\ [x EXCEPT !.deleted = TRUE] \in GrantRows
  BY DEF GrantRows

\* Owners and clients that revoke, hide or delete.
LEMMA OwnersRemove ==
    ASSUME OAuthInv, OAuthRevoke \/ AppAuthorizationRevoke \/ AppAuthorizationDelete
    PROVE  OnlyRemoves
  <1> USE TypesNow DEF OnlyRemoves, tokenRows
  <1>1. ASSUME OAuthRevoke PROVE OnlyRemoves
    <2>1. PICK p \in Pairs : RevokeOAuthToken(p)
      BY <1>1 DEF OAuthRevoke
    <2>2. PICK g \in Grants : g = pair[p].grant
      BY <2>1 DEF RevokeOAuthToken
    <2>3. PICK t \in Times \cup {NoTime} : grant' = [grant EXCEPT ![g].revoked = t]
      <3> DEFINE t == IF grant[g].row /\ grant[g].revoked = NoTime /\ ~grant[g].deleted
                      THEN oauthClock ELSE grant[g].revoked
      <3>1. t \in Times \cup {NoTime}
        BY DEF GrantRows
      <3>2. grant' = [grant EXCEPT ![g].revoked = t]
        BY <2>1, <2>2 DEF RevokeOAuthToken
      <3> HIDE DEF t
      <3> QED
        BY <3>1, <3>2
    <2>4. grant' \in [Grants -> GrantRows]
      <3>1. grant[g] \in GrantRows
        OBVIOUS
      <3>2. [grant[g] EXCEPT !.revoked = t] \in GrantRows
        BY <3>1, RevokedIsARow
      <3> QED
        BY <2>3, <3>2
    <2>5. \A h \in Grants :
             /\ grant'[h].code = grant[h].code /\ grant'[h].client = grant[h].client
             /\ grant'[h].until = grant[h].until /\ grant'[h].row = grant[h].row
             /\ h # g => grant'[h] = grant[h]
      BY <2>3 DEF GrantRows
    <2>6. /\ accessRow' \subseteq accessRow /\ refreshRow' \subseteq refreshRow
          /\ \A q \in accessRow' \cup refreshRow' : pair[q].grant # g
      BY <2>1, <2>2 DEF RevokeOAuthToken, TokensOf
    <2> QED
      BY <1>1, <2>4, <2>5, <2>6 DEF OAuthRevoke
  <1>2. ASSUME AppAuthorizationRevoke PROVE OnlyRemoves
    <2>1. PICK g \in Grants, now \in Times : RevokeGrant(g, now)
      BY <1>2 DEF AppAuthorizationRevoke
    <2> QED
      BY <1>2, <2>1, RevokeRemoves DEF AppAuthorizationRevoke
  <1>3. ASSUME AppAuthorizationDelete PROVE OnlyRemoves
    <2>1. PICK g \in Grants : grant' = [grant EXCEPT ![g].deleted = TRUE]
      BY <1>3 DEF AppAuthorizationDelete, DeleteOAuthAuthorization
    <2>2. grant' \in [Grants -> GrantRows]
      <3>1. grant[g] \in GrantRows /\ NoTime \in Times \cup {NoTime}
        OBVIOUS
      <3>2. [grant[g] EXCEPT !.deleted = TRUE] \in GrantRows
        BY <3>1, RevokedIsARow
      <3> QED
        BY <2>1, <3>2
    <2>3. \A h \in Grants :
             /\ grant'[h].code = grant[h].code /\ grant'[h].client = grant[h].client
             /\ grant'[h].until = grant[h].until /\ grant'[h].row = grant[h].row
             /\ grant'[h].revoked = grant[h].revoked
      BY <2>1 DEF GrantRows
    <2> QED
      BY <1>3, <2>2, <2>3 DEF AppAuthorizationDelete
  <1> QED
    BY <1>1, <1>2, <1>3

\* Authorizations that leave the table with their tokens, and clients that
\* nothing in the table refers to any more.
LEMMA RowsGo ==
    ASSUME OAuthInv, NEW off, NEW lostClients,
           grant' = [g \in Grants |-> [grant[g] EXCEPT !.row = @ /\ g \notin off]],
           client' = [c \in OClients |-> [client[c] EXCEPT !.row = @ /\ c \notin lostClients]],
           \A g \in Grants : grant[g].row /\ g \notin off => grant[g].client \notin lostClients,
           accessRow' \subseteq accessRow, refreshRow' \subseteq refreshRow,
           \A p \in accessRow' \cup refreshRow' : pair[p].grant \notin off,
           UNCHANGED <<oauthClock, code, pair, exchange>>
    PROVE  OnlyRemoves
  <1> USE TypesNow
  <1>1. ASSUME NEW g \in Grants
        PROVE  /\ grant'[g] \in GrantRows
               /\ grant'[g].code = grant[g].code /\ grant'[g].client = grant[g].client
               /\ grant'[g].until = grant[g].until /\ grant'[g].revoked = grant[g].revoked
               /\ grant'[g].row <=> grant[g].row /\ g \notin off
    <2> DEFINE b == grant[g].row /\ g \notin off
    <2>1. b \in BOOLEAN /\ grant[g] \in GrantRows
      BY DEF GrantRows
    <2>2. grant'[g] = AsRow(grant[g], b)
      BY DEF AsRow
    <2> HIDE DEF b
    <2>3. /\ grant'[g] \in GrantRows
          /\ grant'[g].code = grant[g].code /\ grant'[g].client = grant[g].client
          /\ grant'[g].until = grant[g].until /\ grant'[g].revoked = grant[g].revoked
          /\ grant'[g].row = b
      BY <2>1, <2>2, RowStaysOrGoes
    <2> QED
      BY <2>3 DEF b
  <1>2. ASSUME NEW c \in OClients
        PROVE  client'[c] \in ClientRows /\ (client'[c].row <=> client[c].row /\ c \notin lostClients)
    <2> DEFINE b == client[c].row /\ c \notin lostClients
    <2>1. b \in BOOLEAN /\ client[c] \in ClientRows
      BY DEF ClientRows
    <2>2. client'[c] = AsRow(client[c], b)
      BY DEF AsRow
    <2> HIDE DEF b
    <2>3. client'[c] \in ClientRows /\ client'[c].row = b
      BY <2>1, <2>2, RowStaysOrGoes
    <2> QED
      BY <2>3 DEF b
  <1>3. grant' \in [Grants -> GrantRows] /\ client' \in [OClients -> ClientRows]
    BY <1>1, <1>2
  <1>4. \A g \in Grants : grant[g].row => grant[g].client \in OClients
    BY DEF OAuthInv, GrantsAreKnown
  <1>5. \A g \in Grants : grant'[g].row => grant[g].row /\ client'[grant[g].client].row
    BY <1>1, <1>2, <1>4
  <1>6. \A p \in accessRow' \cup refreshRow' :
           grant'[pair[p].grant].row /\ grant'[pair[p].grant].revoked = NoTime
    BY <1>1
  <1> QED
    BY <1>1, <1>3, <1>5, <1>6 DEF OnlyRemoves

\* An owner deletes a client; maintenance.
LEMMA SweepsRemove ==
    ASSUME OAuthInv, AppClientDelete \/ OAuthCleanup
    PROVE  OnlyRemoves
  <1>1. ASSUME AppClientDelete PROVE OnlyRemoves
    <2>1. PICK o \in OOwners, c \in OClients : DeleteOAuthClientForOwner(o, c)
      BY <1>1 DEF AppClientDelete
    <2> DEFINE mine == {g \in Rows : grant[g].owner = o /\ grant[g].client = c}
               left == {g \in Rows \ mine : grant[g].client = c}
               lostClients == {d \in OClients : d = c /\ left = {}}
    <2>2. client' = [d \in OClients |-> [client[d] EXCEPT !.row = @ /\ d \notin lostClients]]
      <3>1. /\ client' = [client EXCEPT ![c] = [client[c] EXCEPT !.row = @ /\ left # {}]]
            /\ client \in [OClients -> ClientRows]
        BY <2>1, TypesNow DEF DeleteOAuthClientForOwner
      <3>2. ASSUME NEW d \in OClients
            PROVE  client'[d] = [client[d] EXCEPT !.row = @ /\ d \notin lostClients]
        <4>1. CASE d = c
          <5>1. client'[d] = [client[d] EXCEPT !.row = @ /\ left # {}]
            BY <3>1, <4>1
          <5>2. (d \notin lostClients) = (left # {})
            BY <4>1
          <5> QED
            BY <5>1, <5>2, Zenon
        <4>2. CASE d # c
          <5>1. client'[d] = client[d] /\ client[d] \in ClientRows
            BY <3>1, <4>2
          <5>2. d \notin lostClients
            BY <4>2
          <5> HIDE DEF lostClients
          <5> QED
            BY <5>1, <5>2 DEF ClientRows
        <4> QED
          BY <4>1, <4>2
      <3> QED
        BY <3>1, <3>2
    <2>3. /\ grant' = [g \in Grants |-> [grant[g] EXCEPT !.row = @ /\ g \notin mine]]
          /\ accessRow' \subseteq accessRow /\ refreshRow' \subseteq refreshRow
          /\ \A p \in accessRow' \cup refreshRow' : pair[p].grant \notin mine
          /\ UNCHANGED <<oauthClock, code, pair, exchange>>
      BY <1>1, <2>1 DEF AppClientDelete, DeleteOAuthClientForOwner
    <2>4. \A g \in Grants : grant[g].row /\ g \notin mine => grant[g].client \notin lostClients
      BY DEF Rows
    <2> HIDE DEF mine, lostClients
    <2> QED
      BY <2>2, <2>3, <2>4, RowsGo
  <1>2. ASSUME OAuthCleanup PROVE OnlyRemoves
    <2> DEFINE before == oauthClock - HistoryAge
               old == {g \in Rows : \/ grant[g].revoked # NoTime /\ grant[g].revoked <= before
                                    \/ grant[g].until <= before}
               access == {p \in accessRow : AccessUntil(p) > oauthClock}
               refresh == {p \in refreshRow : RefreshUntil(p) > oauthClock}
               lostClients == Forgettable(OClients, Rows \ old, access \cup refresh)
    <2>1. /\ accessRow' = access /\ refreshRow' = refresh
          /\ grant' = [g \in Grants |-> [grant[g] EXCEPT !.row = @ /\ g \notin old]]
          /\ client' = [c \in OClients |-> [client[c] EXCEPT !.row = @ /\ c \notin lostClients]]
          /\ UNCHANGED <<oauthClock, code, pair, exchange>>
      BY <1>2 DEF OAuthCleanup
    <2>2. \A g \in Grants : grant[g].row /\ g \notin old => grant[g].client \notin lostClients
      BY DEF Forgettable, Rows
    <2>3. access \subseteq accessRow /\ refresh \subseteq refreshRow
      OBVIOUS
    <2>4. ASSUME NEW p \in access \cup refresh PROVE pair[p].grant \notin old
      <3> DEFINE g == grant[pair[p].grant]
      <3>1. g.revoked = NoTime /\ g.until > oauthClock
        <4>1. /\ p \in Pairs /\ pair[p] \in PairRows /\ g \in GrantRows /\ oauthClock \in Nat
              /\ g.revoked = NoTime
          BY <2>3, TypesNow
        <4>2. p \in access => AccessUntil(p) <= g.until /\ AccessUntil(p) > oauthClock
          BY DEF OAuthInv, TokensAreValid
        <4>3. p \in refresh => RefreshUntil(p) <= g.until /\ RefreshUntil(p) > oauthClock
          BY DEF OAuthInv, TokensAreValid
        <4>4. g.until \in Int /\ pair[p].born \in Int
          BY <4>1, OAuthAssumption DEF GrantRows, PairRows, Times, NoTime
        <4> HIDE DEF g, access, refresh
        <4> QED
          BY <4>1, <4>2, <4>3, <4>4, OAuthAssumption DEF AccessUntil, RefreshUntil
      <3>2. before <= oauthClock /\ before \in Int /\ oauthClock \in Int /\ g.until \in Int
        BY <2>3, TypesNow, OAuthAssumption DEF GrantRows, Times
      <3> HIDE DEF before
      <3> QED
        BY <3>1, <3>2
    <2> HIDE DEF old, access, refresh, lostClients
    <2> QED
      BY <2>1, <2>2, <2>3, <2>4, RowsGo
  <1> QED
    BY <1>1, <1>2

\* A pair that may not be saved is given up, or its authorization undone.
LEMMA RefusalRemoves ==
    ASSUME OAuthInv, NEW r \in OReqs, IssueTokens(r), ~SaveOAuthTokenPair(r)
    PROVE  OnlyRemoves
  <1> USE TypesNow DEF OnlyRemoves, tokenRows
  <1>1. NoExchange \in Exchanges /\ NoExchange.step = "idle"
    BY OAuthAssumption DEF NoExchange, Exchanges, Times
  <1> DEFINE y == IF exchange[r].consumed = 0 THEN [exchange[r] EXCEPT !.step = "undo"] ELSE NoExchange
  <1>2. exchange' = [exchange EXCEPT ![r] = y] /\ exchange[r].step = "save"
    BY DEF IssueTokens
  <1>3. exchange[r] \in Exchanges
    OBVIOUS
  <1>4. y \in Exchanges /\ Ends(exchange[r], y)
    BY <1>1, <1>2, <1>3 DEF Exchanges, Ends
  <1> HIDE DEF y
  <1>5. exchange' \in [OReqs -> Exchanges] /\ \A s \in OReqs : Ends(exchange[s], exchange'[s])
    BY <1>2, <1>4
  <1> QED
    BY <1>5 DEF IssueTokens

(***************************************************************************)
(* The steps that issue: a code is taken, a refresh token is read, an      *)
(* authorization is created, a pair of tokens is saved.                    *)
(***************************************************************************)

\* A code that is still in the table belongs to nobody; the request that takes
\* it is the only one that has it.
LEMMA TakeCodeKeeps ==
    ASSUME OAuthInv, NEW r \in OReqs, TakeCode(r)
    PROVE  OAuthInv'
  <1> USE TypesNow
  <1>1. PICK k \in Codes :
           /\ Pruned[k].state = "pending" /\ code[k].client = exchange[r].client
           /\ code' = [Pruned EXCEPT ![k].state = "gone"]
           /\ exchange' = [exchange EXCEPT ![r] =
                [@ EXCEPT !.step = "create", !.owner = code[k].owner, !.code = k, !.now = oauthClock]]
    BY Zenon DEF TakeCode
  <1>2. /\ exchange[r].step = "client"
        /\ UNCHANGED <<oauthClock, client, grant, pair, accessRow, refreshRow>>
    BY DEF TakeCode, tokenRows
  <1>3. code[k].state = "pending"
    BY <1>1 DEF Pruned, CodeRows
  <1>4. /\ code' \in [Codes -> CodeRows] /\ code'[k].state = "gone"
        /\ \A j \in Codes : code[j].state = "gone" => code'[j].state = "gone"
    <2>1. Pruned \in [Codes -> CodeRows]
          /\ \A j \in Codes : code[j].state = "gone" => Pruned[j].state = "gone"
      BY DEF Pruned, CodeRows
    <2>2. Pruned[k] \in CodeRows
      BY <2>1
    <2>3. [Pruned[k] EXCEPT !.state = "gone"] \in CodeRows
          /\ [Pruned[k] EXCEPT !.state = "gone"].state = "gone"
      BY <2>2 DEF CodeRows
    <2>4. code' = [Pruned EXCEPT ![k] = [Pruned[k] EXCEPT !.state = "gone"]]
      BY <1>1
    <2> QED
      BY <2>1, <2>3, <2>4
  <1> DEFINE y == [exchange[r] EXCEPT !.step = "create", !.owner = code[k].owner, !.code = k,
                                      !.now = oauthClock]
  <1>5. exchange' = [exchange EXCEPT ![r] = y]
    BY <1>1
  <1>6. /\ y \in Exchanges /\ y.step = "create" /\ y.code = k /\ y.now = oauthClock
        /\ y.client = exchange[r].client /\ y.consumed = exchange[r].consumed
    <2>1. exchange[r] \in Exchanges /\ code[k] \in CodeRows /\ k \in 0..MaxCodes
      BY OAuthAssumption DEF Codes
    <2> QED
      BY <2>1 DEF Exchanges, CodeRows
  <1> HIDE DEF y
  <1>7. exchange' \in [OReqs -> Exchanges] /\ exchange'[r] = y
        /\ \A s \in OReqs : s # r => exchange'[s] = exchange[s]
    BY <1>5, <1>6
  <1>8. OAuthTypeOK'
    BY <1>2, <1>4, <1>7 DEF OAuthInv, OAuthTypeOK, CodeRows, Exchanges
  <1>9. CodesAreTaken'
    <2>1. k # 0 /\ code[k].state # "gone"
      BY <1>3, OAuthAssumption DEF Codes
    <2>2. /\ \A g \in Grants : grant[g].code # k
          /\ \A s \in OReqs : exchange[s].step = "create" => exchange[s].code # k
      BY <2>1 DEF OAuthInv, CodesAreTaken
    <2>3. \A g \in Grants : grant'[g].code # 0 => code'[grant'[g].code].state = "gone"
      <3>1. \A g \in Grants : grant[g].code # 0 => grant[g].code \in Codes
        BY OAuthAssumption DEF GrantRows, Codes
      <3> QED
        BY <1>2, <1>4, <3>1 DEF OAuthInv, CodesAreTaken
    <2>4. ASSUME NEW s \in OReqs, exchange'[s].step = "create"
          PROVE  /\ exchange'[s].code # 0 /\ code'[exchange'[s].code].state = "gone"
                 /\ \A g \in Grants : grant'[g].code # exchange'[s].code
                 /\ \A q \in OReqs : exchange'[q].step = "create"
                                       /\ exchange'[q].code = exchange'[s].code => q = s
      <3>1. CASE s = r
        BY <1>2, <1>4, <1>6, <1>7, <2>1, <2>2, <3>1
      <3>2. CASE s # r
        <4>1. exchange'[s] = exchange[s]
          BY <1>7, <3>2
        <4>2. exchange[s].code \in 0..MaxCodes
          BY DEF Exchanges
        <4>3. exchange[s].code \in Codes
          BY <4>1, <4>2, <2>4, OAuthAssumption DEF OAuthInv, CodesAreTaken, Codes
        <4>4. exchange[s].code # k
          BY <2>2, <2>4, <4>1
        <4> QED
          BY <1>2, <1>4, <1>6, <1>7, <2>4, <4>1, <4>3, <4>4 DEF OAuthInv, CodesAreTaken
      <3> QED
        BY <3>1, <3>2
    <2> QED
      BY <1>2, <2>3, <2>4 DEF OAuthInv, CodesAreTaken
  <1>10. GrantsAreKnown' /\ PairsAreIssued' /\ NewestRefreshes'
    BY <1>2 DEF OAuthInv, GrantsAreKnown, PairsAreIssued, NewestRefreshes
  <1>11. TokensAreValid'
    BY <1>2 DEF OAuthInv, TokensAreValid, AccessUntil, RefreshUntil
  <1>12. SaversAreSingle'
    <2>1. oauthClock <= oauthClock
      BY OAuthAssumption
    <2>2. exchange[r].client \in OClients /\ exchange[r].consumed = 0
      BY <1>2 DEF OAuthInv, SaversAreSingle
    <2> QED
      BY <1>2, <1>6, <1>7, <2>1, <2>2 DEF OAuthInv, SaversAreSingle
  <1> QED
    BY <1>8, <1>9, <1>10, <1>11, <1>12 DEF OAuthInv

\* The refresh token that is read is the one of its authorization.
LEMMA ReadRefreshKeeps ==
    ASSUME OAuthInv, NEW r \in OReqs, ReadRefresh(r)
    PROVE  OAuthInv'
  <1> USE TypesNow
  <1>1. PICK p \in Pairs :
           /\ RefreshRecord(p) /\ grant[pair[p].grant].client = exchange[r].client
           /\ exchange' = [exchange EXCEPT ![r] =
                [@ EXCEPT !.step = "save", !.owner = grant[pair[p].grant].owner,
                          !.grant = pair[p].grant, !.consumed = p, !.now = oauthClock]]
    BY Zenon DEF ReadRefresh
  <1>2. /\ exchange[r].step = "client"
        /\ UNCHANGED <<oauthClock, client, code, grant, pair, accessRow, refreshRow>>
    BY DEF ReadRefresh, tokenRows
  <1>3. p \in refreshRow /\ pair[p].grant \in Grants /\ pair[p].grant # 0
    BY <1>1, OAuthAssumption DEF RefreshRecord, Grants
  <1>4. grant[pair[p].grant].code # 0 /\ pair[p].born \in 0..oauthClock
    BY <1>3 DEF OAuthInv, PairsAreIssued
  <1> DEFINE y == [exchange[r] EXCEPT !.step = "save", !.owner = grant[pair[p].grant].owner,
                          !.grant = pair[p].grant, !.consumed = p, !.now = oauthClock]
  <1>5. exchange' = [exchange EXCEPT ![r] = y]
    BY <1>1
  <1>6. /\ y \in Exchanges /\ y.step = "save" /\ y.grant = pair[p].grant /\ y.consumed = p
        /\ y.now = oauthClock /\ y.client = exchange[r].client
    <2>1. /\ exchange[r] \in Exchanges /\ grant[pair[p].grant] \in GrantRows /\ p \in 0..MaxPairs
          /\ pair[p].grant \in 0..MaxGrants
      BY <1>3, OAuthAssumption DEF Pairs, Grants
    <2> QED
      BY <2>1 DEF Exchanges, GrantRows
  <1> HIDE DEF y
  <1>7. exchange' \in [OReqs -> Exchanges] /\ exchange'[r] = y
        /\ \A s \in OReqs : s # r => exchange'[s] = exchange[s]
    BY <1>5, <1>6
  <1>8. OAuthTypeOK'
    BY <1>2, <1>7 DEF OAuthInv, OAuthTypeOK, Exchanges
  <1>9. CodesAreTaken'
    BY <1>2, <1>6, <1>7 DEF OAuthInv, CodesAreTaken
  <1>10. GrantsAreKnown' /\ PairsAreIssued' /\ NewestRefreshes'
    BY <1>2 DEF OAuthInv, GrantsAreKnown, PairsAreIssued, NewestRefreshes
  <1>11. TokensAreValid'
    BY <1>2 DEF OAuthInv, TokensAreValid, AccessUntil, RefreshUntil
  <1>12. SaversAreSingle'
    <2>1. oauthClock <= oauthClock /\ pair[p].born <= oauthClock /\ p # 0
      BY <1>4, OAuthAssumption DEF Pairs
    <2>2. exchange[r].client \in OClients
      BY <1>2 DEF OAuthInv, SaversAreSingle
    <2> QED
      BY <1>2, <1>3, <1>4, <1>6, <1>7, <2>1, <2>2 DEF OAuthInv, SaversAreSingle
  <1> QED
    BY <1>8, <1>9, <1>10, <1>11, <1>12 DEF OAuthInv

\* What the fields of a request may be.
LEMMA ExchangeFields ==
    ASSUME NEW y \in Exchanges
    PROVE  /\ y.grant \in 0..MaxGrants /\ (y.grant # 0 => y.grant \in Grants)
           /\ y.consumed \in 0..MaxPairs /\ (y.consumed # 0 => y.consumed \in Pairs)
           /\ y.now \in Times /\ y.now \in Int
  <1>1. y.grant \in 0..MaxGrants /\ y.consumed \in 0..MaxPairs /\ y.now \in Times
    BY DEF Exchanges
  <1> QED
    BY <1>1, OAuthAssumption DEF Grants, Pairs, Times

\* The authorization that a request creates is the first of its code, and no
\* pair has been issued for it.
LEMMA CreateGrantKeeps ==
    ASSUME OAuthInv, NEW r \in OReqs, CreateGrant(r), grant' # grant
    PROVE  OAuthInv'
  <1> USE TypesNow
  <1>1. PICK g \in Grants :
           /\ Known(exchange[r].client) /\ grant[g] = NoGrant
           /\ grant' = [grant EXCEPT ![g] =
                [row |-> TRUE, code |-> exchange[r].code, client |-> exchange[r].client,
                 owner |-> exchange[r].owner, until |-> PairEnds(r), revoked |-> NoTime,
                 deleted |-> FALSE]]
           /\ exchange' = [exchange EXCEPT ![r].step = "save", ![r].grant = g]
    BY Zenon DEF CreateGrant
  <1>2. /\ exchange[r].step = "create"
        /\ UNCHANGED <<oauthClock, client, code, pair, accessRow, refreshRow>>
    BY DEF CreateGrant, tokenRows
  <1>3. /\ exchange[r].client \in OClients /\ exchange[r].now <= oauthClock
        /\ exchange[r].code # 0 /\ exchange[r].code \in 0..MaxCodes
        /\ exchange[r].owner \in OOwners \cup {Nobody} /\ exchange[r].now \in Times
    BY <1>2 DEF OAuthInv, SaversAreSingle, CodesAreTaken, Exchanges
  <1> DEFINE z == [row |-> TRUE, code |-> exchange[r].code, client |-> exchange[r].client,
                   owner |-> exchange[r].owner, until |-> PairEnds(r), revoked |-> NoTime,
                   deleted |-> FALSE]
             y == [exchange[r] EXCEPT !.step = "save", !.grant = g]
  <1>4. PairEnds(r) \in Times
    BY <1>3, OAuthAssumption DEF PairEnds, Times
  <1>5. /\ z \in GrantRows /\ z.row = TRUE /\ z.code = exchange[r].code
        /\ z.client = exchange[r].client /\ z.revoked = NoTime
    BY <1>3, <1>4 DEF GrantRows
  <1>6. /\ y \in Exchanges /\ y.step = "save" /\ y.grant = g /\ y.consumed = exchange[r].consumed
        /\ y.now = exchange[r].now /\ y.client = exchange[r].client
    <2>1. exchange[r] \in Exchanges /\ g \in 0..MaxGrants
      BY OAuthAssumption DEF Grants
    <2> QED
      BY <2>1 DEF Exchanges
  <1>7. grant' = [grant EXCEPT ![g] = z] /\ exchange' = [exchange EXCEPT ![r] = y]
    BY <1>1
  <1> HIDE DEF y, z
  <1>8. /\ grant' \in [Grants -> GrantRows] /\ grant'[g] = z
        /\ \A h \in Grants : h # g => grant'[h] = grant[h]
    BY <1>5, <1>7
  <1>9. exchange' \in [OReqs -> Exchanges] /\ exchange'[r] = y
        /\ \A s \in OReqs : s # r => exchange'[s] = exchange[s]
    BY <1>6, <1>7
  <1>10. grant[g].code = 0 /\ ~grant[g].row /\ g # 0
    BY <1>1, OAuthAssumption DEF NoGrant, Grants
  <1>11. /\ \A p \in Pairs : pair[p].grant # g
         /\ \A s \in OReqs : exchange[s].step \in {"save", "undo"} => exchange[s].grant # g
    BY <1>10 DEF OAuthInv, PairsAreIssued, SaversAreSingle
  <1>12. OAuthTypeOK'
    BY <1>2, <1>8, <1>9 DEF OAuthInv, OAuthTypeOK, GrantRows, Exchanges
  <1>13. CodesAreTaken'
    <2>1. \A h \in Grants : grant'[h].code # 0 => code[grant'[h].code].state = "gone"
      BY <1>2, <1>5, <1>8 DEF OAuthInv, CodesAreTaken
    <2>2. \A h, i \in Grants : grant'[h].code = grant'[i].code /\ grant'[h].code # 0 => h = i
      BY <1>2, <1>5, <1>8 DEF OAuthInv, CodesAreTaken
    <2>3. \A s \in OReqs : exchange'[s].step = "create" => s # r /\ exchange'[s] = exchange[s]
      BY <1>6, <1>9
    <2>4. \A s \in OReqs : exchange[s].step = "create" /\ s # r => exchange[s].code # exchange[r].code
      BY <1>2 DEF OAuthInv, CodesAreTaken
    <2>5. \A s \in OReqs : exchange'[s].step = "create" =>
              \A h \in Grants : grant'[h].code # exchange'[s].code
      BY <1>5, <1>8, <2>3, <2>4 DEF OAuthInv, CodesAreTaken
    <2> QED
      BY <1>2, <2>1, <2>2, <2>3, <2>5 DEF OAuthInv, CodesAreTaken
  <1>14. GrantsAreKnown'
    BY <1>1, <1>2, <1>3, <1>5, <1>8 DEF OAuthInv, GrantsAreKnown, Known
  <1>15. \A p \in Pairs : pair[p].grant # 0 => grant'[pair[p].grant] = grant[pair[p].grant]
    <2>1. \A p \in Pairs : pair[p].grant # 0 => pair[p].grant \in Grants
      BY OAuthAssumption DEF PairRows, Grants
    <2> QED
      BY <1>8, <1>11, <2>1
  <1>16. PairsAreIssued' /\ NewestRefreshes'
    BY <1>2, <1>15 DEF OAuthInv, PairsAreIssued, NewestRefreshes
  <1>17. TokensAreValid'
    BY <1>2, <1>15 DEF OAuthInv, TokensAreValid, AccessUntil, RefreshUntil
  <1>18. SaversAreSingle'
    <2>1. \A s \in OReqs : exchange[s].step \in {"save", "undo"} =>
              exchange[s].grant # 0 /\ grant'[exchange[s].grant].code # 0
      <3>1. \A s \in OReqs : exchange[s].step \in {"save", "undo"} =>
                exchange[s].grant # 0 /\ grant[exchange[s].grant].code # 0
        BY DEF OAuthInv, SaversAreSingle
      <3>2. \A s \in OReqs : exchange[s].grant # 0 => exchange[s].grant \in Grants
        <4>1. TAKE s \in OReqs
        <4>2. exchange[s] \in Exchanges
          BY TypesNow
        <4> QED
          BY <4>2, ExchangeFields
      <3> QED
        BY <1>8, <1>11, <3>1, <3>2
    <2>2. exchange[r].consumed = 0
      BY <1>2 DEF OAuthInv, SaversAreSingle
    <2> QED
      BY <1>2, <1>3, <1>5, <1>6, <1>8, <1>9, <1>10, <1>11, <2>1, <2>2 DEF OAuthInv, SaversAreSingle
  <1> QED
    BY <1>12, <1>13, <1>14, <1>16, <1>17, <1>18 DEF OAuthInv

\* What the invariant says of one request.
LEMMA SaverNow ==
    ASSUME SaversAreSingle, NEW s \in OReqs, NEW y, y = exchange[s]
    PROVE  /\ y.step # "idle" => y.client \in OClients
           /\ y.step \in {"client", "create"} => y.consumed = 0
           /\ y.step \in {"create", "save", "undo"} => y.now <= oauthClock
           /\ y.step \in {"save", "undo"} => y.grant # 0 /\ grant[y.grant].code # 0
           /\ y.step = "save" /\ y.consumed # 0 =>
                 pair[y.consumed].grant = y.grant /\ pair[y.consumed].born <= y.now
           /\ y.step = "save" /\ y.consumed = 0 =>
                 /\ \A q \in Pairs : pair[q].grant # y.grant
                 /\ \A t \in OReqs : exchange[t].step = "save" /\ exchange[t].consumed = 0
                                        /\ exchange[t].grant = y.grant => t = s
  BY DEF SaversAreSingle

\* A new pair takes the place of the one it consumes: the authorization then
\* lasts as long as the new pair, which is the newest.
LEMMA SavePairsKeeps ==
    ASSUME OAuthInv, NEW r \in OReqs, IssueTokens(r), SaveOAuthTokenPair(r)
    PROVE  OAuthInv'
  <1> USE TypesNow
  <1>1. PICK x \in Exchanges : x = exchange[r]
    OBVIOUS
  <1>2. exchange[r].step = "save"
    BY DEF IssueTokens
  <1>3. /\ x.client \in OClients /\ x.now \in 0..oauthClock /\ x.now \in Times
        /\ x.grant \in Grants /\ x.grant # 0 /\ grant[x.grant].code # 0
        /\ x.consumed \in 0..MaxPairs
    <2>1. /\ x.client \in OClients /\ x.now <= oauthClock
          /\ x.grant # 0 /\ grant[x.grant].code # 0
      BY <1>1, <1>2 DEF OAuthInv, SaversAreSingle
    <2>2. x.grant \in Grants /\ x.consumed \in 0..MaxPairs /\ x.now \in Times
      BY <2>1, ExchangeFields
    <2> QED
      BY <2>1, <2>2, OAuthAssumption DEF Times
  <1>4. PICK g \in Grants : g = x.grant
    BY <1>3
  <1>5. PICK ends \in Times :
           /\ ends = PairEnds(r) /\ ends >= x.now + AccessTTL
           /\ client[x.client].renews => ends = x.now + RefreshTTL
    BY <1>1, <1>3, OAuthAssumption DEF PairEnds, Times
  <1> DEFINE n == [grant |-> g, born |-> x.now]
             z == [grant[g] EXCEPT !.until = ends]
  <1>6. PICK p \in Pairs :
           /\ pair[p] = NoPair
           /\ pair' = [pair EXCEPT ![p] = n]
           /\ accessRow' = accessRow \cup {p}
           /\ refreshRow' = (refreshRow \ {x.consumed}) \cup
                              (IF client[x.client].renews THEN {p} ELSE {})
    BY <1>1, <1>4, Zenon DEF SaveOAuthTokenPair
  <1>7. /\ n \in PairRows /\ n.grant = g /\ n.born = x.now
    BY <1>3, OAuthAssumption DEF PairRows, Grants
  <1>8. /\ grant' = [grant EXCEPT ![g] = z] /\ grant[g].row /\ grant[g].revoked = NoTime
        /\ x.consumed # 0 => x.consumed \in refreshRow
    <2>1. MaySave(r) /\ grant' = [grant EXCEPT ![exchange[r].grant].until = PairEnds(r)]
      BY DEF SaveOAuthTokenPair
    <2>2. grant' = [grant EXCEPT ![g] = z]
      BY <1>1, <1>4, <1>5, <2>1
    <2> QED
      BY <1>1, <1>4, <2>1, <2>2 DEF MaySave
  <1>9. /\ z \in GrantRows /\ z.until = ends /\ z.row = grant[g].row /\ z.code = grant[g].code
        /\ z.client = grant[g].client /\ z.revoked = grant[g].revoked
    <2>1. grant[g] \in GrantRows
      OBVIOUS
    <2> QED
      BY <2>1 DEF GrantRows
  <1> HIDE DEF n, z
  <1>10. /\ pair' \in [Pairs -> PairRows] /\ pair'[p] = n
         /\ \A q \in Pairs : q # p => pair'[q] = pair[q]
    BY <1>6, <1>7
  <1>11. /\ grant' \in [Grants -> GrantRows] /\ grant'[g] = z
         /\ \A h \in Grants : h # g => grant'[h] = grant[h]
    BY <1>8, <1>9
  <1>12. /\ UNCHANGED <<oauthClock, client, code>>
         /\ exchange' \in [OReqs -> Exchanges] /\ exchange'[r].step = "idle"
         /\ \A s \in OReqs : s # r => exchange'[s] = exchange[s]
    <2>1. exchange' = [exchange EXCEPT ![r] = NoExchange]
      <3>1. MaySave(r)
        BY DEF SaveOAuthTokenPair
      <3> QED
        BY <3>1 DEF IssueTokens
    <2>2. NoExchange \in Exchanges /\ NoExchange.step = "idle"
      BY OAuthAssumption DEF NoExchange, Exchanges, Times
    <2> QED
      BY <2>1, <2>2 DEF IssueTokens
  <1>13. pair[p].grant = 0 /\ p \notin accessRow \cup refreshRow /\ p # 0
    BY <1>6, OAuthAssumption DEF NoPair, OAuthInv, TokensAreValid, Pairs
  <1>14. \A h \in Grants :
            /\ grant'[h].row = grant[h].row /\ grant'[h].code = grant[h].code
            /\ grant'[h].client = grant[h].client /\ grant'[h].revoked = grant[h].revoked
    BY <1>9, <1>11
  <1>15. /\ accessRow' \subseteq Pairs /\ refreshRow' \subseteq Pairs
         /\ accessRow' \subseteq accessRow \cup {p} /\ refreshRow' \subseteq refreshRow \cup {p}
         /\ x.consumed \notin refreshRow'
         /\ p \in refreshRow' => client[x.client].renews
    <2>1. x.consumed # p
      BY <1>8, <1>13
    <2>2. accessRow' \subseteq accessRow \cup {p} /\ refreshRow' \subseteq refreshRow \cup {p}
      BY <1>6
    <2> QED
      BY <1>6, <1>13, <2>1, <2>2
  <1>16. OAuthTypeOK'
    BY <1>10, <1>11, <1>12, <1>15 DEF OAuthInv, OAuthTypeOK, PairRows, GrantRows, Exchanges
  <1>17. CodesAreTaken'
    <2>1. \A s \in OReqs : exchange'[s].step = "create" => s # r /\ exchange'[s] = exchange[s]
      BY <1>12
    <2> QED
      BY <1>12, <1>14, <2>1 DEF OAuthInv, CodesAreTaken
  <1>18. GrantsAreKnown'
    BY <1>12, <1>14 DEF OAuthInv, GrantsAreKnown
  <1>19. \A q \in Pairs : pair[q].grant # 0 => pair[q].grant \in Grants
    BY OAuthAssumption DEF PairRows, Grants
  <1>20. PairsAreIssued'
    BY <1>3, <1>4, <1>7, <1>10, <1>12, <1>14, <1>19 DEF OAuthInv, PairsAreIssued
  <1>21. \A q \in refreshRow : pair[q].grant = g => q = x.consumed
    <2>1. CASE x.consumed = 0
      BY <1>1, <1>2, <1>4, <2>1 DEF OAuthInv, SaversAreSingle
    <2>2. CASE x.consumed # 0
      BY <1>1, <1>2, <1>4, <1>8, <2>2 DEF OAuthInv, SaversAreSingle, NewestRefreshes
    <2> QED
      BY <2>1, <2>2
  <1>22. \A q \in accessRow : pair[q].grant = g => pair[q].born <= x.now
    <2>1. CASE x.consumed = 0
      BY <1>1, <1>2, <1>4, <2>1 DEF OAuthInv, SaversAreSingle
    <2>2. CASE x.consumed # 0
      <3>1. /\ x.consumed \in refreshRow /\ pair[x.consumed].grant = g
            /\ pair[x.consumed].born <= x.now
        BY <1>1, <1>2, <1>4, <1>8, <2>2 DEF OAuthInv, SaversAreSingle
      <3>2. \A q \in accessRow : pair[q].grant = g => pair[q].born <= pair[x.consumed].born
        BY <3>1 DEF OAuthInv, NewestRefreshes
      <3>3. \A q \in Pairs : pair[q].born \in Int
        BY OAuthAssumption DEF PairRows, Times, NoTime
      <3>4. x.now \in Int /\ x.consumed \in Pairs
        BY <1>3, <3>1, OAuthAssumption DEF Times
      <3> QED
        BY <3>1, <3>2, <3>3, <3>4
    <2> QED
      BY <2>1, <2>2
  <1>23. TokensAreValid'
    <2>1. ASSUME NEW q \in accessRow' \cup refreshRow'
          PROVE  /\ pair'[q].grant # 0 /\ pair'[q].grant \in Grants
                 /\ grant'[pair'[q].grant].row /\ grant'[pair'[q].grant].revoked = NoTime
      <3>1. CASE q = p
        BY <1>3, <1>4, <1>7, <1>8, <1>10, <1>14, <3>1
      <3>2. CASE q # p
        <4>1. q \in accessRow \cup refreshRow /\ pair'[q] = pair[q]
          BY <1>10, <1>15, <3>2
        <4> QED
          BY <1>14, <4>1, <1>19 DEF OAuthInv, TokensAreValid
      <3> QED
        BY <3>1, <3>2
    <2>2. x.now \in Int /\ AccessTTL \in Int /\ RefreshTTL \in Int /\ ends \in Int
      BY <1>3, OAuthAssumption DEF Times
    <2>3. ASSUME NEW q \in accessRow'
          PROVE  pair'[q].born + AccessTTL <= grant'[pair'[q].grant].until
      <3>1. CASE q = p
        BY <1>5, <1>7, <1>9, <1>10, <1>11, <2>2, <3>1
      <3>2. CASE q # p
        <4>1. q \in accessRow /\ q \in Pairs /\ pair'[q] = pair[q] /\ pair[q].grant \in Grants
          BY <1>10, <1>15, <3>2
        <4>2. CASE pair[q].grant = g
          <5>1. pair[q].born \in Int /\ pair[q].born <= x.now
            BY <1>22, <4>1, <4>2, OAuthAssumption DEF PairRows, Times, NoTime
          <5>2. grant'[pair'[q].grant].until = ends
            BY <1>9, <1>11, <4>1, <4>2
          <5> QED
            BY <1>5, <2>2, <4>1, <5>1, <5>2
        <4>3. CASE pair[q].grant # g
          BY <1>11, <4>1, <4>3 DEF OAuthInv, TokensAreValid, AccessUntil
        <4> QED
          BY <4>2, <4>3
      <3> QED
        BY <3>1, <3>2
    <2>4. ASSUME NEW q \in refreshRow'
          PROVE  pair'[q].born + RefreshTTL <= grant'[pair'[q].grant].until
      <3>1. CASE q = p
        BY <1>5, <1>7, <1>9, <1>10, <1>11, <1>15, <2>2, <3>1
      <3>2. CASE q # p
        <4>1. q \in refreshRow /\ pair'[q] = pair[q] /\ pair[q].grant \in Grants
          BY <1>10, <1>15, <3>2
        <4>2. pair[q].grant # g
          BY <1>15, <1>21, <4>1
        <4> QED
          BY <1>11, <4>1, <4>2 DEF OAuthInv, TokensAreValid, RefreshUntil
      <3> QED
        BY <3>1, <3>2
    <2> QED
      BY <1>12, <2>1, <2>3, <2>4 DEF TokensAreValid, AccessUntil, RefreshUntil
  <1>24. NewestRefreshes'
    <2>1. \A q \in refreshRow' : q # p => q \in refreshRow /\ pair'[q] = pair[q] /\ pair[q].grant # g
      BY <1>10, <1>15, <1>21
    <2>2. \A q \in accessRow' : q # p => q \in accessRow /\ pair'[q] = pair[q]
      BY <1>10, <1>15
    <2>3. pair'[p].grant = g /\ pair'[p].born = x.now /\ x.now <= x.now
      BY <1>3, <1>7, <1>10, OAuthAssumption DEF Times
    <2>4. \A q, s \in refreshRow' : pair'[q].grant = pair'[s].grant => q = s
      BY <2>1, <2>3 DEF OAuthInv, NewestRefreshes
    <2>5. ASSUME NEW q \in refreshRow', NEW s \in accessRow', pair'[q].grant = pair'[s].grant
          PROVE  pair'[s].born <= pair'[q].born
      <3>1. CASE q = p
        BY <1>22, <2>2, <2>3, <2>5, <3>1
      <3>2. CASE q # p
        BY <2>1, <2>2, <2>3, <2>5, <3>2 DEF OAuthInv, NewestRefreshes
      <3> QED
        BY <3>1, <3>2
    <2> QED
      BY <2>4, <2>5 DEF NewestRefreshes
  <1>25. SaversAreSingle'
    <2> SUFFICES ASSUME NEW s \in OReqs, s # r
                 PROVE  LET y == exchange'[s] IN
                    /\ y.step # "idle" => y.client \in OClients
                    /\ y.step \in {"client", "create"} => y.consumed = 0
                    /\ y.step \in {"create", "save", "undo"} => y.now <= oauthClock'
                    /\ y.step \in {"save", "undo"} => y.grant # 0 /\ grant'[y.grant].code # 0
                    /\ y.step = "save" /\ y.consumed # 0 =>
                          pair'[y.consumed].grant = y.grant /\ pair'[y.consumed].born <= y.now
                    /\ y.step = "save" /\ y.consumed = 0 =>
                          /\ \A q \in Pairs : pair'[q].grant # y.grant
                          /\ \A t \in OReqs : exchange'[t].step = "save" /\ exchange'[t].consumed = 0
                                                 /\ exchange'[t].grant = y.grant => t = s
      BY <1>12 DEF SaversAreSingle
    <2>1. PICK y \in Exchanges : y = exchange[s] /\ y = exchange'[s]
      BY <1>12
    <2>2. /\ y.step # "idle" => y.client \in OClients
          /\ y.step \in {"client", "create"} => y.consumed = 0
          /\ y.step \in {"create", "save", "undo"} => y.now <= oauthClock
          /\ y.step \in {"save", "undo"} => y.grant # 0 /\ grant[y.grant].code # 0
          /\ y.step = "save" /\ y.consumed # 0 =>
                pair[y.consumed].grant = y.grant /\ pair[y.consumed].born <= y.now
          /\ y.step = "save" /\ y.consumed = 0 =>
                /\ \A q \in Pairs : pair[q].grant # y.grant
                /\ \A t \in OReqs : exchange[t].step = "save" /\ exchange[t].consumed = 0
                                       /\ exchange[t].grant = y.grant => t = s
      <3>1. SaversAreSingle
        BY DEF OAuthInv
      <3> QED
        BY <2>1, <3>1, SaverNow
    <2>3. y.grant # 0 => y.grant \in Grants
      BY ExchangeFields
    <2>4. y.consumed # 0 => y.consumed \in Pairs
      BY ExchangeFields
    <2>5. y.step = "save" /\ y.consumed # 0 =>
             pair'[y.consumed].grant = y.grant /\ pair'[y.consumed].born <= y.now
      BY <1>10, <1>13, <2>2, <2>4
    <2>6. ASSUME y.step = "save", y.consumed = 0 PROVE y.grant # g
      <3>1. CASE x.consumed = 0
        BY <1>1, <1>2, <1>4, <2>2, <2>6, <3>1
      <3>2. CASE x.consumed # 0
        BY <1>1, <1>2, <1>4, <1>8, <2>2, <2>6, <3>2 DEF OAuthInv, SaversAreSingle
      <3> QED
        BY <3>1, <3>2
    <2>7. y.step = "save" /\ y.consumed = 0 => \A q \in Pairs : pair'[q].grant # y.grant
      BY <1>7, <1>10, <2>2, <2>6
    <2>8. \A t \in OReqs : exchange'[t].step = "save" => exchange'[t] = exchange[t]
      BY <1>12
    <2> QED
      BY <1>12, <1>14, <2>1, <2>2, <2>3, <2>5, <2>7, <2>8
  <1> QED
    BY <1>16, <1>17, <1>18, <1>20, <1>23, <1>24, <1>25 DEF OAuthInv

\* Every step keeps the invariant.
LEMMA OAuthStep == OAuthInv /\ [OAuthNext]_oauthVars => OAuthInv'
  <1> SUFFICES ASSUME OAuthInv, [OAuthNext]_oauthVars PROVE OAuthInv'
    OBVIOUS
  <1>1. CASE OAuthTick \/ OAuthRegister \/ OAuthAuthorize \/ UNCHANGED oauthVars
    BY <1>1, FrontRemoves, OnlyRemovesKeeps
  <1>2. CASE OAuthRevoke \/ AppAuthorizationRevoke \/ AppAuthorizationDelete
    BY <1>2, OwnersRemove, OnlyRemovesKeeps
  <1>3. CASE AppClientDelete \/ OAuthCleanup
    BY <1>3, SweepsRemove, OnlyRemovesKeeps
  <1>4. ASSUME NEW r \in OReqs, TokenRequest(r) \/ UndoGrant(r) \/ DropRequest(r)
        PROVE  OAuthInv'
    BY <1>4, RequestsRemove, OnlyRemovesKeeps
  <1>5. ASSUME NEW r \in OReqs, CreateGrant(r) PROVE OAuthInv'
    <2>1. CASE grant' # grant
      BY <1>5, <2>1, CreateGrantKeeps
    <2>2. CASE grant' = grant
      <3>1. exchange[r].step = "create"
        BY <1>5 DEF CreateGrant
      <3>2. CASE exchange' = [exchange EXCEPT ![r] = NoExchange]
        BY <1>5, <2>2, <3>1, <3>2, RequestsRemove, OnlyRemovesKeeps DEF CreateGrant, DropRequest
      <3>3. CASE exchange' # [exchange EXCEPT ![r] = NoExchange]
        <4>1. PICK g \in Grants : grant[g] = NoGrant /\
                 grant' = [grant EXCEPT ![g] =
                   [row |-> TRUE, code |-> exchange[r].code, client |-> exchange[r].client,
                    owner |-> exchange[r].owner, until |-> PairEnds(r), revoked |-> NoTime,
                    deleted |-> FALSE]]
          BY <1>5, <3>3, Zenon DEF CreateGrant
        <4>2. grant'[g].row /\ ~grant[g].row
          BY <4>1, TypesNow DEF NoGrant
        <4> QED
          BY <2>2, <4>2
      <3> QED
        BY <3>2, <3>3
    <2> QED
      BY <2>1, <2>2
  <1>6. ASSUME NEW r \in OReqs, IssueTokens(r) PROVE OAuthInv'
    BY <1>6, SavePairsKeeps, RefusalRemoves, OnlyRemovesKeeps
  <1>7. CASE OAuthRequests
    BY <1>4, <1>5, <1>6, <1>7, TakeCodeKeeps, ReadRefreshKeeps DEF OAuthRequests
  <1> QED
    BY <1>1, <1>2, <1>3, <1>7 DEF OAuthNext

\* A token row always has a valid authorization that outlives it, and a client
\* that is known; a code and a refresh token are redeemed once.
THEOREM TokensStaySound == OAuthSpec => []TokensAreSound
  <1>1. OAuthInit => OAuthInv
    BY OAuthInitInv
  <1>2. OAuthInv /\ [OAuthNext]_oauthVars => OAuthInv'
    BY OAuthStep
  <1>3. OAuthInv => TokensAreSound
    BY OAuthInvImplies
  <1> QED
    BY <1>1, <1>2, <1>3, PTL DEF OAuthSpec

(***************************************************************************)
(* The release feed.  Stamps only grow, so a stamp of which the artifact   *)
(* still stands was seen whole; and the waiters of a generation are        *)
(* counted, so its cancellation reaches nobody.                            *)
(***************************************************************************)
AnyStamps == [a : Nat, v : Nat]
ReadRecords == [at : {"none", "version", "get", "full", "wait", "over"},
                key : RelKeys \cup {NoEntry}, stamp : AnyStamps, on : RelReaders \cup {NoEntry},
                answer : {NoEntry, "manifest", "failed", "canceled", "own"}, got : AnyStamps]
LoadRecords == [at : LoadAts, key : RelKeys \cup {NoEntry}, stamp : AnyStamps,
                hashed : Nat, seen : Nat, waiters : Nat, cancelled : BOOLEAN,
                err : {NoEntry, "failed", "canceled"}, used : Nat]

\* The types; and what stands on disk has been shown.
FeedTypes ==
    /\ relFiles \in [RelKeys -> AnyStamps]
    /\ relShown \in [RelKeys -> SUBSET AnyStamps]
    /\ relReads \in [RelReaders -> ReadRecords]
    /\ relLoads \in [RelReaders -> LoadRecords]
    /\ relCache \in [entries : [RelKeys -> RelReaders \cup {NoEntry}], clock : Nat]
    /\ \A k \in RelKeys : relFiles[k] \in relShown[k]

\* The stamp is of the past, and stood on disk if its artifact still does.
Dated(k, stamp) ==
    /\ stamp.a <= relFiles[k].a
    /\ relFiles[k].a = stamp.a => stamp \in relShown[k]

\* A request, by how far it has come.
ReadTrue(q) ==
    /\ q.at # "over" => q.answer = NoEntry
    /\ q.at \in {"version", "get", "full", "wait"} => q.key \in RelKeys
    /\ q.at = "version" => q.stamp.a <= relFiles[q.key].a
    /\ q.at \in {"get", "full"} => Dated(q.key, q.stamp)
    /\ q.at \in {"full", "wait"} => q.on \in RelReaders
    /\ q.answer = "manifest" => q.key \in RelKeys /\ q.got \in relShown[q.key]
    /\ q.answer # "canceled"

\* What is waited for is being made, and of the release asked for.
WaitTrue(q) == q.at = "wait" => relLoads[q.on].at # "none" /\ relLoads[q.on].key = q.key

\* What the goroutine of an entry has read so far.
LoadTrue(l) ==
    l.at # "none" =>
    /\ l.key \in RelKeys
    /\ Dated(l.key, l.stamp)
    /\ l.at = "artifact" => l.stamp.a <= l.hashed /\ l.hashed <= relFiles[l.key].a
    /\ l.at = "version" => /\ l.stamp.a <= l.hashed /\ l.hashed <= l.seen
                           /\ l.seen <= relFiles[l.key].a
                           /\ l.seen = l.stamp.a => l.stamp \in relShown[l.key]
    /\ l.at \in {"finish", "ready"} /\ l.err = NoEntry =>
           [a |-> l.hashed, v |-> l.stamp.v] \in relShown[l.key]
    /\ l.err = "canceled" => l.cancelled

\* Those who wait for the generation m made.
WaitersOf(m) == {r \in RelReaders : relReads[r].at = "wait" /\ relReads[r].on = m}

\* The count is of those who wait, and a cancelled generation has none and is
\* out of the cache.
WaitersCounted(m) ==
    /\ relLoads[m].at # "none" => relReads[m].at \in {"wait", "over"}
    /\ relLoads[m].at \notin {"none", "ready"} => relLoads[m].waiters = Cardinality(WaitersOf(m))
    /\ relLoads[m].cancelled => WaitersOf(m) = {} /\ \A k \in RelKeys : relCache.entries[k] # m

\* An entry is of its release, and has no error to give.
EntryTrue(k) ==
    LET m == relCache.entries[k]
    IN  m # NoEntry => /\ relLoads[m].at # "none" /\ relLoads[m].key = k
                       /\ relLoads[m].at = "ready" => relLoads[m].err = NoEntry

FeedInv ==
    /\ FeedTypes
    /\ \A r \in RelReaders : ReadTrue(relReads[r]) /\ WaitTrue(relReads[r])
    /\ \A m \in RelReaders : LoadTrue(relLoads[m]) /\ WaitersCounted(m)
    /\ \A k \in RelKeys : EntryTrue(k)
    /\ CacheIsBounded

\* Nothing is asked for and nothing is kept.
LEMMA FeedInitInv == ReleaseCacheInit => FeedInv
  <1> SUFFICES ASSUME ReleaseCacheInit PROVE FeedInv
    OBVIOUS
  <1> USE ReleaseCacheAssumption DEF ReleaseCacheInit
  <1>0. Nothing \in AnyStamps /\ NoRead \in ReadRecords /\ NoLoad \in LoadRecords
    BY DEF Nothing, AnyStamps, NoRead, NoLoad, ReadRecords, LoadRecords, NoEntry, LoadAts
  <1>1. FeedTypes
    BY <1>0 DEF FeedTypes
  <1>2. \A r \in RelReaders : ReadTrue(relReads[r]) /\ WaitTrue(relReads[r])
    BY DEF ReadTrue, WaitTrue, NoRead, NoEntry
  <1>3. \A m \in RelReaders : LoadTrue(relLoads[m]) /\ WaitersCounted(m)
    BY DEF LoadTrue, WaitersCounted, NoLoad
  <1>4. \A k \in RelKeys : EntryTrue(k)
    BY DEF EntryTrue
  <1>5. CacheIsBounded
    <2>1. Cached = {}
      BY DEF Cached
    <2> QED
      BY <2>1, FS_EmptySet DEF CacheIsBounded
  <1> QED
    BY <1>1, <1>2, <1>3, <1>4, <1>5 DEF FeedInv

\* A publisher only adds: what was seen whole stays seen.
LEMMA PublishKeeps == ASSUME FeedInv, Publish PROVE FeedInv'
  <1>1. PICK k \in RelKeys : \E new \in {[relFiles[k] EXCEPT !.a = @ + 1], [relFiles[k] EXCEPT !.v = @ + 1]} :
          /\ relFiles' = [relFiles EXCEPT ![k] = new]
          /\ relShown' = [relShown EXCEPT ![k] = @ \cup {new}]
          /\ UNCHANGED <<relReads, relLoads, relCache>>
    BY DEF Publish
  <1>2. PICK new \in {[relFiles[k] EXCEPT !.a = @ + 1], [relFiles[k] EXCEPT !.v = @ + 1]} :
          /\ relFiles' = [relFiles EXCEPT ![k] = new]
          /\ relShown' = [relShown EXCEPT ![k] = @ \cup {new}]
          /\ UNCHANGED <<relReads, relLoads, relCache>>
    BY <1>1
  <1>3. relFiles[k] \in AnyStamps /\ FeedTypes
    BY DEF FeedInv, FeedTypes
  <1>4. new \in AnyStamps /\ relFiles[k].a <= new.a
    BY <1>3 DEF AnyStamps
  <1>5. FeedTypes'
    BY <1>2, <1>3, <1>4 DEF FeedTypes
  <1>6. ASSUME NEW f \in RelKeys
        PROVE  /\ relFiles[f].a <= relFiles'[f].a /\ relFiles[f].a \in Nat /\ relFiles'[f].a \in Nat
               /\ relShown[f] \subseteq relShown'[f]
    BY <1>2, <1>3, <1>4, <1>5 DEF FeedTypes, AnyStamps
  <1>7. ASSUME NEW f \in RelKeys, NEW s \in AnyStamps, Dated(f, s) PROVE Dated(f, s)'
    BY <1>6, <1>7 DEF Dated, AnyStamps
  <1>8. ASSUME NEW r \in RelReaders
        PROVE  ReadTrue(relReads[r])' /\ WaitTrue(relReads[r])'
    <2>1. PICK q \in ReadRecords : q = relReads[r]
      BY <1>3 DEF FeedTypes
    <2>2. relReads' = relReads /\ relLoads' = relLoads
      BY <1>2
    <2>3. ReadTrue(q) /\ WaitTrue(q)
      BY <2>1 DEF FeedInv
    <2>4. q.stamp \in AnyStamps /\ q.stamp.a \in Nat
      BY <2>1 DEF ReadRecords, AnyStamps
    <2>5. ReadTrue(q)'
      BY <1>6, <1>7, <2>3, <2>4 DEF ReadTrue
    <2> QED
      BY <2>1, <2>2, <2>3, <2>5 DEF WaitTrue
  <1>9. ASSUME NEW m \in RelReaders
        PROVE  LoadTrue(relLoads[m])' /\ WaitersCounted(m)'
    <2>1. PICK l \in LoadRecords : l = relLoads[m]
      BY <1>3 DEF FeedTypes
    <2>2. relReads' = relReads /\ relLoads' = relLoads /\ relCache' = relCache
      BY <1>2
    <2>3. LoadTrue(l) /\ WaitersCounted(m)
      BY <2>1 DEF FeedInv
    <2>4. l.stamp \in AnyStamps /\ l.stamp.a \in Nat /\ l.hashed \in Nat /\ l.seen \in Nat
      BY <2>1 DEF LoadRecords, AnyStamps
    <2>5. LoadTrue(l)'
      BY <1>6, <1>7, <2>3, <2>4 DEF LoadTrue
    <2>6. WaitersCounted(m)'
      BY <2>2, <2>3 DEF WaitersCounted, WaitersOf
    <2> QED
      BY <2>1, <2>2, <2>5, <2>6
  <1>10. \A f \in RelKeys : EntryTrue(f)'
    BY <1>2 DEF FeedInv, EntryTrue
  <1>11. CacheIsBounded'
    BY <1>2 DEF FeedInv, CacheIsBounded, Cached
  <1> QED
    BY <1>5, <1>8, <1>9, <1>10, <1>11 DEF FeedInv

\* The same load, but for its waiters and when it was last used.
SameBut(l, n) ==
    /\ n.at = l.at /\ n.key = l.key /\ n.stamp = l.stamp /\ n.hashed = l.hashed /\ n.seen = l.seen
    /\ n.cancelled = l.cancelled /\ n.err = l.err

SameLoad(l, n) == SameBut(l, n) /\ n.waiters = l.waiters

\* A request that moves on without waiting, and waited for nothing unfinished.
LEMMA ReadMovesOn ==
    ASSUME FeedInv, NEW r \in RelReaders, NEW q \in ReadRecords,
           relReads' = [relReads EXCEPT ![r] = q], relCache'.entries = relCache.entries,
           relCache' \in [entries : [RelKeys -> RelReaders \cup {NoEntry}], clock : Nat],
           relLoads' \in [RelReaders -> LoadRecords],
           \A n \in RelReaders : SameLoad(relLoads[n], relLoads'[n]),
           UNCHANGED <<relFiles, relShown>>,
           ReadTrue(q), q.at # "wait",
           relReads[r].at \in {"wait", "over"} => q.at = "over",
           relReads[r].at = "wait" => relLoads[relReads[r].on].at = "ready"
    PROVE  FeedInv'
  <1>1. FeedTypes /\ FeedTypes'
    BY DEF FeedInv, FeedTypes
  <1>2. ASSUME NEW s \in RelReaders PROVE ReadTrue(relReads[s])' /\ WaitTrue(relReads[s])'
    <2>1. CASE s = r
      <3>1. relReads'[s] = q
        BY <1>1, <2>1 DEF FeedTypes
      <3>2. ReadTrue(q)' /\ WaitTrue(q)'
        BY DEF ReadTrue, WaitTrue, Dated
      <3> QED
        BY <3>1, <3>2 DEF ReadTrue, WaitTrue, Dated
    <2>2. CASE s # r
      <3>1. relReads'[s] = relReads[s]
        BY <1>1, <2>2 DEF FeedTypes
      <3>2. ReadTrue(relReads[s])'
        BY <3>1 DEF FeedInv, ReadTrue, Dated
      <3>3. WaitTrue(relReads[s])'
        BY <3>1 DEF FeedInv, ReadTrue, WaitTrue, SameLoad, SameBut
      <3> QED
        BY <3>2, <3>3
    <2> QED
      BY <2>1, <2>2
  <1>3. ASSUME NEW m \in RelReaders PROVE LoadTrue(relLoads[m])' /\ WaitersCounted(m)'
    <2>1. LoadTrue(relLoads[m])'
      BY DEF FeedInv, LoadTrue, Dated, SameLoad, SameBut
    <2>2. WaitersCounted(m) /\ SameLoad(relLoads[m], relLoads'[m])
      BY DEF FeedInv
    <2>3. relReads'[m].at = relReads[m].at \/ (m = r /\ relReads'[m].at = q.at)
      BY <1>1 DEF FeedTypes
    <2>4. WaitersOf(m)' \subseteq WaitersOf(m)
      BY <1>1 DEF FeedTypes, WaitersOf
    <2>5. relLoads[m].at # "ready" => WaitersOf(m)' = WaitersOf(m)
      BY <1>1 DEF FeedTypes, WaitersOf
    <2> QED
      BY <2>1, <2>2, <2>3, <2>4, <2>5 DEF WaitersCounted, SameLoad, SameBut
  <1>4. ASSUME NEW k \in RelKeys PROVE EntryTrue(k)'
    <2>1. relCache.entries[k] \in RelReaders \cup {NoEntry} /\ EntryTrue(k)
      BY <1>1 DEF FeedTypes, FeedInv
    <2> QED
      BY <2>1 DEF EntryTrue, SameLoad, SameBut
  <1>5. CacheIsBounded'
    BY DEF FeedInv, CacheIsBounded, Cached
  <1> QED
    BY <1>1, <1>2, <1>3, <1>4, <1>5 DEF FeedInv

\* The goroutine of the entry of m reads on, or gives up.
LEMMA LoadReadsOn ==
    ASSUME FeedInv, NEW m \in RelReaders, NEW l \in LoadRecords,
           relLoads' = [relLoads EXCEPT ![m] = l],
           UNCHANGED <<relFiles, relShown, relReads, relCache>>,
           relLoads[m].at \notin {"none", "ready"}, l.at \notin {"none", "ready"},
           l.key = relLoads[m].key, l.waiters = relLoads[m].waiters,
           l.cancelled = relLoads[m].cancelled, LoadTrue(l)
    PROVE  FeedInv'
  <1>1. FeedTypes /\ FeedTypes'
    BY DEF FeedInv, FeedTypes
  <1>2. \A n \in RelReaders : n # m => relLoads'[n] = relLoads[n]
    BY <1>1 DEF FeedTypes
  <1>3. relLoads'[m] = l
    BY <1>1 DEF FeedTypes
  <1>4. ASSUME NEW r \in RelReaders PROVE ReadTrue(relReads[r])' /\ WaitTrue(relReads[r])'
    <2>1. PICK q \in ReadRecords : q = relReads[r]
      BY <1>1 DEF FeedTypes
    <2>2. ReadTrue(q) /\ WaitTrue(q)
      BY <2>1 DEF FeedInv
    <2>3. ReadTrue(q)'
      BY <2>2 DEF ReadTrue, Dated
    <2>4. WaitTrue(q)'
      BY <1>2, <1>3, <2>2 DEF WaitTrue, ReadTrue
    <2> QED
      BY <2>1, <2>3, <2>4
  <1>5. ASSUME NEW n \in RelReaders PROVE LoadTrue(relLoads[n])' /\ WaitersCounted(n)'
    <2>1. LoadTrue(relLoads[n]) /\ WaitersCounted(n)
      BY DEF FeedInv
    <2>2. LoadTrue(l)'
      BY DEF LoadTrue, Dated
    <2>3. LoadTrue(relLoads[n])'
      BY <1>2, <1>3, <2>1, <2>2 DEF LoadTrue, Dated
    <2>4. WaitersOf(n)' = WaitersOf(n)
      BY DEF WaitersOf
    <2>5. WaitersCounted(n)'
      BY <1>2, <1>3, <2>1, <2>4 DEF WaitersCounted
    <2> QED
      BY <2>3, <2>5
  <1>6. ASSUME NEW k \in RelKeys PROVE EntryTrue(k)'
    <2>1. EntryTrue(k)
      BY DEF FeedInv
    <2>2. relCache.entries[k] \in RelReaders \cup {NoEntry}
      BY <1>1 DEF FeedTypes
    <2> QED
      BY <1>2, <1>3, <2>1, <2>2 DEF EntryTrue
  <1>7. CacheIsBounded'
    BY DEF FeedInv, CacheIsBounded, Cached
  <1> QED
    BY <1>1, <1>4, <1>5, <1>6, <1>7 DEF FeedInv

\* Hashing, looking at the artifact again, and signing.
LEMMA LoadingKeeps ==
    ASSUME FeedInv, NEW m \in RelReaders, LoadStep(m), relLoads[m].at # "finish"
    PROVE  FeedInv'
  <1>1. PICK l \in LoadRecords : l = relLoads[m]
    BY DEF FeedInv, FeedTypes
  <1>2. LoadTrue(l)
    BY <1>1 DEF FeedInv
  <1>3. l.at \in {"hash", "artifact", "version"}
    BY <1>1 DEF LoadStep
  <1>4. l.key \in RelKeys /\ relFiles[l.key] \in AnyStamps /\ l.stamp \in AnyStamps
    BY <1>2, <1>3, <1>1 DEF LoadTrue, FeedInv, FeedTypes, LoadRecords
  <1>5. l.stamp.a \in Nat /\ relFiles[l.key].a \in Nat /\ l.hashed \in Nat /\ l.seen \in Nat
        /\ l.stamp = [a |-> l.stamp.a, v |-> l.stamp.v]
    BY <1>1, <1>4 DEF AnyStamps, LoadRecords
  <1> DEFINE hashed == [l EXCEPT !.at = "artifact", !.hashed = relFiles[l.key].a]
             stopped == [l EXCEPT !.at = "finish", !.err = "canceled"]
             failed == [l EXCEPT !.at = "finish", !.err = "failed"]
             looked == [l EXCEPT !.at = "version", !.seen = relFiles[l.key].a]
             signed == [l EXCEPT !.at = "finish",
                          !.err = IF StampMatches(l, relFiles[l.key].v) THEN NoEntry ELSE "failed"]
  <1>6. ASSUME NEW n \in LoadRecords, LoadGoes(m, n), n.at \notin {"none", "ready"}, n.key = l.key,
               n.waiters = l.waiters, n.cancelled = l.cancelled, LoadTrue(n)
        PROVE  FeedInv'
    BY <1>1, <1>3, <1>6, LoadReadsOn DEF LoadGoes
  <1>7. CASE l.at = "hash" /\ LoadGoes(m, hashed)
    <2>1. /\ hashed \in LoadRecords /\ hashed.at = "artifact" /\ hashed.key = l.key
          /\ hashed.waiters = l.waiters /\ hashed.cancelled = l.cancelled /\ hashed.stamp = l.stamp
          /\ hashed.hashed = relFiles[l.key].a /\ hashed.err = l.err
      BY <1>5 DEF LoadRecords, LoadAts
    <2>2. LoadTrue(hashed)
      BY <1>2, <1>3, <1>5, <2>1 DEF LoadTrue, Dated
    <2> QED
      BY <1>6, <1>7, <2>1, <2>2
  <1>8. CASE l.at = "hash" /\ l.cancelled /\ LoadGoes(m, stopped)
    <2>1. /\ stopped \in LoadRecords /\ stopped.at = "finish" /\ stopped.key = l.key
          /\ stopped.waiters = l.waiters /\ stopped.cancelled = l.cancelled
          /\ stopped.stamp = l.stamp /\ stopped.err = "canceled"
      BY DEF LoadRecords, LoadAts
    <2>2. LoadTrue(stopped)
      BY <1>2, <1>3, <1>8, <2>1 DEF LoadTrue, NoEntry
    <2> QED
      BY <1>6, <1>8, <2>1, <2>2
  <1>9. CASE l.at = "hash" /\ LoadGoes(m, failed)
    <2>1. /\ failed \in LoadRecords /\ failed.at = "finish" /\ failed.key = l.key
          /\ failed.waiters = l.waiters /\ failed.cancelled = l.cancelled
          /\ failed.stamp = l.stamp /\ failed.err = "failed"
      BY DEF LoadRecords, LoadAts
    <2>2. LoadTrue(failed)
      BY <1>2, <1>3, <2>1 DEF LoadTrue, NoEntry
    <2> QED
      BY <1>6, <1>9, <2>1, <2>2
  <1>10. CASE l.at = "artifact" /\ LoadGoes(m, looked)
    <2>1. /\ looked \in LoadRecords /\ looked.at = "version" /\ looked.key = l.key
          /\ looked.waiters = l.waiters /\ looked.cancelled = l.cancelled /\ looked.stamp = l.stamp
          /\ looked.hashed = l.hashed /\ looked.seen = relFiles[l.key].a /\ looked.err = l.err
      BY <1>5 DEF LoadRecords, LoadAts
    <2>2. LoadTrue(looked)
      BY <1>2, <1>3, <1>5, <1>10, <2>1 DEF LoadTrue, Dated
    <2> QED
      BY <1>6, <1>10, <2>1, <2>2
  <1>11. CASE l.at = "version" /\ LoadGoes(m, signed)
    <2>1. /\ signed \in LoadRecords /\ signed.at = "finish" /\ signed.key = l.key
          /\ signed.waiters = l.waiters /\ signed.cancelled = l.cancelled /\ signed.stamp = l.stamp
          /\ signed.hashed = l.hashed /\ signed.err # "canceled"
          /\ signed.err = NoEntry => l.seen = l.stamp.a
      BY <1>5 DEF LoadRecords, LoadAts, StampMatches, NoEntry
    <2>2. signed.err = NoEntry => l.hashed = l.stamp.a /\ l.stamp \in relShown[l.key]
      BY <1>2, <1>5, <1>11, <2>1 DEF LoadTrue
    <2>3. LoadTrue(signed)
      BY <1>2, <1>3, <1>5, <2>1, <2>2 DEF LoadTrue
    <2> QED
      BY <1>6, <1>11, <2>1, <2>3
  <1> QED
    BY <1>1, <1>3, <1>7, <1>8, <1>9, <1>10, <1>11
       DEF LoadStep, FileSHA256Context, InspectReleaseFile, SignManifest

\* Entries are only taken out: the cache gets no larger.
LEMMA TakenOut ==
    ASSUME CacheIsBounded,
           \A k \in RelKeys : relCache'.entries[k] \in {relCache.entries[k], NoEntry}
    PROVE  CacheIsBounded'
  <1>1. Cached' \subseteq Cached
    BY DEF Cached
  <1>2. IsFiniteSet(Cached)
    BY FS_Subset, ReleaseCacheAssumption DEF Cached
  <1>3. Cardinality(Cached') <= Cardinality(Cached) /\ Cardinality(Cached) \in Nat
        /\ Cardinality(Cached') \in Nat
    BY <1>1, <1>2, FS_Subset, FS_CardinalityType
  <1> QED
    BY <1>3, ReleaseCacheAssumption DEF CacheIsBounded

\* The result is set; an error leaves the cache with it.
LEMMA CacheLoadKeeps ==
    ASSUME FeedInv, NEW m \in RelReaders, relLoads[m].at = "finish", CacheLoad(m)
    PROVE  FeedInv'
  <1>1. PICK l \in LoadRecords : l = relLoads[m]
    BY DEF FeedInv, FeedTypes
  <1> DEFINE n == [l EXCEPT !.at = "ready", !.waiters = 0]
  <1>2. /\ n \in LoadRecords /\ n.at = "ready" /\ n.key = l.key /\ n.stamp = l.stamp
        /\ n.hashed = l.hashed /\ n.err = l.err /\ n.cancelled = l.cancelled
    BY DEF LoadRecords, LoadAts
  <1>3. relLoads' = [relLoads EXCEPT ![m] = n] /\ UNCHANGED <<relFiles, relShown, relReads>>
    BY <1>1 DEF CacheLoad
  <1>4. l.at = "finish" /\ LoadTrue(l) /\ WaitersCounted(m) /\ l.key \in RelKeys
    BY <1>1 DEF FeedInv, LoadTrue
  <1> HIDE DEF n
  <1>5. FeedTypes
    BY DEF FeedInv
  <1>6. /\ relCache' \in [entries : [RelKeys -> RelReaders \cup {NoEntry}], clock : Nat]
        /\ \A k \in RelKeys : \/ relCache'.entries[k] = NoEntry
                              \/ /\ relCache'.entries[k] = relCache.entries[k]
                                 /\ ~(l.err # NoEntry /\ relCache.entries[k] = m /\ k = l.key)
    BY <1>1, <1>4, <1>5 DEF CacheLoad, Forget, FeedTypes
  <1>7. FeedTypes'
    BY <1>2, <1>3, <1>5, <1>6 DEF FeedTypes
  <1>8. relLoads'[m] = n /\ \A o \in RelReaders : o # m => relLoads'[o] = relLoads[o]
    BY <1>3, <1>5 DEF FeedTypes
  <1>9. ASSUME NEW r \in RelReaders PROVE ReadTrue(relReads[r])' /\ WaitTrue(relReads[r])'
    <2>1. PICK q \in ReadRecords : q = relReads[r]
      BY <1>5 DEF FeedTypes
    <2>2. ReadTrue(q) /\ WaitTrue(q)
      BY <2>1 DEF FeedInv
    <2>3. ReadTrue(q)'
      BY <1>3, <2>2 DEF ReadTrue, Dated
    <2>4. WaitTrue(q)'
      BY <1>1, <1>2, <1>8, <2>2 DEF WaitTrue, ReadTrue
    <2> QED
      BY <1>3, <2>1, <2>3, <2>4
  <1>10. ASSUME NEW o \in RelReaders PROVE LoadTrue(relLoads[o])' /\ WaitersCounted(o)'
    <2>1. LoadTrue(relLoads[o]) /\ WaitersCounted(o)
      BY DEF FeedInv
    <2>2. LoadTrue(n)'
      BY <1>2, <1>3, <1>4 DEF LoadTrue, Dated
    <2>3. LoadTrue(relLoads[o])'
      BY <1>3, <1>8, <2>1, <2>2 DEF LoadTrue, Dated
    <2>4. WaitersOf(o)' = WaitersOf(o) /\ relReads' = relReads
      BY <1>3 DEF WaitersOf
    <2>5. relLoads'[o].cancelled = relLoads[o].cancelled
      BY <1>1, <1>2, <1>8
    <2>6. relLoads[o].cancelled => \A k \in RelKeys : relCache'.entries[k] # o
      BY <1>6, <2>1, ReleaseCacheAssumption DEF WaitersCounted, NoEntry
    <2>7. relLoads'[o].at = relLoads[o].at \/ (o = m /\ relLoads'[o].at = "ready")
      BY <1>2, <1>8
    <2>8. relLoads'[o].at # relLoads[o].at => relLoads[o].at = "finish"
      BY <1>8
    <2>9. relLoads'[o].at \notin {"none", "ready"} => relLoads'[o] = relLoads[o]
      BY <1>2, <1>8
    <2> QED
      BY <2>1, <2>3, <2>4, <2>5, <2>6, <2>7, <2>8, <2>9 DEF WaitersCounted
  <1>11. ASSUME NEW k \in RelKeys PROVE EntryTrue(k)'
    <2>1. PICK o \in RelReaders \cup {NoEntry} : o = relCache'.entries[k]
      BY <1>6
    <2>2. CASE o # NoEntry
      <3>1. o = relCache.entries[k] /\ EntryTrue(k) /\ o \in RelReaders
        BY <1>6, <2>1, <2>2 DEF FeedInv
      <3>2. relLoads[o].at # "none" /\ relLoads[o].key = k
        BY <2>2, <3>1 DEF EntryTrue
      <3>3. o = m => l.err = NoEntry
        BY <1>1, <1>6, <2>1, <2>2, <3>1, <3>2
      <3> QED
        BY <1>1, <1>2, <1>8, <2>1, <3>1, <3>2, <3>3 DEF EntryTrue
    <2> QED
      BY <2>1, <2>2 DEF EntryTrue
  <1>12. CacheIsBounded'
    BY <1>6, TakenOut DEF FeedInv
  <1> QED
    BY <1>7, <1>9, <1>10, <1>11, <1>12 DEF FeedInv

\* The record of a new load.
LEMMA NewLoads ==
    ASSUME NEW q \in ReadRecords, q.key \in RelKeys, NEW u \in Nat
    PROVE  LET n == NewLoad(q, u)
           IN  /\ n \in LoadRecords /\ n.at = "hash" /\ n.key = q.key /\ n.stamp = q.stamp
               /\ n.waiters = 1 /\ n.cancelled = FALSE /\ n.err = NoEntry
  <1>1. PICK s \in AnyStamps : s = q.stamp
    BY DEF ReadRecords
  <1>2. PICK k \in RelKeys : k = q.key
    OBVIOUS
  <1> QED
    BY <1>1, <1>2 DEF NewLoad, NoLoad, LoadRecords, LoadAts, AnyStamps, Nothing, NoEntry

\* The record of a load that one more waits for.
LEMMA JoinedLoads ==
    ASSUME NEW l \in LoadRecords, NEW u \in Nat
    PROVE  LET n == JoinedLoad(l, u)
           IN  n \in LoadRecords /\ n.waiters = l.waiters + 1 /\ SameBut(l, n)
  <1> DEFINE a == [l EXCEPT !.used = u]
             n == JoinedLoad(l, u)
  <1>1. a \in LoadRecords /\ a.waiters = l.waiters /\ SameBut(l, a) /\ l.waiters \in Nat
    BY DEF LoadRecords, SameBut
  <1>2. n = [a EXCEPT !.waiters = l.waiters + 1]
    BY <1>1 DEF JoinedLoad
  <1> HIDE DEF a, n
  <1>3. n \in LoadRecords /\ n.waiters = l.waiters + 1 /\ SameBut(a, n)
    BY <1>1, <1>2 DEF LoadRecords, SameBut
  <1>4. n \in LoadRecords /\ n.waiters = l.waiters + 1 /\ SameBut(l, n)
    BY <1>1, <1>3 DEF SameBut
  <1> QED
    BY <1>4 DEF n

\* The record of a load that one leaves.
LEMMA LeftLoads ==
    ASSUME NEW l \in LoadRecords, l.waiters # 0
    PROVE  LET n == LeftLoad(l)
           IN  /\ n \in LoadRecords /\ n.waiters = l.waiters - 1 /\ (n.cancelled <=> l.waiters = 1)
               /\ n.at = l.at /\ n.key = l.key /\ n.stamp = l.stamp /\ n.hashed = l.hashed
               /\ n.seen = l.seen /\ n.err = l.err
  <1> DEFINE a == [l EXCEPT !.waiters = @ - 1]
             n == LeftLoad(l)
  <1>1. /\ a \in LoadRecords /\ a.waiters = l.waiters - 1
        /\ a.at = l.at /\ a.key = l.key /\ a.stamp = l.stamp /\ a.hashed = l.hashed
        /\ a.seen = l.seen /\ a.err = l.err
    BY DEF LoadRecords
  <1>2. PICK b \in BOOLEAN : b = (l.waiters = 1)
    OBVIOUS
  <1>3. n = [a EXCEPT !.cancelled = b]
    BY <1>2 DEF LeftLoad
  <1>4. b <=> l.waiters = 1
    BY <1>2
  <1> HIDE DEF a, n
  <1>5. n \in LoadRecords /\ n.cancelled = b /\ n.waiters = a.waiters /\ n.at = a.at /\ n.key = a.key
        /\ n.stamp = a.stamp /\ n.hashed = a.hashed /\ n.seen = a.seen /\ n.err = a.err
    BY <1>1, <1>3 DEF LoadRecords
  <1>6. /\ n \in LoadRecords /\ n.waiters = l.waiters - 1 /\ (n.cancelled <=> l.waiters = 1)
        /\ n.at = l.at /\ n.key = l.key /\ n.stamp = l.stamp /\ n.hashed = l.hashed
        /\ n.seen = l.seen /\ n.err = l.err
    BY <1>1, <1>4, <1>5
  <1> QED
    BY <1>6 DEF n

\* The record of a request that begins to wait.
LEMMA WaitingReads ==
    ASSUME NEW q \in ReadRecords, NEW m \in RelReaders
    PROVE  LET w == WaitsFor(q, m)
           IN  /\ w \in ReadRecords /\ w.at = "wait" /\ w.on = m /\ w.key = q.key
               /\ w.answer = q.answer
  BY DEF ReadRecords, WaitsFor

\* A place among the waiters of a generation that is being made.
LEMMA JoinKeeps ==
    ASSUME FeedInv, NEW r \in RelReaders, relReads[r].at = "get",
           NEW m \in RelReaders, NEW k \in RelKeys, relReads[r].key = k, relCache.entries[k] = m,
           relLoads[m].at # "ready",
           NEW n \in LoadRecords, n.waiters = relLoads[m].waiters + 1,
           SameBut(relLoads[m], n),
           NEW w \in ReadRecords, w.at = "wait", w.on = m, w.key = k, w.answer = relReads[r].answer,
           relCache'.entries = relCache.entries,
           relCache' \in [entries : [RelKeys -> RelReaders \cup {NoEntry}], clock : Nat],
           relLoads' = [relLoads EXCEPT ![m] = n], relReads' = [relReads EXCEPT ![r] = w],
           UNCHANGED <<relFiles, relShown>>
    PROVE  FeedInv'
  <1>1. PICK l \in LoadRecords : l = relLoads[m]
    BY DEF FeedInv, FeedTypes
  <1>2. PICK q \in ReadRecords : q = relReads[r]
    BY DEF FeedInv, FeedTypes
  <1>3. /\ l.waiters \in Nat /\ n.waiters = l.waiters + 1 /\ n.at = l.at /\ n.key = l.key
        /\ n.stamp = l.stamp /\ n.hashed = l.hashed /\ n.seen = l.seen
        /\ n.cancelled = l.cancelled /\ n.err = l.err
    BY <1>1 DEF LoadRecords, SameBut
  <1>6. FeedTypes /\ FeedTypes'
    BY DEF FeedInv, FeedTypes
  <1>7. relLoads'[m] = n /\ \A o \in RelReaders : o # m => relLoads'[o] = relLoads[o]
    BY <1>6 DEF FeedTypes
  <1>8. relReads'[r] = w /\ \A o \in RelReaders : o # r => relReads'[o] = relReads[o]
    BY <1>6 DEF FeedTypes
  <1>9. EntryTrue(k) /\ LoadTrue(l) /\ WaitersCounted(m) /\ ReadTrue(q) /\ WaitTrue(q) /\ WaitersCounted(r)
    BY <1>1, <1>2 DEF FeedInv
  <1>10. m # NoEntry /\ l.at # "none" /\ l.key = k
    BY <1>1, <1>9, ReleaseCacheAssumption DEF EntryTrue, NoEntry
  <1>11. ASSUME NEW s \in RelReaders PROVE ReadTrue(relReads[s])' /\ WaitTrue(relReads[s])'
    <2>1. PICK p \in ReadRecords : p = relReads[s]
      BY <1>6 DEF FeedTypes
    <2>2. ReadTrue(p) /\ WaitTrue(p)
      BY <2>1 DEF FeedInv
    <2>3. ReadTrue(p)'
      BY <2>2 DEF ReadTrue, Dated
    <2>4. WaitTrue(p)'
      BY <1>1, <1>3, <1>7, <2>2 DEF WaitTrue, ReadTrue
    <2>5. ReadTrue(w)' /\ WaitTrue(w)'
      BY <1>2, <1>3, <1>7, <1>9, <1>10 DEF ReadTrue, WaitTrue, NoEntry
    <2> QED
      BY <1>8, <2>1, <2>3, <2>4, <2>5
  <1>12. ASSUME NEW o \in RelReaders PROVE LoadTrue(relLoads[o])' /\ WaitersCounted(o)'
    <2>1. LoadTrue(relLoads[o]) /\ WaitersCounted(o)
      BY DEF FeedInv
    <2>2. LoadTrue(n)'
      BY <1>3, <1>9 DEF LoadTrue, Dated
    <2>3. LoadTrue(relLoads[o])'
      BY <1>7, <2>1, <2>2 DEF LoadTrue, Dated
    <2>4. o # m => WaitersOf(o)' = WaitersOf(o)
      BY <1>2, <1>6, <1>8 DEF WaitersOf
    <2>5. WaitersOf(m)' = WaitersOf(m) \cup {r} /\ r \notin WaitersOf(m)
      BY <1>2, <1>8 DEF WaitersOf
    <2>6. IsFiniteSet(WaitersOf(m))
      BY FS_Subset, ReleaseCacheAssumption DEF WaitersOf
    <2>7. Cardinality(WaitersOf(m)') = Cardinality(WaitersOf(m)) + 1
      <3>1. Cardinality(WaitersOf(m) \cup {r}) = Cardinality(WaitersOf(m)) + 1
        BY <2>5, <2>6, FS_AddElement
      <3> QED
        BY <2>5, <3>1
    <2>8. relLoads'[o].at = relLoads[o].at /\ relLoads'[o].cancelled = relLoads[o].cancelled
      BY <1>1, <1>3, <1>7
    <2>9. ~l.cancelled
      BY <1>1, <1>9 DEF WaitersCounted
    <2>10. relLoads'[o].at # "none" => relReads'[o].at \in {"wait", "over"}
      BY <1>8, <2>1, <2>8 DEF WaitersCounted
    <2>11. CASE o = m
      BY <1>1, <1>3, <1>7, <1>9, <2>3, <2>7, <2>8, <2>9, <2>10, <2>11 DEF WaitersCounted
    <2>12. CASE o # m
      BY <1>7, <2>1, <2>3, <2>4, <2>8, <2>10, <2>12 DEF WaitersCounted
    <2> QED
      BY <2>11, <2>12
  <1>13. ASSUME NEW f \in RelKeys PROVE EntryTrue(f)'
    <2>1. relCache.entries[f] \in RelReaders \cup {NoEntry} /\ EntryTrue(f)
      BY <1>6 DEF FeedTypes, FeedInv
    <2> QED
      BY <1>1, <1>3, <1>7, <2>1 DEF EntryTrue
  <1>14. CacheIsBounded'
    BY DEF FeedInv, CacheIsBounded, Cached
  <1> QED
    BY <1>6, <1>11, <1>12, <1>13, <1>14 DEF FeedInv

\* A new entry has its maker as its only waiter.
LEMMA NewKeeps ==
    ASSUME FeedInv, NEW r \in RelReaders, relReads[r].at = "get", NewEntry(r),
           NEW n \in LoadRecords, n.at = "hash", n.key = relReads[r].key, n.stamp = relReads[r].stamp,
           n.waiters = 1, n.cancelled = FALSE, n.err = NoEntry,
           NEW w \in ReadRecords, w.at = "wait", w.on = r, w.key = relReads[r].key,
           w.answer = relReads[r].answer,
           relLoads' = [relLoads EXCEPT ![r] = n], relReads' = [relReads EXCEPT ![r] = w],
           UNCHANGED <<relFiles, relShown>>
    PROVE  FeedInv'
  <1>1. FeedTypes
    BY DEF FeedInv
  <1>2. PICK q \in ReadRecords : q = relReads[r]
    BY <1>1 DEF FeedTypes
  <1>3. ReadTrue(q) /\ WaitersCounted(r) /\ relLoads[r].at = "none" /\ q.key \in RelKeys
        /\ Dated(q.key, q.stamp) /\ q.stamp \in AnyStamps
    BY <1>2 DEF FeedInv, WaitersCounted, ReadTrue, ReadRecords
  <1>4. PICK k \in RelKeys : k = q.key
    BY <1>3
  <1>5. relCache.clock \in Nat
    BY <1>1 DEF FeedTypes
  <1>7. n.key = k /\ n.stamp = q.stamp
    BY <1>2, <1>4
  <1>8. w.key = q.key /\ w.answer = q.answer
    BY <1>2
  <1>9. /\ relCache' \in [entries : [RelKeys -> RelReaders \cup {NoEntry}], clock : Nat]
        /\ relCache'.entries[k] = r
        /\ \A f \in RelKeys : f # k => relCache'.entries[f] \in {relCache.entries[f], NoEntry}
    BY <1>1, <1>2, <1>4, <1>5 DEF NewEntry, FeedTypes, Cached
  <1>10. FeedTypes'
    BY <1>1, <1>9 DEF FeedTypes
  <1>11. relLoads'[r] = n /\ \A o \in RelReaders : o # r => relLoads'[o] = relLoads[o]
    BY <1>1 DEF FeedTypes
  <1>12. relReads'[r] = w /\ \A o \in RelReaders : o # r => relReads'[o] = relReads[o]
    BY <1>1 DEF FeedTypes
  <1>13. r # NoEntry
    BY ReleaseCacheAssumption DEF NoEntry
  <1>14. ASSUME NEW s \in RelReaders PROVE ReadTrue(relReads[s])' /\ WaitTrue(relReads[s])'
    <2>1. PICK p \in ReadRecords : p = relReads[s]
      BY <1>1 DEF FeedTypes
    <2>2. ReadTrue(p) /\ WaitTrue(p)
      BY <2>1 DEF FeedInv
    <2>3. ReadTrue(p)'
      BY <2>2 DEF ReadTrue, Dated
    <2>4. WaitTrue(p)'
      BY <1>3, <1>11, <2>2 DEF WaitTrue, ReadTrue
    <2>5. ReadTrue(w)' /\ WaitTrue(w)'
      BY <1>2, <1>3, <1>4, <1>7, <1>8, <1>11, <1>13 DEF ReadTrue, WaitTrue, NoEntry
    <2> QED
      BY <1>12, <2>1, <2>3, <2>4, <2>5
  <1>15. ASSUME NEW o \in RelReaders PROVE LoadTrue(relLoads[o])' /\ WaitersCounted(o)'
    <2>1. LoadTrue(relLoads[o]) /\ WaitersCounted(o)
      BY DEF FeedInv
    <2>2. LoadTrue(n)'
      BY <1>3, <1>4, <1>7 DEF LoadTrue, Dated, NoEntry
    <2>3. LoadTrue(relLoads[o])'
      BY <1>11, <2>1, <2>2 DEF LoadTrue, Dated
    <2>4. o # r => WaitersOf(o)' = WaitersOf(o)
      BY <1>2, <1>8, <1>12 DEF WaitersOf
    <2>5. ASSUME NEW s \in RelReaders, relReads[s].at = "wait" PROVE relReads[s].on # r
      BY <1>3, <2>5 DEF FeedInv, WaitTrue
    <2>6. WaitersOf(r)' = {r}
      BY <1>8, <1>12, <2>5 DEF WaitersOf
    <2>7. Cardinality(WaitersOf(r)') = 1
      BY <2>6, FS_Singleton
    <2>8. CASE o = r
      BY <1>7, <1>8, <1>11, <1>12, <2>3, <2>7, <2>8 DEF WaitersCounted
    <2>9. CASE o # r
      <3>1. relLoads'[o].cancelled => \A f \in RelKeys : relCache'.entries[f] # o
        BY <1>9, <1>11, <2>1, <2>9, ReleaseCacheAssumption DEF WaitersCounted, NoEntry
      <3> QED
        BY <1>11, <1>12, <2>1, <2>3, <2>4, <2>9, <3>1 DEF WaitersCounted
    <2> QED
      BY <2>8, <2>9
  <1>16. ASSUME NEW f \in RelKeys PROVE EntryTrue(f)'
    <2>1. relCache.entries[f] \in RelReaders \cup {NoEntry} /\ EntryTrue(f)
      BY <1>1 DEF FeedTypes, FeedInv
    <2>2. CASE f = k
      BY <1>7, <1>9, <1>11, <2>2 DEF EntryTrue
    <2>3. CASE f # k
      BY <1>3, <1>9, <1>11, <2>1, <2>3 DEF EntryTrue
    <2> QED
      BY <2>2, <2>3
  <1>17. CacheIsBounded'
    <2>1. IsFiniteSet(Cached)
      BY FS_Subset, ReleaseCacheAssumption DEF Cached
    <2>2. CASE relCache.entries[k] # NoEntry
      <3>1. Cached' \subseteq Cached
        BY <1>9, <2>2 DEF Cached
      <3>2. Cardinality(Cached') <= Cardinality(Cached) /\ Cardinality(Cached) \in Nat
            /\ Cardinality(Cached') \in Nat
        BY <2>1, <3>1, FS_Subset, FS_CardinalityType
      <3> QED
        BY <3>2, ReleaseCacheAssumption DEF CacheIsBounded, FeedInv
    <2>3. CASE relCache.entries[k] = NoEntry /\ Cardinality(Cached) < MaxManifests
      <3>1. Cached' \subseteq Cached \cup {k} /\ k \notin Cached
        BY <1>9, <2>3 DEF Cached
      <3>2. IsFiniteSet(Cached \cup {k}) /\ Cardinality(Cached \cup {k}) = Cardinality(Cached) + 1
        BY <2>1, <3>1, FS_AddElement
      <3>3. Cardinality(Cached') <= Cardinality(Cached) + 1 /\ Cardinality(Cached) \in Nat
            /\ Cardinality(Cached') \in Nat
        BY <2>1, <3>1, <3>2, FS_Subset, FS_CardinalityType
      <3> QED
        BY <2>3, <3>3, ReleaseCacheAssumption DEF CacheIsBounded
    <2>4. CASE relCache.entries[k] = NoEntry /\ ~(Cardinality(Cached) < MaxManifests)
      <3>1. PICK old \in Cached : relCache'.entries = [relCache.entries EXCEPT ![old] = NoEntry, ![k] = r]
        <4>1. relReads[r].key = k
          BY <1>2, <1>4
        <4>2. \E old \in {c \in Cached : ~Loading(c)} :
                 relCache' = [entries |-> [relCache.entries EXCEPT ![old] = NoEntry, ![k] = r],
                              clock |-> relCache.clock + 1]
          BY <2>4, <4>1, Zenon DEF NewEntry
        <4>3. PICK old \in Cached : relCache' = [entries |-> [relCache.entries EXCEPT ![old] = NoEntry, ![k] = r],
                                               clock |-> relCache.clock + 1]
          BY <4>2, Zenon
        <4>4. ASSUME NEW es, NEW c, relCache' = [entries |-> es, clock |-> c] PROVE relCache'.entries = es
          BY <4>4
        <4>5. relCache'.entries = [relCache.entries EXCEPT ![old] = NoEntry, ![k] = r]
          BY <4>3, <4>4, Zenon
        <4> QED
          BY <4>5, Zenon
      <3>2. old \in RelKeys /\ old # k /\ k \notin Cached
        BY <2>4 DEF Cached
      <3>3. Cached' = (Cached \ {old}) \cup {k}
        BY <1>1, <1>13, <3>1, <3>2 DEF Cached, FeedTypes
      <3>4. IsFiniteSet(Cached \ {old}) /\ Cardinality(Cached \ {old}) = Cardinality(Cached) - 1
        BY <2>1, <3>1, FS_RemoveElement
      <3>5. Cardinality(Cached') = Cardinality(Cached \ {old}) + 1
        BY <3>2, <3>3, <3>4, FS_AddElement
      <3>6. Cardinality(Cached) \in Nat
        BY <2>1, FS_CardinalityType
      <3> QED
        BY <3>4, <3>5, <3>6, ReleaseCacheAssumption DEF CacheIsBounded, FeedInv
    <2> QED
      BY <2>2, <2>3, <2>4
  <1> QED
    BY <1>10, <1>14, <1>15, <1>16, <1>17 DEF FeedInv

\* Who waits goes away; the last one cancels the generation and takes it out.
LEMMA LeaveKeeps ==
    ASSUME FeedInv, NEW r \in RelReaders, relReads[r].at = "wait",
           NEW m \in RelReaders, m = relReads[r].on, relLoads[m].at # "ready",
           NEW q \in ReadRecords, q.at = "over", q.answer = "own",
           NEW n \in LoadRecords, n.waiters = relLoads[m].waiters - 1,
           n.cancelled <=> relLoads[m].waiters = 1,
           n.at = relLoads[m].at, n.key = relLoads[m].key, n.stamp = relLoads[m].stamp,
           n.hashed = relLoads[m].hashed, n.seen = relLoads[m].seen, n.err = relLoads[m].err,
           relLoads' = [relLoads EXCEPT ![m] = n], relReads' = [relReads EXCEPT ![r] = q],
           relCache' = IF relLoads[m].waiters = 1 /\ relCache.entries[relLoads[m].key] = m
                       THEN Forget(relLoads[m].key) ELSE relCache,
           UNCHANGED <<relFiles, relShown>>
    PROVE  FeedInv'
  <1>1. FeedTypes
    BY DEF FeedInv
  <1>2. PICK l \in LoadRecords : l = relLoads[m]
    BY <1>1 DEF FeedTypes
  <1>3. /\ l.waiters \in Nat /\ n.waiters = l.waiters - 1 /\ n.at = l.at /\ n.key = l.key
        /\ n.stamp = l.stamp /\ n.hashed = l.hashed /\ n.seen = l.seen
        /\ n.err = l.err /\ (n.cancelled <=> l.waiters = 1)
    BY <1>2 DEF LoadRecords
  <1>4. LoadTrue(l) /\ WaitersCounted(m) /\ WaitTrue(relReads[r]) /\ WaitersCounted(r) /\ r \in WaitersOf(m)
    BY <1>2 DEF FeedInv, WaitersOf
  <1>5. l.at \notin {"none", "ready"} /\ l.key \in RelKeys /\ ~l.cancelled
        /\ l.waiters = Cardinality(WaitersOf(m))
    BY <1>2, <1>4 DEF WaitTrue, LoadTrue, WaitersCounted
  <1>6. /\ relCache' \in [entries : [RelKeys -> RelReaders \cup {NoEntry}], clock : Nat]
        /\ \A k \in RelKeys : relCache'.entries[k] \in {relCache.entries[k], NoEntry}
        /\ l.waiters = 1 => relCache'.entries[l.key] \in (RelReaders \cup {NoEntry}) \ {m}
    BY <1>1, <1>2, <1>5, ReleaseCacheAssumption DEF FeedTypes, Forget, NoEntry
  <1>7. FeedTypes'
    BY <1>1, <1>6 DEF FeedTypes
  <1>8. relLoads'[m] = n /\ \A o \in RelReaders : o # m => relLoads'[o] = relLoads[o]
    BY <1>1 DEF FeedTypes
  <1>9. relReads'[r] = q /\ \A o \in RelReaders : o # r => relReads'[o] = relReads[o]
    BY <1>1 DEF FeedTypes
  <1>10. IsFiniteSet(WaitersOf(m))
    BY FS_Subset, ReleaseCacheAssumption DEF WaitersOf
  <1>11. WaitersOf(m)' = WaitersOf(m) \ {r}
    BY <1>9 DEF WaitersOf
  <1>12. /\ Cardinality(WaitersOf(m)') = l.waiters - 1
         /\ l.waiters = 1 => WaitersOf(m)' = {}
    <2>1. /\ IsFiniteSet(WaitersOf(m) \ {r})
          /\ Cardinality(WaitersOf(m) \ {r}) = Cardinality(WaitersOf(m)) - 1
      BY <1>4, <1>10, FS_RemoveElement
    <2>2. l.waiters = 1 => Cardinality(WaitersOf(m) \ {r}) = 0
      BY <1>2, <1>5, <2>1
    <2>3. l.waiters = 1 => WaitersOf(m) \ {r} = {}
      BY <2>1, <2>2, FS_EmptySet
    <2> QED
      BY <1>5, <1>11, <2>1, <2>3
  <1>13. ASSUME NEW s \in RelReaders PROVE ReadTrue(relReads[s])' /\ WaitTrue(relReads[s])'
    <2>1. PICK p \in ReadRecords : p = relReads[s]
      BY <1>1 DEF FeedTypes
    <2>2. ReadTrue(p) /\ WaitTrue(p)
      BY <2>1 DEF FeedInv
    <2>3. ReadTrue(p)'
      BY <2>2 DEF ReadTrue, Dated
    <2>4. WaitTrue(p)'
      BY <1>2, <1>3, <1>8, <2>2 DEF WaitTrue, ReadTrue
    <2>5. ReadTrue(q)' /\ WaitTrue(q)'
      BY DEF ReadTrue, WaitTrue
    <2> QED
      BY <1>9, <2>1, <2>3, <2>4, <2>5
  <1>14. ASSUME NEW o \in RelReaders PROVE LoadTrue(relLoads[o])' /\ WaitersCounted(o)'
    <2>1. LoadTrue(relLoads[o]) /\ WaitersCounted(o)
      BY DEF FeedInv
    <2>2. l.err # "canceled"
      BY <1>4, <1>5 DEF LoadTrue
    <2>3. LoadTrue(n)'
      BY <1>3, <1>4, <2>2 DEF LoadTrue, Dated
    <2>4. LoadTrue(relLoads[o])'
      BY <1>8, <2>1, <2>3 DEF LoadTrue, Dated
    <2>5. relReads'[o].at \in {"wait", "over"} \/ relReads'[o].at = relReads[o].at
      BY <1>9
    <2>6. CASE o = m
      <3>1. l.waiters = 1 => \A k \in RelKeys : relCache'.entries[k] # m
        <4>1. ASSUME NEW k \in RelKeys, l.waiters = 1, relCache'.entries[k] = m PROVE FALSE
          <5>1. m # NoEntry
            BY ReleaseCacheAssumption DEF NoEntry
          <5>3. relCache.entries[k] = m /\ EntryTrue(k)
            BY <1>6, <4>1, <5>1 DEF FeedInv
          <5>2. k = l.key
            BY <1>2, <5>1, <5>3 DEF EntryTrue
          <5> QED
            BY <1>6, <4>1, <5>2
        <4> QED
          BY <4>1
      <3>2. relReads'[m].at \in {"wait", "over"}
        BY <1>2, <1>4, <1>5, <1>9 DEF WaitersCounted
      <3> QED
        BY <1>3, <1>8, <1>12, <2>6, <3>1, <3>2, <2>4 DEF WaitersCounted
    <2>7. CASE o # m
      <3>1. WaitersOf(o)' = WaitersOf(o)
        BY <1>9, <2>7 DEF WaitersOf
      <3>2. relLoads'[o] = relLoads[o]
        BY <1>8, <2>7
      <3>3. relLoads[o].cancelled => \A k \in RelKeys : relCache'.entries[k] # o
        <4>1. o # NoEntry
          BY ReleaseCacheAssumption DEF NoEntry
        <4> QED
          <5>1. \A k \in RelKeys : relCache'.entries[k] \in {relCache.entries[k], NoEntry}
            BY <1>6
          <5>2. relLoads[o].cancelled => \A k \in RelKeys : relCache.entries[k] # o
            BY <2>1 DEF WaitersCounted
          <5> QED
            BY <4>1, <5>1, <5>2
      <3> QED
        BY <2>1, <2>4, <2>5, <3>1, <3>2, <3>3 DEF WaitersCounted
    <2> QED
      BY <2>6, <2>7
  <1>15. ASSUME NEW f \in RelKeys PROVE EntryTrue(f)'
    <2>1. relCache.entries[f] \in RelReaders \cup {NoEntry} /\ EntryTrue(f)
      BY <1>1 DEF FeedTypes, FeedInv
    <2>2. CASE relCache'.entries[f] = NoEntry
      BY <2>2 DEF EntryTrue
    <2>3. CASE relCache'.entries[f] = relCache.entries[f] /\ relCache.entries[f] # NoEntry
      <3>1. PICK o \in RelReaders : o = relCache.entries[f]
        BY <2>1, <2>3
      <3>4. relCache'.entries[f] = o
        BY <2>3, <3>1
      <3>2. relLoads[o].at # "none" /\ relLoads[o].key = f
            /\ (relLoads[o].at = "ready" => relLoads[o].err = NoEntry)
        BY <2>1, <2>3, <3>1 DEF EntryTrue
      <3>3. relLoads'[o].at = relLoads[o].at /\ relLoads'[o].key = relLoads[o].key
            /\ relLoads'[o].err = relLoads[o].err
        BY <1>2, <1>3, <1>8
      <3> QED
        <4>1. /\ relLoads'[o].at # "none" /\ relLoads'[o].key = f
              /\ relLoads'[o].at = "ready" => relLoads'[o].err = NoEntry
          BY <3>2, <3>3
        <4> QED
          BY <3>4, <4>1 DEF EntryTrue
    <2> QED
      BY <1>6, <2>2, <2>3
  <1>16. CacheIsBounded'
    BY <1>6, TakenOut DEF FeedInv
  <1> QED
    BY <1>7, <1>13, <1>14, <1>15, <1>16 DEF FeedInv

\* The request, from the stamp to the answer.
LEMMA ReadingKeeps == ASSUME FeedInv, NEW r \in RelReaders, ReadStep(r) PROVE FeedInv'
  <1>1. FeedTypes
    BY DEF FeedInv
  <1>2. PICK q \in ReadRecords : q = relReads[r]
    BY <1>1 DEF FeedTypes
  <1>3. ReadTrue(q) /\ WaitTrue(q) /\ q.stamp \in AnyStamps
    BY <1>2 DEF FeedInv, ReadRecords
  <1>4. q.at \in {"none", "version", "get", "full", "wait"}
    BY <1>2 DEF ReadStep
  <1>5. ASSUME NEW w \in ReadRecords, relReads' = [relReads EXCEPT ![r] = w],
               UNCHANGED <<relFiles, relShown, relLoads, relCache>>, ReadTrue(w), w.at # "wait",
               q.at = "wait" => w.at = "over" /\ relLoads[q.on].at = "ready"
        PROVE  FeedInv'
    <2>1. relLoads' \in [RelReaders -> LoadRecords]
          /\ \A n \in RelReaders : SameLoad(relLoads[n], relLoads'[n])
      BY <1>1, <1>5 DEF FeedTypes, SameLoad, SameBut
    <2>2. relCache' \in [entries : [RelKeys -> RelReaders \cup {NoEntry}], clock : Nat]
      BY <1>1, <1>5 DEF FeedTypes
    <2> QED
      BY <1>2, <1>4, <1>5, <2>1, <2>2, ReadMovesOn
  <1>6. ASSUME NEW what \in {"failed", "own"}
        PROVE  LET w == [q EXCEPT !.at = "over", !.answer = what]
               IN  w \in ReadRecords /\ w.at = "over" /\ w.answer = what /\ ReadTrue(w)
    BY <1>3 DEF ReadRecords, ReadTrue
  <1>7. ASSUME Says(r, "failed"), UNCHANGED <<relFiles, relShown, relLoads, relCache>>,
               q.at # "wait"
        PROVE  FeedInv'
    BY <1>2, <1>5, <1>6, <1>7 DEF Says
  <1>8. CASE q.at = "none" /\ ReleaseManifest(r)
    <2>1. ASSUME NEW k \in RelKeys,
                 relReads' = [relReads EXCEPT ![r] = [@ EXCEPT !.at = "version", !.key = k,
                                                               !.stamp.a = relFiles[k].a]],
                 UNCHANGED <<relFiles, relShown, relLoads, relCache>>
          PROVE  FeedInv'
      <3> DEFINE w == [q EXCEPT !.at = "version", !.key = k, !.stamp.a = relFiles[k].a]
      <3>1. relFiles[k].a \in Nat
        BY <1>1 DEF FeedTypes, AnyStamps
      <3>2. w \in ReadRecords /\ w.at = "version" /\ w.key = k /\ w.stamp.a = relFiles[k].a
            /\ w.answer = q.answer
        BY <1>3, <3>1 DEF ReadRecords, AnyStamps
      <3>3. relReads' = [relReads EXCEPT ![r] = w]
        BY <1>2, <2>1
      <3> HIDE DEF w
      <3>4. ReadTrue(w)
        BY <1>3, <1>8, <3>1, <3>2 DEF ReadTrue, NoEntry
      <3> QED
        BY <1>5, <1>8, <2>1, <3>2, <3>3, <3>4
    <2> QED
      BY <1>7, <1>8, <2>1 DEF ReleaseManifest
  <1>9. CASE q.at = "version" /\ ReleaseManifestInputs(r)
    <2>1. ASSUME relReads' = [relReads EXCEPT ![r] = [@ EXCEPT !.at = "get",
                                                   !.stamp.v = relFiles[relReads[r].key].v]],
                 UNCHANGED <<relFiles, relShown, relLoads, relCache>>
          PROVE  FeedInv'
      <3> DEFINE w == [q EXCEPT !.at = "get", !.stamp.v = relFiles[q.key].v]
      <3>1. q.key \in RelKeys
        BY <1>3, <1>9 DEF ReadTrue
      <3>2. relFiles[q.key] \in AnyStamps /\ relFiles[q.key] \in relShown[q.key]
        BY <1>1, <3>1 DEF FeedTypes
      <3>3. q.stamp.a <= relFiles[q.key].a /\ q.stamp.a \in Nat
        BY <1>3, <1>9 DEF ReadTrue, AnyStamps
      <3>4. w \in ReadRecords /\ w.at = "get" /\ w.key = q.key /\ w.answer = q.answer
            /\ w.stamp = [a |-> q.stamp.a, v |-> relFiles[q.key].v]
        BY <1>3, <3>2 DEF ReadRecords, AnyStamps
      <3>5. relFiles[q.key].a = q.stamp.a => w.stamp = relFiles[q.key]
        BY <3>2, <3>4 DEF AnyStamps
      <3>6. relReads' = [relReads EXCEPT ![r] = w]
        BY <1>2, <2>1
      <3> HIDE DEF w
      <3>7. ReadTrue(w)
        BY <1>3, <1>9, <3>1, <3>2, <3>3, <3>4, <3>5 DEF ReadTrue, NoEntry, Dated
      <3> QED
        BY <1>5, <1>9, <2>1, <3>4, <3>6, <3>7
    <2> QED
      BY <1>7, <1>9, <2>1 DEF ReleaseManifestInputs
  <1>10. ASSUME q.at = "get", NEW k \in RelKeys, k = q.key, NEW m \in RelReaders,
                m = relCache.entries[k], relLoads[m].stamp = q.stamp, ~Loading(k),
                UNCHANGED <<relFiles, relShown>>, relCache' = [relCache EXCEPT !.clock = @ + 1],
                relLoads' = [relLoads EXCEPT ![m].used = relCache.clock + 1],
                relReads' = [relReads EXCEPT ![r] = [@ EXCEPT !.at = "over", !.answer = "manifest",
                                             !.got = [a |-> relLoads[m].hashed, v |-> q.stamp.v]]]
         PROVE  FeedInv'
    <2>1. relLoads[m] \in LoadRecords /\ LoadTrue(relLoads[m]) /\ EntryTrue(k) /\ m # NoEntry
      BY <1>1, ReleaseCacheAssumption DEF FeedInv, FeedTypes, NoEntry
    <2>2. relLoads[m].at = "ready" /\ relLoads[m].err = NoEntry /\ relLoads[m].key = k
      BY <1>10, <2>1 DEF EntryTrue, Loading
    <2>3. [a |-> relLoads[m].hashed, v |-> q.stamp.v] \in relShown[k]
      BY <1>10, <2>1, <2>2 DEF LoadTrue
    <2> DEFINE got == [a |-> relLoads[m].hashed, v |-> q.stamp.v]
               w == [q EXCEPT !.at = "over", !.answer = "manifest", !.got = got]
    <2>4. relReads' = [relReads EXCEPT ![r] = w]
      BY <1>2, <1>10
    <2>5. got \in AnyStamps
      BY <1>3, <2>1 DEF AnyStamps, LoadRecords
    <2> HIDE DEF got
    <2>6. w \in ReadRecords /\ w.at = "over" /\ w.answer = "manifest" /\ w.key = q.key /\ w.got = got
      BY <2>5 DEF ReadRecords
    <2> HIDE DEF w
    <2>7. ReadTrue(w)
      BY <1>10, <2>3, <2>6 DEF ReadTrue, got
    <2>8. relCache.clock \in Nat
      BY <1>1 DEF FeedTypes
    <2>9. relLoads' \in [RelReaders -> LoadRecords]
          /\ \A n \in RelReaders : SameLoad(relLoads[n], relLoads'[n])
      BY <1>1, <1>10, <2>8 DEF FeedTypes, SameLoad, SameBut, LoadRecords
    <2>10. relCache'.entries = relCache.entries
           /\ relCache' \in [entries : [RelKeys -> RelReaders \cup {NoEntry}], clock : Nat]
      BY <1>1, <1>10 DEF FeedTypes
    <2> QED
      BY <1>2, <1>10, <2>4, <2>6, <2>7, <2>9, <2>10, ReadMovesOn
  <1>11. ASSUME q.at = "get", NEW k \in RelKeys, k = q.key, NEW m \in RelReaders,
                m = relCache.entries[k], Loading(k),
                UNCHANGED <<relFiles, relShown>>, relCache' = [relCache EXCEPT !.clock = @ + 1],
                relLoads' = [relLoads EXCEPT ![m] = JoinedLoad(@, relCache.clock + 1)],
                relReads' = [relReads EXCEPT ![r] = WaitsFor(@, m)]
         PROVE  FeedInv'
    <2>1. relLoads[m] \in LoadRecords /\ relReads[r] \in ReadRecords
      BY <1>1 DEF FeedTypes
    <2>2. relCache.clock + 1 \in Nat /\ relLoads[m].at # "ready"
      BY <1>1, <1>11 DEF FeedTypes, Loading
    <2> DEFINE n == JoinedLoad(relLoads[m], relCache.clock + 1)
               w == WaitsFor(relReads[r], m)
    <2>3. relLoads' = [relLoads EXCEPT ![m] = n] /\ relReads' = [relReads EXCEPT ![r] = w]
      BY <1>11
    <2>4. n \in LoadRecords /\ n.waiters = relLoads[m].waiters + 1 /\ SameBut(relLoads[m], n)
      BY <2>1, <2>2, JoinedLoads
    <2>5. w \in ReadRecords /\ w.at = "wait" /\ w.on = m /\ w.key = relReads[r].key
          /\ w.answer = relReads[r].answer
      BY <2>1, WaitingReads
    <2> HIDE DEF n, w
    <2>6. relCache'.entries = relCache.entries
          /\ relCache' \in [entries : [RelKeys -> RelReaders \cup {NoEntry}], clock : Nat]
      BY <1>1, <1>11 DEF FeedTypes
    <2> QED
      <3>1. relReads[r].key = k /\ relReads[r].at = "get" /\ relCache.entries[k] = m /\ w.key = k
            /\ UNCHANGED <<relFiles, relShown>>
        BY <1>2, <1>11, <2>5
      <3> QED
        BY <2>2, <2>3, <2>4, <2>5, <2>6, <3>1, JoinKeeps
  <1>12. CASE q.at = "get" /\ GetEntry(r) /\ UNCHANGED <<relFiles, relShown>>
    <2>1. PICK k \in RelKeys : k = q.key
      BY <1>3, <1>12 DEF ReadTrue
    <2>2. PICK m \in RelReaders : m = relCache.entries[k]
      BY <1>1, <1>2, <1>12, <2>1 DEF GetEntry, FeedTypes
    <2> QED
      BY <1>2, <1>10, <1>11, <1>12, <2>1, <2>2 DEF GetEntry
  <1>13. CASE q.at = "get" /\ NewEntry(r) /\ UNCHANGED <<relFiles, relShown>>
    <2> DEFINE n == NewLoad(q, relCache.clock + 1)
               w == WaitsFor(q, r)
    <2>1. relLoads' = [relLoads EXCEPT ![r] = n] /\ relReads' = [relReads EXCEPT ![r] = w]
      BY <1>2, <1>13 DEF NewEntry
    <2>2. q.key \in RelKeys /\ relCache.clock + 1 \in Nat
      BY <1>1, <1>3, <1>13 DEF ReadTrue, FeedTypes
    <2>3. /\ n \in LoadRecords /\ n.at = "hash" /\ n.key = q.key /\ n.stamp = q.stamp
          /\ n.waiters = 1 /\ n.cancelled = FALSE /\ n.err = NoEntry
      BY <2>2, NewLoads
    <2>4. w \in ReadRecords /\ w.at = "wait" /\ w.on = r /\ w.key = q.key /\ w.answer = q.answer
      BY WaitingReads
    <2> HIDE DEF n, w
    <2> QED
      BY <1>2, <1>13, <2>1, <2>3, <2>4, NewKeeps
  <1>14. CASE q.at = "get" /\ AllLoading(r) /\ UNCHANGED <<relFiles, relShown>>
    <2>1. PICK c \in Cached : relReads' = [relReads EXCEPT ![r] = [@ EXCEPT !.at = "full",
                                                                   !.on = relCache.entries[c]]]
      BY <1>14 DEF AllLoading
    <2> DEFINE w == [q EXCEPT !.at = "full", !.on = relCache.entries[c]]
    <2>2. relCache.entries[c] \in RelReaders
      BY <1>1 DEF Cached, FeedTypes
    <2>3. w \in ReadRecords /\ w.at = "full" /\ w.on \in RelReaders /\ w.key = q.key
          /\ w.stamp = q.stamp /\ w.answer = q.answer
      BY <2>2 DEF ReadRecords
    <2>4. relReads' = [relReads EXCEPT ![r] = w]
      BY <1>2, <2>1
    <2> HIDE DEF w
    <2>5. ReadTrue(w)
      BY <1>3, <1>14, <2>3 DEF ReadTrue, NoEntry
    <2>6. relCache' = [relCache EXCEPT !.clock = @ + 1] /\ relLoads' = relLoads
      BY <1>14 DEF AllLoading
    <2>7. relCache'.entries = relCache.entries
          /\ relCache' \in [entries : [RelKeys -> RelReaders \cup {NoEntry}], clock : Nat]
      BY <1>1, <2>6 DEF FeedTypes
    <2>8. relLoads' \in [RelReaders -> LoadRecords]
          /\ \A n \in RelReaders : SameLoad(relLoads[n], relLoads'[n])
      BY <1>1, <2>6 DEF FeedTypes, SameLoad, SameBut
    <2> QED
      BY <1>2, <1>14, <2>3, <2>4, <2>5, <2>7, <2>8, ReadMovesOn
  <1>15. CASE q.at = "full" /\ TryAgain(r)
    <2> DEFINE w == [q EXCEPT !.at = "get"]
    <2>1. w \in ReadRecords /\ w.at = "get" /\ w.key = q.key
          /\ w.stamp = q.stamp /\ w.answer = q.answer
      BY DEF ReadRecords
    <2>2. relReads' = [relReads EXCEPT ![r] = w] /\ UNCHANGED <<relFiles, relShown, relLoads, relCache>>
      BY <1>2, <1>15 DEF TryAgain, RGoes
    <2> HIDE DEF w
    <2>3. ReadTrue(w)
      BY <1>3, <1>15, <2>1 DEF ReadTrue, NoEntry
    <2> QED
      BY <1>5, <1>15, <2>1, <2>2, <2>3
  <1>16. CASE q.at = "wait" /\ CacheWait(r)
    <2>1. PICK m \in RelReaders : m = q.on
      BY <1>3, <1>16 DEF ReadTrue
    <2>2. PICK l \in LoadRecords : l = relLoads[m]
      BY <1>1 DEF FeedTypes
    <2>3. l.at = "ready" /\ LoadTrue(l) /\ WaitersCounted(m) /\ l.key = q.key /\ l.key \in RelKeys
      BY <1>2, <1>3, <1>16, <2>1, <2>2 DEF CacheWait, FeedInv, WaitTrue, LoadTrue
    <2>4. l.err # "canceled"
      BY <1>2, <1>16, <2>1, <2>2, <2>3 DEF LoadTrue, WaitersCounted, WaitersOf
    <2> DEFINE got == [a |-> l.hashed, v |-> l.stamp.v]
               says == IF l.err = NoEntry THEN "manifest" ELSE l.err
               w == [q EXCEPT !.at = "over", !.answer = says, !.got = got]
    <2>5. got \in AnyStamps /\ says \in {"manifest", "failed"}
          /\ (says = "manifest" => got \in relShown[q.key])
      BY <2>3, <2>4 DEF LoadRecords, AnyStamps, LoadTrue
    <2>6. relReads' = [relReads EXCEPT ![r] = w] /\ UNCHANGED <<relFiles, relShown, relLoads, relCache>>
      BY <1>2, <1>16, <2>1, <2>2 DEF CacheWait
    <2> HIDE DEF got, says
    <2>7. w \in ReadRecords /\ w.at = "over" /\ w.answer = says /\ w.key = q.key /\ w.got = got
      BY <2>5 DEF ReadRecords
    <2> HIDE DEF w
    <2>8. ReadTrue(w)
      BY <2>3, <2>5, <2>7 DEF ReadTrue
    <2> QED
      BY <1>5, <2>1, <2>2, <2>3, <2>6, <2>7, <2>8
  <1>17. CASE q.at \in {"full", "wait"} /\ WaitCancelled(r)
    <2>1. PICK m \in RelReaders : m = q.on
      BY <1>3, <1>17 DEF ReadTrue
    <2>2. PICK l \in LoadRecords : l = relLoads[m]
      BY <1>1 DEF FeedTypes
    <2> DEFINE w == [q EXCEPT !.at = "over", !.answer = "own"]
    <2>3. w \in ReadRecords /\ w.at = "over" /\ w.answer = "own" /\ ReadTrue(w)
      BY <1>6
    <2>4. relReads' = [relReads EXCEPT ![r] = w] /\ UNCHANGED <<relFiles, relShown>>
      BY <1>2, <1>17 DEF WaitCancelled, Says
    <2> HIDE DEF w
    <2>5. CASE q.at = "full" \/ l.at = "ready"
      <3>1. UNCHANGED <<relLoads, relCache>>
        BY <1>2, <1>17, <2>1, <2>2, <2>5 DEF WaitCancelled
      <3> QED
        BY <1>5, <2>1, <2>2, <2>3, <2>4, <2>5, <3>1
    <2>6. CASE q.at = "wait" /\ l.at # "ready"
      <3> DEFINE n == LeftLoad(relLoads[m])
      <3>1. /\ relLoads' = [relLoads EXCEPT ![m] = n]
            /\ relCache' = IF relLoads[m].waiters = 1 /\ relCache.entries[relLoads[m].key] = m
                           THEN Forget(relLoads[m].key) ELSE relCache
        <4>1. m = relReads[r].on /\ relReads[r].at = "wait" /\ relLoads[m].at # "ready"
          BY <1>2, <2>1, <2>2, <2>6
        <4> QED
          BY <1>17, <4>1 DEF WaitCancelled
      <3>2. relLoads[m].waiters # 0
        <4>1. r \in WaitersOf(m) /\ WaitersCounted(m) /\ relLoads[m].at \notin {"none", "ready"}
          BY <1>2, <1>3, <2>1, <2>2, <2>6 DEF WaitersOf, FeedInv, WaitTrue
        <4>2. IsFiniteSet(WaitersOf(m))
          BY FS_Subset, ReleaseCacheAssumption DEF WaitersOf
        <4>3. Cardinality(WaitersOf(m)) # 0
          BY <4>1, <4>2, FS_EmptySet
        <4> QED
          BY <4>1, <4>3 DEF WaitersCounted
      <3>3. /\ n \in LoadRecords /\ n.waiters = relLoads[m].waiters - 1
            /\ (n.cancelled <=> relLoads[m].waiters = 1)
            /\ n.at = relLoads[m].at /\ n.key = relLoads[m].key /\ n.stamp = relLoads[m].stamp
            /\ n.hashed = relLoads[m].hashed /\ n.seen = relLoads[m].seen /\ n.err = relLoads[m].err
        <4>1. relLoads[m] \in LoadRecords
          BY <2>2
        <4> QED
          BY <3>2, <4>1, LeftLoads
      <3> HIDE DEF n
      <3> QED
        BY <1>2, <2>1, <2>2, <2>3, <2>4, <2>6, <3>1, <3>3, LeaveKeeps
    <2> QED
      BY <1>17, <2>5, <2>6
  <1> QED
    BY <1>2, <1>8, <1>9, <1>12, <1>13, <1>14, <1>15, <1>16, <1>17 DEF ReadStep, CacheGet

\* Every step keeps the invariant.
LEMMA FeedStep == FeedInv /\ [ReleaseCacheNext]_relCacheVars => FeedInv'
  <1> SUFFICES ASSUME FeedInv, [ReleaseCacheNext]_relCacheVars PROVE FeedInv'
    OBVIOUS
  <1>1. CASE Publish
    BY <1>1, PublishKeeps
  <1>2. ASSUME NEW r \in RelReaders, ReadStep(r) PROVE FeedInv'
    BY <1>2, ReadingKeeps
  <1>3. ASSUME NEW m \in RelReaders, LoadStep(m) PROVE FeedInv'
    <2>1. CASE relLoads[m].at = "finish"
      BY <1>3, <2>1, CacheLoadKeeps DEF LoadStep
    <2>2. CASE relLoads[m].at # "finish"
      BY <1>3, <2>2, LoadingKeeps
    <2> QED
      BY <2>1, <2>2
  <1>4. CASE UNCHANGED relCacheVars
    <2>1. /\ relFiles' = relFiles /\ relShown' = relShown /\ relReads' = relReads
          /\ relLoads' = relLoads /\ relCache' = relCache
      BY <1>4 DEF relCacheVars
    <2>2. FeedTypes' /\ CacheIsBounded' /\ \A k \in RelKeys : EntryTrue(k)'
      BY <2>1 DEF FeedInv, FeedTypes, CacheIsBounded, Cached, EntryTrue
    <2>3. \A r \in RelReaders : ReadTrue(relReads[r])' /\ WaitTrue(relReads[r])'
      BY <2>1 DEF FeedInv, ReadTrue, WaitTrue, Dated
    <2>4. \A m \in RelReaders : LoadTrue(relLoads[m])' /\ WaitersCounted(m)'
      <3>1. ASSUME NEW m \in RelReaders PROVE LoadTrue(relLoads[m])'
        BY <2>1 DEF FeedInv, LoadTrue, Dated
      <3>2. ASSUME NEW m \in RelReaders PROVE WaitersCounted(m)'
        <4>1. WaitersOf(m)' = WaitersOf(m) /\ WaitersCounted(m)
          BY <2>1 DEF FeedInv, WaitersOf
        <4> QED
          BY <2>1, <4>1 DEF WaitersCounted
      <3> QED
        BY <3>1, <3>2
    <2> QED
      BY <2>2, <2>3, <2>4 DEF FeedInv
  <1> QED
    BY <1>1, <1>2, <1>3, <1>4 DEF ReleaseCacheNext

\* A signed manifest is of an artifact and a version that stood on disk
\* together, nobody gets the cancellation of another client, and the cache
\* keeps to its limit.
THEOREM ManifestsStaySound == ReleaseCacheSpec => []ManifestsAreSound
  <1>1. ReleaseCacheInit => FeedInv
    BY FeedInitInv
  <1>2. FeedInv /\ [ReleaseCacheNext]_relCacheVars => FeedInv'
    BY FeedStep
  <1>3. FeedInv => ManifestsAreSound
    BY DEF FeedInv, ReadTrue, ManifestsAreSound, ManifestIsSnapshot, NobodysCancelIsShared
  <1> QED
    BY <1>1, <1>2, <1>3, PTL DEF ReleaseCacheSpec

-----------------------------------------------------------------------------
(***************************************************************************)
(* Backups.  The files other than the artifact only go forward: what was   *)
(* read once and is found again later has been there all the time between. *)
(***************************************************************************)
Archives0 == [id : Nat, made : Nat, files : [DataFiles -> Nat], sound : BOOLEAN]
Places0 == {"idle", "copy", "tail", "list", "hash", "publish", "inspect", "recheck",
            "next", "remove", "extract", "clear", "move"}
Commands0 == [at : Places0, name : Backups \cup {""}, left : SUBSET (DataFiles \cup Backups),
              got : [DataFiles -> Nat], listed : SUBSET (DataFiles \cup Backups), half : Nat,
              seen : [Backups -> Archives0], plan : SUBSET Backups]

\* The data directory is in its history; no version of a file is a torn copy.
DataKept ==
    /\ past \subseteq [DataFiles -> Nat] /\ data \in past
    /\ bkCount.writes \in Nat /\ bkCount.writes <= MaxWrites /\ bkCount.made \in Nat
    /\ bkCount \in [writes : Nat, made : Nat]
    /\ \A f \in DataFiles : data[f] <= bkCount.writes + 1
    /\ "artifact" \in DataFiles => data["artifact"] \in {0, 1}

\* A copy of f is no newer than the directory d.
Read(o, f, d) ==
    IF f = "artifact" THEN o.got[f] = 1
    ELSE o.got[f] = Torn \/ o.got[f] <= d[f]

\* The first pass of Create: every file that was copied is such a copy.
CopyStands(o, d) ==
    o.at \in {"copy", "tail", "list"} =>
        /\ o.listed \subseteq DataFiles \ {"hub.db-shm"} /\ o.listed # {}
        /\ o.left \subseteq o.listed /\ (o.left = {} <=> o.at = "list")
        /\ \A f \in DataFiles \ o.listed : o.got[f] = 0
        /\ \A f \in o.listed :
              f \notin o.left \/ (o.at = "tail" /\ f = FirstOf(o.left)) => Read(o, f, d)

\* The directory was d when the files were listed again, and is now e: d is
\* between the copies and e, and the files that were read again were in d.
Between(o, d, e) ==
    \A f \in DataFiles :
        /\ f \in o.listed => /\ Read(o, f, d) /\ f # "hub.db-shm"
                             /\ f = "artifact" => d[f] = 1
                             /\ f # "artifact" => d[f] <= e[f]
                             /\ f \notin o.left => o.got[f] = d[f]
        /\ f \notin o.listed => o.got[f] = 0 /\ (f = "hub.db-shm" \/ d[f] = 0)

\* The second pass.
HashTrue(o, p, e) ==
    o.at \in {"hash", "publish"} =>
        /\ o.left \subseteq o.listed /\ o.listed \subseteq DataFiles
        /\ (o.left = {} <=> o.at = "publish")
        /\ \E d \in p : Between(o, d, e)

\* A restore works on the archive that it has verified.
ExtractTrue(o, s) ==
    o.at \in {"extract", "clear", "move"} =>
        /\ o.name \in Backups /\ o.seen[o.name].files \in s
        /\ o.left = {} \/ o.at = "extract"
        /\ \A f \in DataFiles \ o.left : o.got[f] = o.seen[o.name].files[f]

CommandTrue(o, d, p, s) ==
    /\ o \in Commands0
    /\ CopyStands(o, d) /\ HashTrue(o, p, d) /\ ExtractTrue(o, s)

BackupInv ==
    /\ DataKept
    /\ archives \in [Backups -> Archives0]
    /\ ops \in [Operators -> Commands0]
    /\ \A u \in Operators : CommandTrue(ops[u], data, past, Snapshots)
    /\ BackupIsSnapshot

\* A nonempty set of numbers has a least one.
LEMMA LeastNatural ==
    ASSUME NEW I \in SUBSET Nat, I # {}
    PROVE  \E i \in I : \A j \in I : i <= j
<1> DEFINE T == {0..i : i \in I}
<1>1. \A i \in I : 0..i \in FiniteSubsetsOf(Nat)
  <2> SUFFICES ASSUME NEW i \in I PROVE 0..i \in FiniteSubsetsOf(Nat)
    OBVIOUS
  <2>1. IsFiniteSet(0..i)
    BY FS_Interval
  <2> QED
    BY <2>1 DEF FiniteSubsetsOf
<1>2. T \subseteq FiniteSubsetsOf(Nat) /\ T # {}
  BY <1>1
<1>3. PICK x \in T : \A y \in T : ~ (<<y, x>> \in StrictSubsetOrdering(Nat))
  BY <1>2, WFMin, FS_StrictSubsetOrderingWellFounded
<1>4. PICK i \in I : x = 0..i
  OBVIOUS
<1>5. ASSUME NEW j \in I, j < i PROVE FALSE
  <2> DEFINE below == 0..j
  <2>1. below \in T
    OBVIOUS
  <2>2. i \in Nat /\ j \in Nat /\ j < i
    BY <1>5
  <2>3. below \subseteq 0..i /\ 0..i \subseteq Nat
    BY <2>2
  <2>4. i \in 0..i /\ i \notin below
    BY <2>2
  <2> HIDE DEF below, T
  <2>5. below \subseteq x /\ x \subseteq Nat /\ below # x
    BY <1>4, <2>3, <2>4
  <2>6. <<below, x>> \in StrictSubsetOrdering(Nat)
    BY <2>5 DEF StrictSubsetOrdering
  <2> QED
    BY <1>3, <2>1, <2>6
<1> QED
  BY <1>5

\* One of the files that are left comes first.
LEMMA FirstIsOne ==
    ASSUME NEW S \in SUBSET DataFiles, S # {}
    PROVE  FirstOf(S) \in S
<1> DEFINE I == {i \in DOMAIN FileOrder : FileOrder[i] \in S}
<1>1. DOMAIN FileOrder \subseteq Nat
  BY BackupAssumption
<1>2. I \in SUBSET Nat /\ I # {}
  BY <1>1 DEF DataFiles
<1>3. PICK i \in I : \A j \in I : i <= j
  BY <1>2, LeastNatural
<1>4. \A g \in S : \E j \in DOMAIN FileOrder : FileOrder[j] = g /\ i <= j
  BY <1>3 DEF DataFiles
<1>5. \E f \in S : \A g \in S : \E k, j \in DOMAIN FileOrder :
          FileOrder[k] = f /\ FileOrder[j] = g /\ k <= j
  BY <1>3, <1>4
<1> QED
  BY <1>5 DEF FirstOf

\* A command keeps what it knows when the directory goes on.
LEMMA CommandKept ==
    ASSUME NEW d \in [DataFiles -> Nat], NEW e \in [DataFiles -> Nat],
           NEW p \in SUBSET [DataFiles -> Nat], NEW q, NEW s, NEW t, NEW o,
           p \subseteq q, s \subseteq t, MaxWrites \in Nat,
           \A f \in DataFiles : f # "artifact" => d[f] <= e[f],
           CommandTrue(o, d, p, s)
    PROVE  CommandTrue(o, e, q, t)
<1>1. o \in Commands0 /\ o.got \in [DataFiles -> Nat]
  BY DEF CommandTrue, Commands0
<1>2. CopyStands(o, e)
  <2> SUFFICES ASSUME o.at \in {"copy", "tail", "list"} PROVE CopyStands(o, e)
    BY DEF CopyStands
  <2>1. ASSUME NEW f \in o.listed, Read(o, f, d) PROVE Read(o, f, e)
    BY <1>1, <2>1 DEF CommandTrue, CopyStands, Read, Torn
  <2> QED
    BY <2>1 DEF CommandTrue, CopyStands
<1>3. HashTrue(o, q, e)
  <2> SUFFICES ASSUME o.at \in {"hash", "publish"} PROVE HashTrue(o, q, e)
    BY DEF HashTrue
  <2>1. PICK w \in p : Between(o, w, d)
    BY DEF CommandTrue, HashTrue
  <2>2. Between(o, w, e)
    BY <2>1 DEF Between
  <2> QED
    BY <2>1, <2>2 DEF CommandTrue, HashTrue
<1>4. ExtractTrue(o, t)
  BY DEF CommandTrue, ExtractTrue
<1> QED
  BY <1>1, <1>2, <1>3, <1>4 DEF CommandTrue

\* A step of one command is right when its new state is.
LEMMA CommandStep ==
    ASSUME BackupInv, NEW u \in Operators, NEW o, Becomes0(u, o),
           CommandTrue(o, data, past, Snapshots), data' = data, past' = past,
           archives' \in [Backups -> Archives0], BackupIsSnapshot',
           bkCount' \in [writes : Nat, made : Nat], bkCount'.writes = bkCount.writes
    PROVE  BackupInv'
<1>1. DataKept'
  BY DEF BackupInv, DataKept
<1>2. o \in Commands0
  BY DEF CommandTrue
<1>3. ops' \in [Operators -> Commands0]
  BY <1>2 DEF Becomes0, BackupInv
<1>4. Snapshots' = Snapshots
  BY DEF Snapshots
<1>5. ASSUME NEW v \in Operators PROVE CommandTrue(ops'[v], data', past', Snapshots')
  <2>1. ops'[v] = IF v = u THEN o ELSE ops[v]
    BY DEF Becomes0, BackupInv
  <2>2. CommandTrue(ops[v], data, past, Snapshots)
    BY DEF BackupInv
  <2>3. CommandTrue(ops'[v], data, past, Snapshots)
    BY <2>1, <2>2
  <2> QED
    BY <2>3, <1>4
<1> QED
  BY <1>1, <1>3, <1>5 DEF BackupInv

\* The same for a step that changes nothing but the command.
LEMMA CommandOnly ==
    ASSUME BackupInv, NEW u \in Operators, NEW o, Becomes0(u, o),
           CommandTrue(o, data, past, Snapshots),
           UNCHANGED <<data, past, archives, target, bkCount>>
    PROVE  BackupInv'
<1>1. BackupIsSnapshot'
  BY DEF BackupInv, BackupIsSnapshot, Snapshots
<1>2. archives' \in [Backups -> Archives0] /\ bkCount' \in [writes : Nat, made : Nat]
  BY DEF BackupInv, DataKept
<1> QED
  BY <1>1, <1>2, CommandStep

\* A command at rest knows nothing.
LEMMA RestingTrue ==
    ASSUME NEW d, NEW p, NEW s
    PROVE  CommandTrue(Resting0, d, p, s)
<1>1. NoArchive \in Archives0
  BY DEF NoArchive, Archives0, NoFile
<1>2. Resting0 \in Commands0
  <2>1. [n \in Backups |-> NoArchive] \in [Backups -> Archives0]
    BY <1>1
  <2>2. NoFile \in [DataFiles -> Nat]
    BY DEF NoFile
  <2> QED
    BY <2>1, <2>2 DEF Resting0, Commands0, Places0
<1>3. Resting0.at = "idle"
  BY DEF Resting0
<1> QED
  BY <1>2, <1>3 DEF CommandTrue, CopyStands, HashTrue, ExtractTrue

\* A command that ends leaves the rest alone.
LEMMA EndsKeeps ==
    ASSUME BackupInv, NEW u \in Operators, Ends0(u)
    PROVE  BackupInv'
  BY RestingTrue, CommandOnly DEF Ends0

\* Commands of a rotation have nothing to do with files.
LEMMA RotationTrue ==
    ASSUME NEW o \in Commands0, o.at \in {"inspect", "recheck", "next", "remove"},
           NEW d, NEW p, NEW s
    PROVE  CommandTrue(o, d, p, s)
  BY DEF CommandTrue, CopyStands, HashTrue, ExtractTrue

\* The Hub writes.
LEMMA HubWritesKeeps ==
    ASSUME BackupInv, NEW f \in DataFiles, HubWrites(f)
    PROVE  BackupInv'
<1>1. data \in [DataFiles -> Nat] /\ MaxWrites \in Nat
  BY BackupAssumption DEF BackupInv, DataKept
<1>2. data' \in [DataFiles -> Nat] /\ past' = past \cup {data'}
  BY <1>1 DEF HubWrites, BackupInv, DataKept
<1>3. \A g \in DataFiles : g # "artifact" => data[g] <= data'[g]
  BY <1>1 DEF HubWrites
<1>4. /\ bkCount'.writes = bkCount.writes + 1 /\ bkCount'.writes <= MaxWrites
      /\ bkCount' \in [writes : Nat, made : Nat]
  BY <1>1 DEF HubWrites, BackupInv, DataKept
<1>5. DataKept'
  <2>1. \A g \in DataFiles : data'[g] <= bkCount'.writes + 1
    BY <1>1, <1>4 DEF HubWrites, BackupInv, DataKept
  <2>2. "artifact" \in DataFiles => data'["artifact"] \in {0, 1}
    BY <1>1 DEF HubWrites, BackupInv, DataKept
  <2>3. past' \subseteq [DataFiles -> Nat] /\ data' \in past'
    BY <1>2 DEF BackupInv, DataKept
  <2> QED
    BY <1>4, <2>1, <2>2, <2>3 DEF DataKept
<1>6. Snapshots \subseteq Snapshots'
  BY <1>2 DEF Snapshots
<1>7. ASSUME NEW u \in Operators PROVE CommandTrue(ops'[u], data', past', Snapshots')
  <2>1. CommandTrue(ops[u], data, past, Snapshots) /\ past \in SUBSET [DataFiles -> Nat]
    BY DEF BackupInv, DataKept
  <2>2. CommandTrue(ops[u], data', past', Snapshots')
    BY <1>1, <1>2, <1>3, <1>6, <2>1, CommandKept
  <2> QED
    BY <2>2 DEF HubWrites
<1>8. BackupIsSnapshot'
  BY <1>6 DEF HubWrites, BackupInv, BackupIsSnapshot
<1>9. archives' \in [Backups -> Archives0] /\ ops' \in [Operators -> Commands0]
  BY DEF HubWrites, BackupInv
<1> QED
  BY <1>5, <1>7, <1>8, <1>9 DEF BackupInv

\* Create begins with the files there are.
LEMMA CreateBackupKeeps ==
    ASSUME BackupInv, NEW u \in Operators, NEW n \in Backups, CreateBackup(u, n)
    PROVE  BackupInv'
<1> DEFINE o == [Resting0 EXCEPT !.at = "copy", !.name = n, !.left = CollectFiles,
                                 !.listed = CollectFiles, !.half = bkCount.made + 1]
<1>1. CollectFiles \subseteq DataFiles \ {"hub.db-shm"} /\ CollectFiles # {}
  BY DEF CreateBackup, CollectFiles
<1>2. Resting0 \in Commands0 /\ bkCount.made \in Nat
  BY RestingTrue DEF CommandTrue, BackupInv, DataKept
<1>3. o \in Commands0
  <2>1. CollectFiles \in SUBSET (DataFiles \cup Backups)
    BY <1>1
  <2>2. n \in Backups \cup {""}
    OBVIOUS
  <2>4. bkCount.made + 1 \in Nat
    BY <1>2
  <2>3. \A m \in Nat : [Resting0 EXCEPT !.at = "copy", !.name = n, !.left = CollectFiles,
                            !.listed = CollectFiles, !.half = m] \in Commands0
    BY <1>2, <2>1, <2>2 DEF Commands0, Places0
  <2> QED
    BY <2>3, <2>4
<1>4. /\ o.at = "copy" /\ o.left = CollectFiles /\ o.listed = CollectFiles
      /\ o.got = NoFile
  BY DEF Resting0
<1>5. CommandTrue(o, data, past, Snapshots)
  BY <1>1, <1>3, <1>4 DEF CommandTrue, CopyStands, HashTrue, ExtractTrue, NoFile
<1>6. BackupIsSnapshot'
  BY DEF CreateBackup, BackupInv, BackupIsSnapshot, Snapshots
<1>7. /\ archives' \in [Backups -> Archives0] /\ bkCount' \in [writes : Nat, made : Nat]
      /\ bkCount'.writes = bkCount.writes /\ data' = data /\ past' = past
  BY DEF CreateBackup, BackupInv, DataKept
<1> QED
  BY <1>5, <1>6, <1>7, CommandStep DEF CreateBackup

\* A file is read: what is read is what the directory has.
LEMMA AddFileKeeps ==
    ASSUME BackupInv, NEW u \in Operators, AddFile(u)
    PROVE  BackupInv'
<1> DEFINE f == FirstOf(ops[u].left)
           o == [ops[u] EXCEPT !.at = "tail", !.got[f] = data[f]]
<1>1. CASE data[f] = 0
  BY <1>1, EndsKeeps DEF AddFile
<1>2. CASE data[f] # 0
  <2>1. /\ ops[u] \in Commands0 /\ ops[u].at = "copy" /\ CopyStands(ops[u], data)
        /\ data \in [DataFiles -> Nat] /\ MaxWrites \in Nat
    BY BackupAssumption DEF AddFile, BackupInv, CommandTrue, DataKept
  <2>2. ops[u].left \subseteq DataFiles /\ ops[u].left # {} /\ ops[u].listed \subseteq DataFiles
    BY <2>1 DEF CopyStands, AddFile
  <2>3. f \in ops[u].left /\ f \in DataFiles /\ f \in ops[u].listed
    BY <2>1, <2>2, FirstIsOne DEF CopyStands
  <2>4. ops[u].got \in [DataFiles -> Nat]
    BY <2>1 DEF Commands0, Places0
  <2>5. /\ o.at = "tail" /\ o.left = ops[u].left /\ o.listed = ops[u].listed
        /\ o.got = [ops[u].got EXCEPT ![f] = data[f]]
    BY <2>1 DEF Commands0, Places0
  <2>6. o \in Commands0
    BY <2>1, <2>3 DEF Commands0, Places0
  <2>7. \A g \in o.listed : g \notin o.left \/ g = f => Read(o, g, data)
    <3> SUFFICES ASSUME NEW g \in ops[u].listed, g \notin ops[u].left \/ g = f
                 PROVE  Read(o, g, data)
      BY <2>5
    <3>1. CASE g = f
      <4>1. o.got[g] = data[g] /\ data[g] \in Nat
        BY <3>1, <2>1, <2>3, <2>4, <2>5
      <4>2. g = "artifact" => data[g] = 1
        BY <3>1, <2>3, <1>2 DEF BackupInv, DataKept
      <4> QED
        BY <4>1, <4>2 DEF Read
    <3>2. CASE g # f
      <4>1. o.got[g] = ops[u].got[g]
        BY <3>2, <2>2, <2>4, <2>5
      <4>2. Read(ops[u], g, data)
        BY <3>2, <2>1 DEF CopyStands
      <4> QED
        BY <4>1, <4>2 DEF Read
    <3> QED
      BY <3>1, <3>2
  <2>8. \A g \in DataFiles \ o.listed : o.got[g] = 0
    BY <2>1, <2>3, <2>4, <2>5 DEF CopyStands
  <2>9. CommandTrue(o, data, past, Snapshots)
    <3>1. CopyStands(o, data)
      BY <2>1, <2>2, <2>5, <2>7, <2>8 DEF CopyStands
    <3> QED
      BY <3>1, <2>5, <2>6 DEF CommandTrue, HashTrue, ExtractTrue
  <2>10. Becomes0(u, o) /\ UNCHANGED <<data, past, archives, target, bkLock, bkCount>>
    BY <1>2 DEF AddFile
  <2> QED
    BY <2>9, <2>10, CommandOnly
<1> QED
  BY <1>1, <1>2

\* Its end is read: a change that shows makes the copy a torn one.
LEMMA AddFileTailKeeps ==
    ASSUME BackupInv, NEW u \in Operators, AddFileTail(u)
    PROVE  BackupInv'
<1> DEFINE f == FirstOf(ops[u].left)
           left == ops[u].left \ {f}
           o == [ops[u] EXCEPT !.left = left, !.at = IF left = {} THEN "list" ELSE "copy",
                     !.got[f] = IF data[f] \in {0, @} THEN @ ELSE Torn]
<1>1. /\ ops[u] \in Commands0 /\ ops[u].at = "tail" /\ CopyStands(ops[u], data)
      /\ data \in [DataFiles -> Nat] /\ MaxWrites \in Nat /\ Torn \in Nat
  BY BackupAssumption DEF AddFileTail, BackupInv, CommandTrue, DataKept, Torn
<1>2. ops[u].left \subseteq DataFiles /\ ops[u].left # {} /\ ops[u].listed \subseteq DataFiles
  BY <1>1 DEF CopyStands
<1>3. f \in ops[u].left /\ f \in DataFiles /\ f \in ops[u].listed
  BY <1>1, <1>2, FirstIsOne DEF CopyStands
<1>4. ops[u].got \in [DataFiles -> Nat]
  BY <1>1 DEF Commands0, Places0
<1>5. /\ o.left = left /\ o.at = IF left = {} THEN "list" ELSE "copy"
      /\ o.listed = ops[u].listed
      /\ o.got = [ops[u].got EXCEPT ![f] = IF data[f] \in {0, ops[u].got[f]} THEN ops[u].got[f] ELSE Torn]
  BY <1>1, <1>3, <1>4 DEF Commands0, Places0
<1>6. o.got \in [DataFiles -> Nat]
  <2>1. \A v \in Nat : [ops[u].got EXCEPT ![f] = v] \in [DataFiles -> Nat]
    BY <1>4
  <2>2. (IF data[f] \in {0, ops[u].got[f]} THEN ops[u].got[f] ELSE Torn) \in Nat
    BY <1>1, <1>3, <1>4
  <2> QED
    BY <2>1, <2>2, <1>5
<1>7. o \in Commands0
  BY <1>1, <1>3, <1>6 DEF Commands0, Places0
<1>8. \A g \in o.listed : g \notin left => Read(o, g, data)
  <2> SUFFICES ASSUME NEW g \in ops[u].listed, g \notin ops[u].left \/ g = f
               PROVE  Read(o, g, data)
    BY <1>5
  <2>1. Read(ops[u], g, data)
    BY <1>1 DEF CopyStands
  <2>2. CASE g # f
    BY <2>1, <2>2, <1>2, <1>4, <1>5 DEF Read
  <2>3. CASE g = f /\ g = "artifact"
    <3>1. ops[u].got[f] = 1 /\ data[f] \in {0, 1}
      BY <2>1, <2>3, <1>3 DEF Read, BackupInv, DataKept
    <3> QED
      BY <3>1, <2>3, <1>3, <1>4, <1>5 DEF Read
  <2>4. CASE g = f /\ g # "artifact"
    BY <2>1, <2>4, <1>3, <1>4, <1>5 DEF Read
  <2> QED
    BY <2>2, <2>3, <2>4
<1>9. \A g \in DataFiles \ o.listed : o.got[g] = 0
  BY <1>1, <1>3, <1>4, <1>5 DEF CopyStands
<1>10. CommandTrue(o, data, past, Snapshots)
  <2>1. o.at \in {"copy", "list"} /\ (o.left = {} <=> o.at = "list")
    BY <1>5
  <2>2. o.listed \subseteq DataFiles \ {"hub.db-shm"} /\ o.listed # {} /\ o.left \subseteq o.listed
    BY <1>1, <1>5 DEF CopyStands
  <2>3. CopyStands(o, data)
    BY <1>5, <1>8, <1>9, <2>1, <2>2 DEF CopyStands
  <2> QED
    BY <2>1, <2>3, <1>7 DEF CommandTrue, HashTrue, ExtractTrue
<1>11. Becomes0(u, o) /\ UNCHANGED <<data, past, archives, target, bkLock, bkCount>>
  BY DEF AddFileTail
<1> QED
  BY <1>10, <1>11, CommandOnly

\* The files are listed again: the directory of this moment is the one that
\* the copies must be of.
LEMMA ListAgainKeeps ==
    ASSUME BackupInv, NEW u \in Operators, ListAgain(u)
    PROVE  BackupInv'
<1> DEFINE o == [ops[u] EXCEPT !.at = "hash", !.left = ops[u].listed]
<1>1. CASE CollectFiles # ops[u].listed
  BY <1>1, EndsKeeps DEF ListAgain
<1>2. CASE CollectFiles = ops[u].listed
  <2>1. /\ ops[u] \in Commands0 /\ ops[u].at = "list" /\ CopyStands(ops[u], data)
        /\ data \in [DataFiles -> Nat] /\ data \in past
    BY DEF ListAgain, BackupInv, CommandTrue, DataKept
  <2>2. /\ o.at = "hash" /\ o.left = ops[u].listed /\ o.listed = ops[u].listed
        /\ o.got = ops[u].got
    BY <2>1 DEF Commands0, Places0
  <2>3. o \in Commands0
    BY <2>1 DEF Commands0, Places0
  <2>4. ops[u].left = {} /\ o.listed # {} /\ o.listed \subseteq DataFiles
    BY <2>1, <2>2 DEF CopyStands
  <2>5. Between(o, data, data)
    <3> SUFFICES ASSUME NEW f \in DataFiles
                 PROVE  /\ f \in o.listed => /\ Read(o, f, data) /\ f # "hub.db-shm"
                                             /\ f = "artifact" => data[f] = 1
                        /\ f \notin o.listed => o.got[f] = 0 /\ (f = "hub.db-shm" \/ data[f] = 0)
      BY <2>1, <2>2 DEF Between
    <3>1. ASSUME f \in o.listed
          PROVE  Read(o, f, data) /\ f # "hub.db-shm" /\ (f = "artifact" => data[f] = 1)
      <4>1. Read(ops[u], f, data) /\ f # "hub.db-shm"
        BY <3>1, <2>1, <2>2, <2>4 DEF CopyStands
      <4>2. f = "artifact" => data[f] = 1
        BY <3>1, <1>2, <2>2 DEF CollectFiles, BackupInv, DataKept
      <4> QED
        BY <4>1, <4>2, <2>2 DEF Read
    <3>2. ASSUME f \notin o.listed
          PROVE  o.got[f] = 0 /\ (f = "hub.db-shm" \/ data[f] = 0)
      BY <3>2, <1>2, <2>1, <2>2 DEF CopyStands, CollectFiles
    <3> QED
      BY <3>1, <3>2
  <2>6. CommandTrue(o, data, past, Snapshots)
    BY <2>1, <2>2, <2>3, <2>4, <2>5 DEF CommandTrue, CopyStands, HashTrue, ExtractTrue
  <2>7. Becomes0(u, o) /\ UNCHANGED <<data, past, archives, target, bkLock, bkCount>>
    BY <1>2 DEF ListAgain
  <2> QED
    BY <2>6, <2>7, CommandOnly
<1> QED
  BY <1>1, <1>2

\* A file is found to be what was copied: it has been that all the time since.
LEMMA HashAgainKeeps ==
    ASSUME BackupInv, NEW u \in Operators, HashAgain(u)
    PROVE  BackupInv'
<1> DEFINE f == FirstOf(ops[u].left)
           left == ops[u].left \ {f}
           o == [ops[u] EXCEPT !.left = left, !.at = IF left = {} THEN "publish" ELSE "hash"]
<1>1. CASE data[f] # ops[u].got[f]
  BY <1>1, EndsKeeps DEF HashAgain
<1>2. CASE data[f] = ops[u].got[f]
  <2>1. /\ ops[u] \in Commands0 /\ ops[u].at = "hash" /\ HashTrue(ops[u], past, data)
        /\ data \in [DataFiles -> Nat] /\ past \subseteq [DataFiles -> Nat] /\ MaxWrites \in Nat
    BY BackupAssumption DEF HashAgain, BackupInv, CommandTrue, DataKept
  <2>2. ops[u].left \subseteq DataFiles /\ ops[u].left # {} /\ ops[u].left \subseteq ops[u].listed
    BY <2>1 DEF HashTrue
  <2>3. f \in ops[u].left /\ f \in DataFiles /\ f \in ops[u].listed
    BY <2>2, FirstIsOne
  <2>4. PICK d \in past : Between(ops[u], d, data)
    BY <2>1 DEF HashTrue
  <2>5. /\ o.left = left /\ o.at = IF left = {} THEN "publish" ELSE "hash"
        /\ o.listed = ops[u].listed /\ o.got = ops[u].got
    BY <2>1 DEF Commands0, Places0
  <2>6. o \in Commands0
    BY <2>1 DEF Commands0, Places0
  <2>7. ops[u].got[f] = d[f]
    <3>1. Read(ops[u], f, d) /\ (f = "artifact" => d[f] = 1) /\ (f # "artifact" => d[f] <= data[f])
      BY <2>3, <2>4 DEF Between
    <3>2. data[f] < Torn /\ data[f] \in Nat /\ d[f] \in Nat
      BY <2>1, <2>3, <2>4 DEF BackupInv, DataKept, Torn
    <3> QED
      BY <1>2, <3>1, <3>2 DEF Read
  <2>8. Between(o, d, data)
    <3>1. \A g \in o.listed : g \notin left => g \notin ops[u].left \/ g = f
      OBVIOUS
    <3>2. \A g \in DataFiles : Read(ops[u], g, d) => Read(o, g, d)
      BY <2>5 DEF Read
    <3> QED
      BY <2>4, <2>5, <2>7, <3>1, <3>2 DEF Between
  <2>9. CommandTrue(o, data, past, Snapshots)
    <3>1. o.at \in {"hash", "publish"} /\ (o.left = {} <=> o.at = "publish")
      BY <2>5
    <3>2. HashTrue(o, past, data)
      BY <2>1, <2>5, <2>8, <3>1 DEF HashTrue
    <3> QED
      BY <3>1, <3>2, <2>6 DEF CommandTrue, CopyStands, ExtractTrue
  <2>10. Becomes0(u, o) /\ UNCHANGED <<data, past, archives, target, bkLock, bkCount>>
    BY <1>2 DEF HashAgain
  <2> QED
    BY <2>9, <2>10, CommandOnly
<1> QED
  BY <1>1, <1>2

\* Every copy was found again: the archive is the directory of one moment.
LEMMA PublishBackupKeeps ==
    ASSUME BackupInv, NEW u \in Operators, PublishBackup(u)
    PROVE  BackupInv'
<1> DEFINE a == [id |-> ops[u].half, made |-> ops[u].half, files |-> ops[u].got, sound |-> TRUE]
<1>1. /\ ops[u] \in Commands0 /\ ops[u].at = "publish" /\ HashTrue(ops[u], past, data)
      /\ past \subseteq [DataFiles -> Nat]
  BY DEF PublishBackup, BackupInv, CommandTrue, DataKept
<1>2. ops[u].got \in [DataFiles -> Nat] /\ ops[u].half \in Nat
  BY <1>1 DEF Commands0
<1>3. PICK d \in past : Between(ops[u], d, data)
  BY <1>1 DEF HashTrue
<1>4. ops[u].left = {}
  BY <1>1 DEF HashTrue
<1>5. \A f \in DataFiles : ops[u].got[f] = IF f = "hub.db-shm" THEN 0 ELSE d[f]
  BY <1>3, <1>4 DEF Between
<1>6. ops[u].got = [f \in DataFiles |-> IF f = "hub.db-shm" THEN 0 ELSE d[f]]
  BY <1>2, <1>5
<1>7. ops[u].got \in Snapshots
  BY <1>6 DEF Snapshots
<1>8. a \in Archives0 /\ a.files \in Snapshots
  BY <1>2, <1>7 DEF Archives0
<1>9. archives' = [archives EXCEPT ![ops[u].name] = a] /\ past' = past /\ target' = target
  BY DEF PublishBackup
<1>10. archives' \in [Backups -> Archives0]
  BY <1>8, <1>9 DEF BackupInv
<1>11. BackupIsSnapshot'
  <2>1. Snapshots' = Snapshots
    BY <1>9 DEF Snapshots
  <2>2. ASSUME NEW n \in Backups, archives'[n] # NoArchive
        PROVE  archives'[n].files \in Snapshots
    <3>1. archives'[n] = a \/ archives'[n] = archives[n]
      BY <1>9 DEF BackupInv
    <3> QED
      BY <2>2, <3>1, <1>8 DEF BackupInv, BackupIsSnapshot
  <2> QED
    BY <2>1, <2>2, <1>9 DEF BackupInv, BackupIsSnapshot
<1>12. /\ bkCount' \in [writes : Nat, made : Nat] /\ bkCount'.writes = bkCount.writes
       /\ data' = data /\ Becomes0(u, Resting0)
  BY DEF PublishBackup, BackupInv, DataKept
<1> QED
  BY <1>9, <1>10, <1>11, <1>12, RestingTrue, CommandStep

\* A restore begins with an archive that is one of those.
LEMMA RestoreKeeps ==
    ASSUME BackupInv, NEW u \in Operators, NEW n \in Backups, RestoreBackup(u, n)
    PROVE  BackupInv'
<1> DEFINE left == {f \in DataFiles : archives[n].files[f] # 0}
           o == [Resting0 EXCEPT !.at = "extract", !.name = n, !.seen[n] = archives[n],
                                 !.left = left]
<1>1. archives[n] \in Archives0 /\ archives[n] # NoArchive
  BY DEF RestoreBackup, VerifyArchive, BackupInv, NoArchive
<1>2. archives[n].files \in Snapshots
  BY <1>1 DEF BackupInv, BackupIsSnapshot
<1>3. Resting0 \in Commands0
  BY RestingTrue DEF CommandTrue
<1>4. left \in SUBSET (DataFiles \cup Backups)
  OBVIOUS
<1>5. n \in Backups \cup {""}
  OBVIOUS
<1>6. o \in Commands0
  BY <1>1, <1>3, <1>4, <1>5 DEF Commands0, Places0
<1>7. o.at = "extract" /\ o.name = n /\ o.left = left /\ o.got = NoFile
  BY DEF Resting0
<1>8. o.seen[n] = archives[n]
  BY DEF Resting0
<1>9. \A f \in DataFiles \ left : o.got[f] = archives[n].files[f]
  BY <1>7 DEF NoFile
<1>10. CommandTrue(o, data, past, Snapshots)
  <2>1. ExtractTrue(o, Snapshots)
    BY <1>2, <1>7, <1>8, <1>9 DEF ExtractTrue
  <2> QED
    BY <2>1, <1>6, <1>7 DEF CommandTrue, CopyStands, HashTrue
<1>11. Becomes0(u, o) /\ UNCHANGED <<data, past, archives, target, bkLock, bkCount>>
  BY DEF RestoreBackup
<1> QED
  BY <1>10, <1>11, CommandOnly

\* File by file.
LEMMA ExtractKeeps ==
    ASSUME BackupInv, NEW u \in Operators, ExtractFile(u)
    PROVE  BackupInv'
<1> DEFINE f == FirstOf(ops[u].left)
           left == ops[u].left \ {f}
           files == ops[u].seen[ops[u].name].files
           o == [ops[u] EXCEPT !.got[f] = files[f], !.left = left,
                               !.at = IF left = {} THEN "clear" ELSE "extract"]
<1>1. /\ ops[u] \in Commands0 /\ ops[u].at = "extract" /\ ExtractTrue(ops[u], Snapshots)
      /\ past \subseteq [DataFiles -> Nat]
  BY DEF ExtractFile, BackupInv, CommandTrue, DataKept
<1>2. ops[u].got \in [DataFiles -> Nat] /\ ops[u].name \in Backups
  BY <1>1 DEF Commands0, ExtractTrue
<1>3. files \in Snapshots /\ files \in [DataFiles -> Nat]
  <2>1. ops[u].seen \in [Backups -> Archives0]
    BY <1>1 DEF Commands0
  <2>2. ops[u].seen[ops[u].name] \in Archives0
    BY <1>2, <2>1
  <2> QED
    BY <1>1, <2>2 DEF ExtractTrue, Archives0
<1>4. /\ o.got = [ops[u].got EXCEPT ![f] = files[f]] /\ o.left = left
      /\ o.at = IF left = {} THEN "clear" ELSE "extract"
      /\ o.name = ops[u].name /\ o.seen = ops[u].seen
  BY <1>1 DEF Commands0
<1>5. o.got \in [DataFiles -> Nat]
  <2>1. f \in DataFiles => files[f] \in Nat
    BY <1>3
  <2> HIDE DEF f, left, files, o
  <2> QED
    BY <1>2, <1>4, <2>1
<1>6. o \in Commands0
  BY <1>1, <1>5 DEF Commands0, Places0
<1>7. \A g \in DataFiles \ left : o.got[g] = files[g]
  BY <1>1, <1>2, <1>4 DEF ExtractTrue
<1>8. CommandTrue(o, data, past, Snapshots)
  <2>1. o.at \in {"clear", "extract"} /\ (o.left = {} \/ o.at = "extract")
    BY <1>4
  <2>2. ExtractTrue(o, Snapshots)
    BY <2>1, <1>2, <1>3, <1>4, <1>7 DEF ExtractTrue
  <2> QED
    BY <2>1, <2>2, <1>6 DEF CommandTrue, CopyStands, HashTrue
<1>9. Becomes0(u, o) /\ UNCHANGED <<data, past, archives, target, bkLock, bkCount>>
  BY DEF ExtractFile
<1> QED
  BY <1>8, <1>9, CommandOnly

\* The empty target goes away.
LEMMA ClearKeeps ==
    ASSUME BackupInv, NEW u \in Operators, ClearTarget(u)
    PROVE  BackupInv'
<1> DEFINE o == [ops[u] EXCEPT !.at = "move"]
<1>1. CASE Ends0(u)
  BY <1>1, EndsKeeps
<1>2. CASE /\ target' = [target EXCEPT !.kind = "absent"] /\ Becomes0(u, o)
           /\ UNCHANGED <<data, past, archives, bkLock, bkCount>>
           /\ target.kind \in {"absent", "empty"}
  <2>1. ops[u] \in Commands0 /\ ops[u].at = "clear" /\ ExtractTrue(ops[u], Snapshots)
    BY DEF ClearTarget, BackupInv, CommandTrue
  <2>2. o \in Commands0
    BY <2>1 DEF Commands0, Places0
  <2>3. /\ o.at = "move" /\ o.left = ops[u].left /\ o.name = ops[u].name
        /\ o.seen = ops[u].seen /\ o.got = ops[u].got
    BY <2>1 DEF Commands0
  <2>4. CommandTrue(o, data, past, Snapshots)
    BY <2>1, <2>2, <2>3 DEF CommandTrue, CopyStands, HashTrue, ExtractTrue
  <2>5. target'.kind # "restored"
    BY <1>2 DEF BackupInv
  <2>6. BackupIsSnapshot'
    BY <1>2, <2>5 DEF BackupInv, BackupIsSnapshot, Snapshots
  <2>7. /\ archives' \in [Backups -> Archives0] /\ bkCount' \in [writes : Nat, made : Nat]
        /\ bkCount'.writes = bkCount.writes
    BY <1>2 DEF BackupInv, DataKept
  <2> QED
    BY <1>2, <2>4, <2>6, <2>7, CommandStep
<1> QED
  BY <1>1, <1>2 DEF ClearTarget

\* The restored directory appears as a whole.
LEMMA MoveKeeps ==
    ASSUME BackupInv, NEW u \in Operators, PublishRestored(u)
    PROVE  BackupInv'
<1>1. CASE Ends0(u)
  BY <1>1, EndsKeeps
<1>2. CASE /\ target' = [kind |-> "restored", files |-> ops[u].got]
           /\ Becomes0(u, Resting0)
           /\ UNCHANGED <<data, past, archives, bkLock, bkCount>>
  <2>1. /\ ops[u] \in Commands0 /\ ops[u].at = "move" /\ ExtractTrue(ops[u], Snapshots)
        /\ past \subseteq [DataFiles -> Nat]
    BY DEF PublishRestored, BackupInv, CommandTrue, DataKept
  <2>2. ops[u].left = {} /\ ops[u].name \in Backups /\ ops[u].got \in [DataFiles -> Nat]
    BY <2>1 DEF ExtractTrue, Commands0
  <2>3. ops[u].seen[ops[u].name].files \in [DataFiles -> Nat]
    <3>1. ops[u].seen \in [Backups -> Archives0]
      BY <2>1 DEF Commands0
    <3> QED
      BY <2>2, <3>1 DEF Archives0
  <2>4. ops[u].got = ops[u].seen[ops[u].name].files
    BY <2>1, <2>2, <2>3 DEF ExtractTrue
  <2>5. target'.files \in Snapshots
    BY <1>2, <2>1, <2>4 DEF ExtractTrue
  <2>6. BackupIsSnapshot'
    BY <1>2, <2>5 DEF BackupInv, BackupIsSnapshot, Snapshots
  <2>7. /\ archives' \in [Backups -> Archives0] /\ bkCount' \in [writes : Nat, made : Nat]
        /\ bkCount'.writes = bkCount.writes
    BY <1>2 DEF BackupInv, DataKept
  <2> QED
    BY <1>2, <2>6, <2>7, RestingTrue, CommandStep
<1> QED
  BY <1>1, <1>2 DEF PublishRestored

\* The target of somebody else, and an archive that time has damaged.
LEMMA BackupOthersKeep ==
    ASSUME BackupInv, HubStarts \/ \E n \in Backups : Rot(n)
    PROVE  BackupInv'
<1>1. CASE HubStarts
  <2>1. target'.kind = "hub"
    BY <1>1 DEF HubStarts
  <2> QED
    BY <1>1, <2>1 DEF HubStarts, BackupInv, DataKept, BackupIsSnapshot, Snapshots
<1>2. ASSUME NEW n \in Backups, Rot(n) PROVE BackupInv'
  <2>1. archives[n] \in Archives0 /\ archives[n] # NoArchive
    BY <1>2 DEF Rot, BackupInv, NoArchive
  <2>2. archives' \in [Backups -> Archives0]
    BY <1>2, <2>1 DEF Rot, BackupInv, Archives0
  <2>3. archives'[n].files = archives[n].files
    BY <1>2, <2>1 DEF Rot, BackupInv, Archives0
  <2>4. BackupIsSnapshot'
    BY <1>2, <2>1, <2>3 DEF Rot, BackupInv, BackupIsSnapshot, Snapshots
  <2> QED
    BY <1>2, <2>2, <2>4 DEF Rot, BackupInv, DataKept, Snapshots
<1> QED
  BY <1>1, <1>2

\* A rotation.
LEMMA RotationKeeps ==
    ASSUME BackupInv, NEW u \in Operators,
           \/ ListBackups(u) \/ PlanPrune(u) \/ RecheckNext(u) \/ RemoveBackup(u)
           \/ RemoveFails(u) \/ PruneEnds(u) \/ \E n \in Backups : InspectCandidate(u, n)
    PROVE  BackupInv'
<1>1. ops[u] \in Commands0 /\ archives \in [Backups -> Archives0] /\ Resting0 \in Commands0
  BY RestingTrue DEF BackupInv, CommandTrue
<1>2. ASSUME NEW o \in Commands0, o.at \in {"inspect", "recheck", "next", "remove"},
             Becomes0(u, o), UNCHANGED <<data, past, archives, target, bkCount>>
      PROVE  BackupInv'
  BY <1>2, RotationTrue, CommandOnly
<1>3. CASE ListBackups(u)
  <2> DEFINE left == {n \in Backups : archives[n] # NoArchive}
             o == [Resting0 EXCEPT !.at = "inspect", !.left = left]
  <2>1. left \in SUBSET (DataFiles \cup Backups)
    OBVIOUS
  <2>2. o \in Commands0 /\ o.at = "inspect"
    BY <1>1, <2>1 DEF Commands0, Places0
  <2>3. Becomes0(u, o) /\ UNCHANGED <<data, past, archives, target, bkCount>>
    BY <1>3 DEF ListBackups
  <2> QED
    BY <2>2, <2>3, <1>2
<1>4. ASSUME NEW n \in Backups, InspectCandidate(u, n) PROVE BackupInv'
  <2> DEFINE left == ops[u].left \ {n}
             at == IF ops[u].left = {n} THEN "recheck" ELSE "inspect"
             o == [ops[u] EXCEPT !.seen[n] = archives[n], !.left = @ \ {n}, !.at = at]
  <2>1. CASE Ends0(u)
    BY <2>1, EndsKeeps
  <2>2. CASE Becomes0(u, o) /\ UNCHANGED <<data, past, archives, target, bkLock, bkCount>>
    <3>1. o \in Commands0 /\ o.at \in {"inspect", "recheck"}
      BY <1>1 DEF Commands0, Places0
    <3> QED
      BY <2>2, <3>1, <1>2
  <2> QED
    BY <1>4, <2>1, <2>2 DEF InspectCandidate
<1>5. CASE PlanPrune(u)
  <2> DEFINE seen == ops[u].seen
             cands == {n \in Backups : seen[n] # NoArchive}
             plan == {n \in cands : Cardinality(Newer(seen[n], seen)) >= KeepBackups}
             o == [ops[u] EXCEPT !.at = "next", !.plan = plan]
  <2>1. CASE Ends0(u)
    BY <2>1, EndsKeeps
  <2>2. CASE Becomes0(u, o) /\ UNCHANGED <<data, past, archives, target, bkLock, bkCount>>
    <3>1. plan \in SUBSET Backups
      OBVIOUS
    <3>2. \A p \in SUBSET Backups : /\ [ops[u] EXCEPT !.at = "next", !.plan = p] \in Commands0
                                    /\ [ops[u] EXCEPT !.at = "next", !.plan = p].at = "next"
      BY <1>1 DEF Commands0, Places0
    <3>3. o \in Commands0 /\ o.at = "next"
      BY <3>1, <3>2
    <3> QED
      BY <2>2, <3>3, <1>2
  <2> QED
    BY <1>5, <2>1, <2>2 DEF PlanPrune
<1>6. CASE RecheckNext(u)
  <2>1. ops[u].plan \subseteq Backups
    BY <1>1 DEF Commands0
  <2>2. ASSUME NEW n \in Backups,
               Becomes0(u, [ops[u] EXCEPT !.at = "remove", !.name = n, !.plan = @ \ {n}]),
               UNCHANGED <<data, past, archives, target, bkLock, bkCount>>
        PROVE  BackupInv'
    <3> DEFINE o == [ops[u] EXCEPT !.at = "remove", !.name = n, !.plan = @ \ {n}]
    <3>1. n \in Backups \cup {""}
      OBVIOUS
    <3>2. o \in Commands0 /\ o.at = "remove"
      BY <1>1, <3>1 DEF Commands0, Places0
    <3> QED
      BY <2>2, <3>2, <1>2
  <2> QED
    BY <1>6, <2>1, <2>2, EndsKeeps DEF RecheckNext
<1>7. CASE RemoveBackup(u) \/ RemoveFails(u)
  <2> DEFINE o == [ops[u] EXCEPT !.at = "next"]
  <2>1. o \in Commands0 /\ o.at = "next"
    BY <1>1 DEF Commands0, Places0
  <2>2. CASE RemoveFails(u)
    BY <2>1, <2>2, <1>2 DEF RemoveFails
  <2>3. CASE RemoveBackup(u)
    <3>1. NoArchive \in Archives0
      BY DEF NoArchive, Archives0, NoFile
    <3>2. /\ archives' = [archives EXCEPT ![ops[u].name] = NoArchive] /\ Becomes0(u, o)
          /\ UNCHANGED <<data, past, target, bkLock, bkCount>>
      BY <2>3 DEF RemoveBackup
    <3>3. archives' \in [Backups -> Archives0]
      BY <1>1, <3>1, <3>2
    <3>4. \A n \in Backups : archives'[n] \in {archives[n], NoArchive}
      BY <1>1, <3>2
    <3>5. BackupIsSnapshot'
      BY <3>2, <3>4 DEF BackupInv, BackupIsSnapshot, Snapshots
    <3>6. CommandTrue(o, data, past, Snapshots)
      BY <2>1, RotationTrue
    <3>7. bkCount' \in [writes : Nat, made : Nat] /\ bkCount'.writes = bkCount.writes
      BY <3>2 DEF BackupInv, DataKept
    <3> QED
      BY <3>2, <3>3, <3>5, <3>6, <3>7, CommandStep
  <2> QED
    BY <1>7, <2>2, <2>3
<1>8. CASE PruneEnds(u)
  BY <1>8, EndsKeeps DEF PruneEnds
<1> QED
  BY <1>3, <1>4, <1>5, <1>6, <1>7, <1>8

\* Every step keeps the invariant.
LEMMA BackupStep == BackupInv /\ [BackupNext]_bkVars => BackupInv'
<1> SUFFICES ASSUME BackupInv, [BackupNext]_bkVars PROVE BackupInv'
  OBVIOUS
<1>1. ASSUME NEW u \in Operators, OperatorStep(u) PROVE BackupInv'
  BY <1>1, CreateBackupKeeps, RestoreKeeps, RotationKeeps, AddFileKeeps, AddFileTailKeeps,
     ListAgainKeeps, HashAgainKeeps, PublishBackupKeeps, ExtractKeeps, ClearKeeps, MoveKeeps,
     EndsKeeps DEF OperatorStep, Stops0
<1>2. CASE UNCHANGED bkVars
  BY <1>2 DEF bkVars, BackupInv, DataKept, BackupIsSnapshot, Snapshots
<1> QED
  BY <1>1, <1>2, HubWritesKeeps, BackupOthersKeep DEF BackupNext

\* It holds at the start.
LEMMA BackupStarts == BackupInit => BackupInv
<1> SUFFICES ASSUME BackupInit PROVE BackupInv
  OBVIOUS
<1>1. MaxWrites \in Nat /\ data = [f \in DataFiles |-> 1] /\ past = {data}
      /\ bkCount = [writes |-> 0, made |-> 0]
  BY BackupAssumption DEF BackupInit
<1>2. DataKept
  BY <1>1 DEF DataKept
<1>3. NoArchive \in Archives0
  BY DEF NoArchive, Archives0, NoFile
<1>4. archives \in [Backups -> Archives0]
  BY <1>3 DEF BackupInit
<1>5. ops \in [Operators -> Commands0]
  BY RestingTrue DEF BackupInit, CommandTrue
<1>6. \A u \in Operators : CommandTrue(ops[u], data, past, Snapshots)
  BY RestingTrue DEF BackupInit
<1>7. BackupIsSnapshot
  BY DEF BackupInit, BackupIsSnapshot
<1> QED
  BY <1>2, <1>4, <1>5, <1>6, <1>7 DEF BackupInv

(***************************************************************************)
(* Every archive, and every directory that was restored, is what the data  *)
(* directory was at one moment, whatever the Hub writes while Create reads *)
(* and wherever a command stops: the second pass of verifySourceUnchanged  *)
(* finds what the first one read.                                          *)
(***************************************************************************)
THEOREM BackupsAreSnapshots == BackupSpec => []BackupIsSnapshot
<1>1. BackupInit => BackupInv
  BY BackupStarts
<1>2. BackupInv => BackupIsSnapshot
  BY DEF BackupInv
<1> QED
  BY <1>1, <1>2, BackupStep, PTL DEF BackupSpec

-----------------------------------------------------------------------------
(***************************************************************************)
(* Accounts.  A limit that is checked in one step and used in a later one  *)
(* is kept together with the requests that are between the two.            *)
(***************************************************************************)
AtStep(step) == {q \in AReqs : areq[q].step = step}

AcctTypes ==
    /\ failures \in Nat
    /\ areq \in [AReqs -> [step : {"idle", "verify", "open", "change", "token", "key"},
                           session : Sessions \cup {0}]]
    /\ secret \in [Secrets -> [kind : {"none", "token", "key"},
                               state : {"none", "live", "expired", "revoked", "deleted"}]]

\* The secrets of a kind in use, and the requests that will add one.
WithinQuota(kind) ==
    /\ IsFiniteSet(InUse(kind))
    /\ Cardinality(InUse(kind)) + Cardinality(AtStep(kind)) < MaxSecrets + Cardinality(AReqs)

AcctInv ==
    /\ AcctTypes
    /\ failures + Cardinality(AtStep("verify")) < LoginLimit + Cardinality(AReqs)
    /\ WithinQuota("token") /\ WithinQuota("key")

\* The requests at a step are finitely many, and no more than there are.
LEMMA AtStepIsFinite ==
    ASSUME NEW S \in SUBSET AReqs
    PROVE  /\ IsFiniteSet(S) /\ Cardinality(S) \in Nat /\ Cardinality(AReqs) \in Nat
           /\ Cardinality(S) <= Cardinality(AReqs)
  BY AccountsAssumption, FS_Subset, FS_CardinalityType

\* A request that leaves a step, and one that comes to it.
LEMMA LeavesStep ==
    ASSUME NEW S \in SUBSET AReqs, NEW q \in S
    PROVE  Cardinality(S \ {q}) = Cardinality(S) - 1
  BY AtStepIsFinite, FS_RemoveElement

\* What is in use only shrinks, and nobody comes to add one.
LEMMA QuotaKeeps ==
    ASSUME NEW kind, WithinQuota(kind), InUse(kind)' \subseteq InUse(kind),
           AtStep(kind)' \subseteq AtStep(kind)
    PROVE  WithinQuota(kind)'
<1>1. /\ IsFiniteSet(InUse(kind)') /\ Cardinality(InUse(kind)') <= Cardinality(InUse(kind))
  BY FS_Subset DEF WithinQuota
<1>2. AtStep(kind) \in SUBSET AReqs
  BY DEF AtStep
<1>3. Cardinality(AtStep(kind)') <= Cardinality(AtStep(kind))
  BY <1>2, AtStepIsFinite, FS_Subset
<1>4. /\ Cardinality(InUse(kind)) \in Nat /\ Cardinality(InUse(kind)') \in Nat
      /\ Cardinality(AtStep(kind)) \in Nat /\ Cardinality(AtStep(kind)') \in Nat
      /\ Cardinality(AReqs) \in Nat
  <2>1. AtStep(kind)' \in SUBSET AReqs
    BY <1>2
  <2> QED
    BY <1>1, <1>2, <2>1, AtStepIsFinite, FS_CardinalityType DEF WithinQuota
<1>5. MaxSecrets \in Nat
  BY AccountsAssumption
<1> QED
  BY <1>1, <1>3, <1>4, <1>5 DEF WithinQuota

\* There is room for one more, and one request more comes to add it.
LEMMA QuotaCounted ==
    ASSUME NEW kind, WithinQuota(kind), Cardinality(InUse(kind)) < MaxSecrets,
           InUse(kind)' = InUse(kind), AtStep(kind)' \subseteq AReqs
    PROVE  WithinQuota(kind)'
<1>1. Cardinality(InUse(kind)) \in Nat /\ MaxSecrets \in Nat
  BY FS_CardinalityType, AccountsAssumption DEF WithinQuota
<1>2. /\ Cardinality(AtStep(kind)') \in Nat /\ Cardinality(AReqs) \in Nat
      /\ Cardinality(AtStep(kind)') <= Cardinality(AReqs)
  BY AtStepIsFinite
<1>3. IsFiniteSet(InUse(kind)') /\ Cardinality(InUse(kind)') = Cardinality(InUse(kind))
  BY DEF WithinQuota
<1> QED
  BY <1>1, <1>2, <1>3 DEF WithinQuota

\* A request adds one and is done.
LEMMA QuotaUsed ==
    ASSUME NEW kind, WithinQuota(kind), NEW q \in AtStep(kind), NEW n, n \notin InUse(kind),
           InUse(kind)' = InUse(kind) \cup {n}, AtStep(kind)' = AtStep(kind) \ {q}
    PROVE  WithinQuota(kind)'
<1>1. AtStep(kind) \in SUBSET AReqs
  BY DEF AtStep
<1>2. /\ Cardinality(AtStep(kind)) \in Nat /\ Cardinality(AReqs) \in Nat
      /\ Cardinality(AtStep(kind)') = Cardinality(AtStep(kind)) - 1
  BY <1>1, AtStepIsFinite, LeavesStep
<1>3. /\ IsFiniteSet(InUse(kind)') /\ Cardinality(InUse(kind)') = Cardinality(InUse(kind)) + 1
      /\ Cardinality(InUse(kind)) \in Nat
  BY FS_AddElement, FS_CardinalityType DEF WithinQuota
<1>4. MaxSecrets \in Nat
  BY AccountsAssumption
<1> QED
  BY <1>2, <1>3, <1>4 DEF WithinQuota

\* A request that starts to log in found the limiter open.
LEMMA LimiterStep ==
    ASSUME AcctInv, AcctTypes', [AcctNext]_acctVars
    PROVE  (failures + Cardinality(AtStep("verify")) < LoginLimit + Cardinality(AReqs))'
<1> DEFINE V == AtStep("verify")
           Goal == failures' + Cardinality(V') < LoginLimit + Cardinality(AReqs)
<1>1. V \in SUBSET AReqs /\ V' \in SUBSET AReqs
  BY DEF AtStep
<1>2. /\ Cardinality(V) \in Nat /\ Cardinality(V') \in Nat /\ Cardinality(AReqs) \in Nat
      /\ Cardinality(V') <= Cardinality(AReqs)
  BY <1>1, AtStepIsFinite
<1>3. LoginLimit \in Nat \ {0} /\ failures \in Nat /\ failures' \in Nat
  BY AccountsAssumption DEF AcctInv, AcctTypes
<1>4. failures + Cardinality(V) < LoginLimit + Cardinality(AReqs)
  BY DEF AcctInv
<1>5. ASSUME V' \subseteq V, failures' <= failures PROVE Goal
  <2>1. Cardinality(V') <= Cardinality(V)
    BY <1>1, <1>5, AtStepIsFinite, FS_Subset
  <2> QED
    BY <2>1, <1>2, <1>3, <1>4, <1>5
<1>6. ASSUME failures' = failures, failures < LoginLimit PROVE Goal
  BY <1>2, <1>3, <1>6
<1>7. ASSUME failures' = 0 PROVE Goal
  BY <1>2, <1>3, <1>7
<1>8. ASSUME NEW q \in AReqs, LoginVerify(q) PROVE Goal
  <2>1. CASE failures' = 0
    BY <2>1, <1>7
  <2>2. CASE failures' = failures + 1 /\ areq' = [areq EXCEPT ![q] = Idle]
    <3>1. q \in V
      BY <1>8 DEF LoginVerify, AtStep
    <3>2. V' = V \ {q}
      BY <2>2, <3>1 DEF AtStep, Idle, AcctInv, AcctTypes
    <3>3. Cardinality(V') = Cardinality(V) - 1
      BY <1>1, <3>1, <3>2, LeavesStep
    <3> QED
      BY <2>2, <3>3, <1>2, <1>3, <1>4
  <2> QED
    BY <1>8, <2>1, <2>2 DEF LoginVerify
<1>9. ASSUME NEW q \in AReqs,
             \/ CreateWebSession(q) \/ ChangeBegin(q) \/ ChangeCommit(q) \/ CountTokens(q)
             \/ CountKeys(q) \/ InsertToken(q) \/ InsertKey(q)
      PROVE  Goal
  <2>1. failures' = failures
    BY <1>9 DEF CreateWebSession, ChangeBegin, ChangeCommit, CountTokens, CountKeys,
                InsertToken, InsertKey, AddSecret
  <2>2. V' \subseteq V
    BY <1>9 DEF CreateWebSession, ChangeBegin, ChangeCommit, CountTokens, CountKeys,
                InsertToken, InsertKey, AddSecret, AtStep, Idle, AcctInv, AcctTypes
  <2> QED
    BY <2>1, <2>2, <1>3, <1>5
<1>10. CASE Logout \/ SessionExpires \/ SecretStep \/ UNCHANGED acctVars
  <2>1. failures' = failures /\ V' \subseteq V
    BY <1>10 DEF Logout, SessionExpires, SecretStep, acctVars, AtStep
  <2> QED
    BY <2>1, <1>3, <1>5
<1>11. CASE WindowPasses \/ HubRestarts
  BY <1>11, <1>7 DEF WindowPasses, HubRestarts
<1>12. ASSUME NEW q \in AReqs, LoginBegin(q) PROVE Goal
  BY <1>12, <1>3, <1>6 DEF LoginBegin, Blocked
<1> QED
  BY <1>8, <1>9, <1>10, <1>11, <1>12 DEF AcctNext, AcctRequests

\* A request that will add a secret found room for it.
LEMMA QuotaStep ==
    ASSUME AcctInv, [AcctNext]_acctVars, NEW kind \in {"token", "key"}
    PROVE  WithinQuota(kind)'
<1>1. WithinQuota(kind) /\ AcctTypes
  BY DEF AcctInv
<1>2. ASSUME secret' = secret, AtStep(kind)' \subseteq AtStep(kind)
      PROVE  WithinQuota(kind)'
  <2>1. InUse(kind)' = InUse(kind)
    BY <1>2 DEF InUse, Good
  <2> QED
    BY <1>1, <1>2, <2>1, QuotaKeeps
<1>3. ASSUME NEW q \in AReqs,
             LoginBegin(q) \/ LoginVerify(q) \/ CreateWebSession(q) \/ ChangeBegin(q) \/ ChangeCommit(q)
      PROVE  WithinQuota(kind)'
  <2>1. secret' = secret
    BY <1>3 DEF LoginBegin, LoginVerify, CreateWebSession, ChangeBegin, ChangeCommit
  <2>2. AtStep(kind)' \subseteq AtStep(kind)
    BY <1>1, <1>3 DEF LoginBegin, LoginVerify, CreateWebSession, ChangeBegin, ChangeCommit,
                      AtStep, Idle, AcctTypes
  <2> QED
    BY <2>1, <2>2, <1>2
<1>4. ASSUME NEW q \in AReqs, CountTokens(q) \/ CountKeys(q) PROVE WithinQuota(kind)'
  <2>1. secret' = secret /\ InUse(kind)' = InUse(kind)
    BY <1>4 DEF CountTokens, CountKeys, InUse, Good
  <2>2. CASE areq' = [areq EXCEPT ![q].step = kind]
    <3>1. Cardinality(InUse(kind)) < MaxSecrets
      BY <1>1, <1>4, <2>2 DEF CountTokens, CountKeys, AcctTypes
    <3>2. AtStep(kind)' \subseteq AReqs
      BY DEF AtStep
    <3> QED
      BY <1>1, <2>1, <3>1, <3>2, QuotaCounted
  <2>3. CASE \E other \in {"token", "key"} \ {kind} : areq' = [areq EXCEPT ![q].step = other]
    <3>1. AtStep(kind)' \subseteq AtStep(kind)
      BY <1>1, <2>3 DEF AtStep, AcctTypes
    <3> QED
      BY <2>1, <3>1, <1>2
  <2> QED
    BY <1>4, <2>2, <2>3 DEF CountTokens, CountKeys
<1>5. ASSUME NEW q \in AReqs, NEW other \in {"token", "key"}, AddSecret(q, other)
      PROVE  WithinQuota(kind)'
  <2>1. PICK n \in Secrets :
          secret[n] = NoSecret /\ secret' = [secret EXCEPT ![n] = [kind |-> other, state |-> "live"]]
    BY <1>5 DEF AddSecret
  <2>2. areq[q].step = other /\ areq' = [areq EXCEPT ![q] = Idle]
    BY <1>5 DEF AddSecret
  <2>3. n \notin InUse(kind)
    BY <2>1 DEF InUse, Good, NoSecret
  <2>4. CASE other = kind
    <3>1. InUse(kind)' = InUse(kind) \cup {n}
      BY <1>1, <2>1, <2>4 DEF InUse, Good, AcctTypes
    <3>2. q \in AtStep(kind)
      BY <2>2, <2>4 DEF AtStep
    <3>3. AtStep(kind)' = AtStep(kind) \ {q}
      BY <1>1, <2>2 DEF AtStep, Idle, AcctTypes
    <3> QED
      BY <1>1, <2>3, <3>1, <3>2, <3>3, QuotaUsed
  <2>5. CASE other # kind
    <3>1. InUse(kind)' \subseteq InUse(kind)
      BY <1>1, <2>1, <2>5 DEF InUse, Good, AcctTypes
    <3>2. AtStep(kind)' \subseteq AtStep(kind)
      BY <1>1, <2>2 DEF AtStep, Idle, AcctTypes
    <3> QED
      BY <1>1, <3>1, <3>2, QuotaKeeps
  <2> QED
    BY <2>4, <2>5
<1>6. CASE SecretStep
  <2>1. PICK n \in Secrets, other \in {"token", "key"}, from \in SUBSET {"live", "revoked", "expired"},
             to \in {"revoked", "deleted", "expired"} : Becomes(n, other, from, to)
    BY <1>6 DEF SecretStep, AppTokenRevoke, AppDirectKeyRevoke, AppTokenDelete, AppDirectKeyDelete,
                SecretExpires, RevokeConnectionToken, RevokeDirectAccessKey, DeleteConnectionToken,
                DeleteDirectAccessKey
  <2>2. InUse(kind)' \subseteq InUse(kind)
    BY <1>1, <2>1 DEF Becomes, InUse, Good, AcctTypes
  <2>3. AtStep(kind)' \subseteq AtStep(kind)
    BY <1>6 DEF SecretStep, AtStep
  <2> QED
    BY <1>1, <2>2, <2>3, QuotaKeeps
<1>7. CASE WindowPasses \/ Logout \/ SessionExpires \/ UNCHANGED acctVars
  <2>1. secret' = secret /\ AtStep(kind)' \subseteq AtStep(kind)
    BY <1>7 DEF WindowPasses, Logout, SessionExpires, acctVars, AtStep
  <2> QED
    BY <2>1, <1>2
<1>8. CASE HubRestarts
  <2>1. secret' = secret
    BY <1>8 DEF HubRestarts
  <2>2. AtStep(kind)' \subseteq AtStep(kind)
    BY <1>8 DEF HubRestarts, AtStep, Idle
  <2> QED
    BY <2>1, <2>2, <1>2
<1> QED
  BY <1>3, <1>4, <1>5, <1>6, <1>7, <1>8 DEF AcctNext, AcctRequests, InsertToken, InsertKey

\* The types.
LEMMA AcctTypesStep == AcctTypes /\ [AcctNext]_acctVars => AcctTypes'
<1> SUFFICES ASSUME AcctTypes, [AcctNext]_acctVars PROVE AcctTypes'
  OBVIOUS
<1> USE DEF AcctTypes, Idle
<1>1. ASSUME NEW q \in AReqs, LoginBegin(q) \/ LoginVerify(q) \/ CreateWebSession(q) \/ ChangeCommit(q)
      PROVE  AcctTypes'
  BY <1>1 DEF LoginBegin, LoginVerify, CreateWebSession, ChangeCommit
<1>2. ASSUME NEW q \in AReqs, ChangeBegin(q) \/ CountTokens(q) \/ CountKeys(q)
      PROVE  AcctTypes'
  BY <1>2 DEF ChangeBegin, CountTokens, CountKeys
<1>3. ASSUME NEW q \in AReqs, NEW kind \in {"token", "key"}, AddSecret(q, kind) PROVE AcctTypes'
  BY <1>3 DEF AddSecret
<1>4. CASE SecretStep
  <2>1. PICK n \in Secrets, other \in {"token", "key"}, from \in SUBSET {"live", "revoked", "expired"},
             to \in {"revoked", "deleted", "expired"} : Becomes(n, other, from, to)
    BY <1>4 DEF SecretStep, AppTokenRevoke, AppDirectKeyRevoke, AppTokenDelete, AppDirectKeyDelete,
                SecretExpires, RevokeConnectionToken, RevokeDirectAccessKey, DeleteConnectionToken,
                DeleteDirectAccessKey
  <2> QED
    BY <1>4, <2>1 DEF SecretStep, Becomes
<1>5. CASE WindowPasses \/ Logout \/ SessionExpires \/ HubRestarts \/ UNCHANGED acctVars
  BY <1>5 DEF WindowPasses, Logout, SessionExpires, HubRestarts, acctVars
<1> QED
  BY <1>1, <1>2, <1>3, <1>4, <1>5 DEF AcctNext, AcctRequests, InsertToken, InsertKey

\* It holds at the start: nobody is at work.
LEMMA AcctStarts == AcctInit => AcctInv
<1> SUFFICES ASSUME AcctInit PROVE AcctInv
  OBVIOUS
<1>1. AcctTypes
  BY DEF AcctInit, AcctTypes, Idle, NoSecret
<1>2. AtStep("verify") = {} /\ AtStep("token") = {} /\ AtStep("key") = {}
  BY DEF AcctInit, AtStep, Idle
<1>3. InUse("token") = {} /\ InUse("key") = {}
  BY DEF AcctInit, InUse, Good, NoSecret
<1>4. IsFiniteSet({}) /\ Cardinality({}) = 0
  BY FS_EmptySet
<1>5. Cardinality(AReqs) \in Nat /\ Cardinality(AReqs) # 0
  BY AccountsAssumption, FS_EmptySet, FS_CardinalityType
<1>6. LoginLimit \in Nat /\ MaxSecrets \in Nat /\ failures = 0
  BY AccountsAssumption DEF AcctInit
<1> QED
  BY <1>1, <1>2, <1>3, <1>4, <1>5, <1>6 DEF AcctInv, WithinQuota

\* It says that the quotas hold.
LEMMA AcctInvImpliesQuotas == AcctInv => QuotasHold
<1> SUFFICES ASSUME AcctInv PROVE QuotasHold
  OBVIOUS
<1>1. /\ AtStep("verify") \in SUBSET AReqs /\ AtStep("token") \in SUBSET AReqs
      /\ AtStep("key") \in SUBSET AReqs
  BY DEF AtStep
<1>2. /\ Cardinality(AtStep("verify")) \in Nat /\ Cardinality(AtStep("token")) \in Nat
      /\ Cardinality(AtStep("key")) \in Nat /\ Cardinality(AReqs) \in Nat
  BY <1>1, AtStepIsFinite
<1>3. LoginLimit \in Nat /\ MaxSecrets \in Nat /\ failures \in Nat
  BY AccountsAssumption DEF AcctInv, AcctTypes
<1>4. failures < LoginLimit + Cardinality(AReqs)
  BY <1>2, <1>3 DEF AcctInv
<1>5. ASSUME NEW kind \in {"token", "key"}
      PROVE  Cardinality(InUse(kind)) < MaxSecrets + Cardinality(AReqs)
  <2>1. WithinQuota(kind)
    BY DEF AcctInv
  <2>2. Cardinality(InUse(kind)) \in Nat /\ Cardinality(AtStep(kind)) \in Nat
    BY <1>2, <2>1, FS_CardinalityType DEF WithinQuota
  <2> QED
    BY <1>2, <1>3, <2>1, <2>2 DEF WithinQuota
<1> QED
  BY <1>4, <1>5 DEF QuotasHold

-----------------------------------------------------------------------------
(* How a Hub is set up: with the step of its start, and with whether there *)
(* is an owner, goes what the table and the file of the token hold.        *)
SetupTypes ==
    /\ hub \in {"down", "admin", "file", "up"}
    /\ owners \in [1..MaxOwners -> {"none", "bootstrap", "admin"}]
    /\ adminSession \in [AdminSessions -> {"none", "old", "live", "revoked"}]

TokenFollows ==
    /\ hub = "file" => HasOwner \/ bootRow = starts
    /\ hub = "up" => HasOwner \/ bootRow \in {0, bootFile}
    /\ clearing # {} => HasOwner

AdminFollows ==
    /\ hub # "down" => admin = 1
    /\ admin # 0 => \A s \in AdminSessions : adminSession[s] # "old"

SetupInv == SetupTypes /\ BootstrapIsFirst /\ TokenFollows /\ AdminFollows

\* The accounts are counted, and an account is one.
LEMMA OwnersAreCounted ==
    ASSUME NEW own
    PROVE  LET O == {i \in 1..MaxOwners : own[i] # "none"}
           IN  Cardinality(O) \in Nat /\ \A i \in O : Cardinality(O) > 0
<1> DEFINE O == {i \in 1..MaxOwners : own[i] # "none"}
<1>1. IsFiniteSet(O)
  <2>1. IsFiniteSet(1..MaxOwners)
    BY SetupAssumption, FS_Interval
  <2> QED
    BY <2>1, FS_Subset
<1>2. Cardinality(O) \in Nat
  BY <1>1, FS_CardinalityType
<1>3. ASSUME NEW i \in O PROVE Cardinality(O) > 0
  <2>1. Cardinality(O) # 0
    BY <1>1, <1>3, FS_EmptySet
  <2> HIDE DEF O
  <2> QED
    BY <1>2, <2>1
<1> QED
  BY <1>2, <1>3

\* Whoever adds an account leaves the Hub with one, the first one if there was
\* none.
LEMMA AddedIsOwner ==
    ASSUME SetupTypes, SetupTypes', NEW how \in {"bootstrap", "admin"}, AddOwner(how),
           OwnerCount < MaxOwners, BootstrapIsFirst, how = "bootstrap" => ~HasOwner
    PROVE  HasOwner' /\ BootstrapIsFirst'
<1>1. OwnerCount \in Nat /\ OwnerCount + 1 \in 1..MaxOwners
  <2>1. OwnerCount \in Nat
    BY OwnersAreCounted DEF OwnerCount
  <2> QED
    BY <2>1, SetupAssumption
<1>2. owners' = [owners EXCEPT ![OwnerCount + 1] = how]
  BY DEF AddOwner
<1>3. owners'[OwnerCount + 1] = how
  BY <1>1, <1>2 DEF SetupTypes
<1>4. HasOwner'
  <2>1. OwnerCount + 1 \in {i \in 1..MaxOwners : owners'[i] # "none"}
    BY <1>1, <1>3
  <2> QED
    BY <2>1, OwnersAreCounted DEF HasOwner, OwnerCount
<1>5. how = "bootstrap" => OwnerCount + 1 = 1
  BY <1>1 DEF HasOwner
<1>6. ASSUME NEW i \in 1..MaxOwners, owners'[i] = "bootstrap" PROVE i = 1
  <2>1. CASE i = OwnerCount + 1
    BY <2>1, <1>3, <1>5, <1>6
  <2>2. CASE i # OwnerCount + 1
    BY <2>2, <1>1, <1>2, <1>6 DEF SetupTypes, BootstrapIsFirst
  <2> QED
    BY <2>1, <2>2
<1> QED
  BY <1>4, <1>6 DEF BootstrapIsFirst

\* The types of a Hub's setup.
LEMMA SetupTypesStep == SetupTypes /\ [SetupNext]_setupVars => SetupTypes'
<1> SUFFICES ASSUME SetupTypes, [SetupNext]_setupVars PROVE SetupTypes'
  OBVIOUS
<1> USE DEF SetupTypes
<1>1. CASE EnsureAdminAccount \/ EnsureBootstrap \/ SetupHubEnds \/ BootExpires \/ UNCHANGED setupVars
  BY <1>1 DEF EnsureAdminAccount, RotateAdminPassword, EnsureBootstrap, EnsureBootstrapToken,
              SetupHubEnds, BootExpires, setupVars, bootstrap, administrator
<1>2. CASE AdminLogin \/ AdminLogout
  BY <1>2 DEF AdminLogin, AdminLogout, bootstrap
<1>3. CASE Setup
  BY <1>3 DEF Setup, BootstrapOwnerAccount, AddOwner, administrator
<1>4. ASSUME NEW q \in Creators, CreateUser(q) \/ ClearBootstrapTokens(q) PROVE SetupTypes'
  BY <1>4 DEF CreateUser, ClearBootstrapTokens, AddOwner, administrator
<1> QED
  BY <1>1, <1>2, <1>3, <1>4 DEF SetupNext

\* Every step of a setup keeps the invariant.
LEMMA SetupStep == SetupInv /\ [SetupNext]_setupVars => SetupInv'
<1> SUFFICES ASSUME SetupInv, [SetupNext]_setupVars PROVE SetupInv'
  OBVIOUS
<1>1. SetupTypes /\ SetupTypes' /\ BootstrapIsFirst
  BY SetupTypesStep DEF SetupInv
<1>2. ASSUME owners' = owners
      PROVE  (HasOwner' <=> HasOwner) /\ BootstrapIsFirst'
  BY <1>1, <1>2 DEF HasOwner, OwnerCount, BootstrapIsFirst
<1>3. CASE EnsureAdminAccount
  <2>1. owners' = owners /\ clearing' = clearing /\ hub' \in {"down", "admin"}
    BY <1>3 DEF EnsureAdminAccount, bootstrap
  <2>2. TokenFollows'
    BY <2>1, <1>2 DEF SetupInv, TokenFollows
  <2>3. AdminFollows'
    BY <1>3 DEF EnsureAdminAccount, RotateAdminPassword, administrator, NoAdmin, SetupInv, AdminFollows
  <2> QED
    BY <1>1, <1>2, <2>1, <2>2, <2>3 DEF SetupInv
<1>4. CASE EnsureBootstrap
  <2>1. owners' = owners /\ clearing' = clearing /\ starts' = starts
    BY <1>4 DEF EnsureBootstrap
  <2>2. TokenFollows'
    BY <2>1, <1>2, <1>4 DEF EnsureBootstrap, EnsureBootstrapToken, SetupInv, TokenFollows
  <2>3. AdminFollows'
    BY <1>4 DEF EnsureBootstrap, administrator, SetupInv, AdminFollows
  <2> QED
    BY <1>1, <1>2, <2>1, <2>2, <2>3 DEF SetupInv
<1>5. CASE SetupHubEnds \/ AdminLogin \/ AdminLogout \/ UNCHANGED setupVars
  <2>1. /\ owners' = owners /\ clearing' \in {{}, clearing} /\ starts' = starts
        /\ bootRow' = bootRow /\ bootFile' = bootFile /\ hub' \in {"down", hub}
    BY <1>5 DEF SetupHubEnds, AdminLogin, AdminLogout, setupVars, bootstrap
  <2>2. TokenFollows'
    BY <2>1, <1>2 DEF SetupInv, TokenFollows
  <2>3. AdminFollows'
    BY <1>1, <1>5 DEF SetupHubEnds, AdminLogin, AdminLogout, setupVars, administrator, SetupInv,
                      AdminFollows, SetupTypes
  <2> QED
    BY <1>1, <1>2, <2>1, <2>2, <2>3 DEF SetupInv
<1>6. ASSUME NEW how \in {"bootstrap", "admin"}, AddOwner(how), OwnerCount < MaxOwners,
             how = "bootstrap" => ~HasOwner, UNCHANGED <<hub, administrator>>
      PROVE  SetupInv'
  <2>1. HasOwner' /\ BootstrapIsFirst'
    BY <1>1, <1>6, AddedIsOwner
  <2>2. TokenFollows' /\ AdminFollows'
    BY <1>6, <2>1 DEF SetupInv, TokenFollows, AdminFollows, administrator
  <2> QED
    BY <1>1, <2>1, <2>2 DEF SetupInv
<1>7. CASE Setup
  BY <1>7, <1>6 DEF Setup, BootstrapOwnerAccount
<1>8. ASSUME NEW q \in Creators, CreateUser(q) PROVE SetupInv'
  BY <1>8, <1>6 DEF CreateUser
<1>9. ASSUME NEW q \in Creators, ClearBootstrapTokens(q) PROVE SetupInv'
  <2>1. owners' = owners /\ HasOwner /\ UNCHANGED <<hub, administrator>>
    BY <1>9 DEF ClearBootstrapTokens, SetupInv, TokenFollows
  <2>2. TokenFollows' /\ AdminFollows'
    BY <2>1, <1>2 DEF SetupInv, TokenFollows, AdminFollows, administrator
  <2> QED
    BY <1>1, <1>2, <2>1, <2>2 DEF SetupInv
<1>10. CASE BootExpires
  <2>1. /\ owners' = owners /\ clearing' = clearing /\ hub' = hub /\ hub = "up"
        /\ bootFile' = bootFile /\ bootRow' \in {0, bootRow} /\ UNCHANGED administrator
    BY <1>10 DEF BootExpires
  <2>2. TokenFollows' /\ AdminFollows'
    BY <2>1, <1>2 DEF SetupInv, TokenFollows, AdminFollows, administrator
  <2> QED
    BY <1>1, <1>2, <2>1, <2>2 DEF SetupInv
<1> QED
  BY <1>3, <1>4, <1>5, <1>7, <1>8, <1>9, <1>10 DEF SetupNext

\* Of the accounts: the limits of logins and of secrets are exceeded by the
\* requests in flight at most, whatever their number and whatever the limits;
\* the bootstrap token makes the first owner only; and a Hub that serves has the
\* token of its table in its file and one administrator, without older sessions.
THEOREM AccountsStaySound == SetupSpec /\ AcctSpec => []AccountsAreSound
<1>1. SetupInit => SetupInv
  <2> SUFFICES ASSUME SetupInit PROVE SetupInv
    OBVIOUS
  <2> QED
    BY DEF SetupInit, SetupInv, SetupTypes, BootstrapIsFirst, TokenFollows, AdminFollows, NoAdmin
<1>2. SetupInv => BootstrapIsFirst /\ ReadyToServe
  BY DEF SetupInv, TokenFollows, AdminFollows, ReadyToServe
<1>3. AcctInv /\ [AcctNext]_acctVars => AcctInv'
  <2> SUFFICES ASSUME AcctInv, [AcctNext]_acctVars PROVE AcctInv'
    OBVIOUS
  <2>1. AcctTypes'
    BY AcctTypesStep DEF AcctInv
  <2>2. (failures + Cardinality(AtStep("verify")) < LoginLimit + Cardinality(AReqs))'
    BY <2>1, LimiterStep
  <2>3. WithinQuota("token")' /\ WithinQuota("key")'
    BY QuotaStep
  <2> QED
    BY <2>1, <2>2, <2>3 DEF AcctInv
<1> QED
  BY <1>1, <1>2, <1>3, SetupStep, AcctStarts, AcctInvImpliesQuotas, PTL
     DEF SetupSpec, AcctSpec, AccountsAreSound

-----------------------------------------------------------------------------
(***************************************************************************)
(* Rotations of backups.  A rotation plans to remove the candidates with   *)
(* KeepBackups newer ones.  The others are kept, and they are enough: every *)
(* planned one has KeepBackups newer ones among those that are kept.       *)
(***************************************************************************)
Cands(o) == {n \in Backups : o.seen[n] # NoArchive}
Few(set) == {n \in Backups : set[n] # NoArchive /\ Cardinality(Newer(set[n], set)) < KeepBackups}

\* What was made was made at some time.
IsDated(set) == \A n \in Backups : set[n] # NoArchive => set[n].made # 0

\* The backup that was seen, or another one just as old, is still there.
Stands(o, n, set) == set[n] # NoArchive /\ set[n].made = o.seen[n].made

\* A rotation at work: what it has seen stands, and later what it keeps and
\* what it has yet to remove.
Rotates(o, set) ==
    /\ o.at \in {"inspect", "recheck"} => \A n \in Cands(o) : Stands(o, n, set)
    /\ o.at \in {"next", "remove"} =>
          /\ o.plan \subseteq Cands(o) \ Few(o.seen)
          /\ \A n \in o.plan \cup Few(o.seen) : Stands(o, n, set)
    /\ o.at = "remove" =>
          /\ o.name \in Cands(o) \ (o.plan \cup Few(o.seen))
          /\ Stands(o, o.name, set)

\* The commands that hold the lock of the backup directory.
Copying == {"copy", "tail", "list", "hash", "publish"}
Rotating == {"inspect", "recheck", "next", "remove"}

LockHeld == \A u \in Operators : ops[u].at \in Copying \cup Rotating => bkLock = u

RotationTrueOf(o, set) ==
    /\ IsDated(o.seen) /\ Rotates(o, set)
    /\ o.at \in Copying => o.half # 0

RotationInv ==
    /\ BackupInv /\ LockHeld /\ IsDated(archives)
    /\ \A u \in Operators : RotationTrueOf(ops[u], archives)

\* Of the candidates newer than one that has enough newer ones, enough are kept.
LEMMA FewAreEnough ==
    ASSUME NEW set \in [Backups -> Archives0], NEW n \in Backups,
           Cardinality(Newer(set[n], set)) >= KeepBackups
    PROVE  Cardinality(Newer(set[n], set) \cap Few(set)) >= KeepBackups
<1> DEFINE N == Newer(set[n], set)
           K == N \cap Few(set)
           C(m) == Cardinality(Newer(set[m], set))
<1>1. \A m \in Backups : /\ Newer(set[m], set) \subseteq Backups
                         /\ IsFiniteSet(Newer(set[m], set)) /\ C(m) \in Nat
  <2>1. \A m \in Backups : Newer(set[m], set) \in SUBSET Backups
    BY DEF Newer
  <2> QED
    BY <2>1, BackupAssumption, FS_Subset, FS_CardinalityType
<1>2. KeepBackups \in Nat
  BY BackupAssumption
<1>3. IsFiniteSet(K) /\ Cardinality(K) \in Nat
  <2>1. K \in SUBSET N /\ IsFiniteSet(N)
    BY <1>1
  <2> QED
    BY <2>1, FS_Subset, FS_CardinalityType
<1>4. \A m \in Backups : set[m].made \in Nat
  BY DEF Archives0
<1>5. CASE N \subseteq Few(set)
  <2>1. K = N
    BY <1>5
  <2> QED
    BY <2>1
<1>6. ASSUME ~(N \subseteq Few(set)), Cardinality(K) < KeepBackups PROVE FALSE
  <2> DEFINE I == {C(m) : m \in N \ Few(set)}
  <2>1. N \subseteq Backups
    BY <1>1
  <2>2. I \in SUBSET Nat /\ I # {}
    BY <1>1, <1>6, <2>1
  <2>3. PICK i \in I : \A j \in I : i <= j
    BY <2>2, LeastNatural
  <2>4. PICK m \in N \ Few(set) : i = C(m)
    BY <2>3
  <2>5. m \in Backups /\ set[m] # NoArchive /\ set[m].made > set[n].made
    BY <2>4 DEF Newer
  <2>6. ASSUME NEW w \in Newer(set[m], set), w \notin Few(set) PROVE FALSE
    <3>1. w \in Backups /\ set[w] # NoArchive /\ set[w].made > set[m].made
      BY <2>6 DEF Newer
    <3>2. w \in N
      BY <1>4, <2>5, <3>1 DEF Newer
    <3>3. C(w) \in I /\ C(m) <= C(w)
      BY <2>3, <2>4, <2>6, <3>2
    <3>4. Newer(set[w], set) \subseteq Newer(set[m], set)
      BY <1>4, <2>5, <3>1 DEF Newer
    <3>5. w \notin Newer(set[w], set)
      BY <1>4, <3>1 DEF Newer
    <3>6. Newer(set[w], set) \in SUBSET (Newer(set[m], set) \ {w})
      BY <3>4, <3>5
    <3>7. /\ IsFiniteSet(Newer(set[m], set) \ {w})
          /\ Cardinality(Newer(set[m], set) \ {w}) = C(m) - 1
      BY <1>1, <2>5, <2>6, FS_RemoveElement
    <3>8. C(w) <= C(m) - 1
      BY <3>6, <3>7, FS_Subset
    <3> QED
      BY <1>1, <2>5, <3>1, <3>3, <3>8
  <2>7. Newer(set[m], set) \in SUBSET K
    <3>1. Newer(set[m], set) \subseteq N
      BY <1>4, <2>5 DEF Newer
    <3> QED
      BY <2>6, <3>1
  <2>8. C(m) <= Cardinality(K)
    BY <1>3, <2>7, FS_Subset
  <2>9. m \in Few(set)
    BY <1>1, <1>2, <1>3, <1>6, <2>5, <2>8 DEF Few
  <2> QED
    BY <2>4, <2>9
<1> QED
  BY <1>2, <1>3, <1>5, <1>6

\* A rotation removes only what has enough newer backups.
LEMMA RotationKeepsNewest ==
    ASSUME RotationInv, NEW u \in Operators, RemoveBackup(u)
    PROVE  PruneKeepsNewest
<1> DEFINE o == ops[u]
           n == o.name
<1>1. /\ n \in Backups /\ n \notin Few(o.seen) /\ o.seen[n] # NoArchive /\ Stands(o, n, archives)
      /\ \A m \in Few(o.seen) : Stands(o, m, archives)
  BY DEF RemoveBackup, RotationInv, RotationTrueOf, Rotates, Cands
<1>2. o.seen \in [Backups -> Archives0] /\ archives \in [Backups -> Archives0]
  BY DEF RotationInv, BackupInv, Commands0
<1>3. Cardinality(Newer(o.seen[n], o.seen)) >= KeepBackups
  <2>1. IsFiniteSet(Newer(o.seen[n], o.seen))
    <3>1. Newer(o.seen[n], o.seen) \in SUBSET Backups
      BY DEF Newer
    <3> QED
      BY <3>1, BackupAssumption, FS_Subset
  <2>2. Cardinality(Newer(o.seen[n], o.seen)) \in Nat /\ KeepBackups \in Nat
    BY <2>1, FS_CardinalityType, BackupAssumption
  <2>3. ~(Cardinality(Newer(o.seen[n], o.seen)) < KeepBackups)
    BY <1>1 DEF Few
  <2> QED
    BY <2>2, <2>3
<1> DEFINE K == Newer(o.seen[n], o.seen) \cap Few(o.seen)
           N == Newer(archives[n], archives)
<1>4. Cardinality(K) >= KeepBackups
  BY <1>1, <1>2, <1>3, FewAreEnough
<1>5. K \in SUBSET N
  <2> SUFFICES ASSUME NEW m \in K PROVE m \in N
    OBVIOUS
  <2>1. m \in Backups /\ o.seen[m].made > o.seen[n].made
    BY DEF Newer
  <2>2. archives[m] # NoArchive /\ archives[m].made = o.seen[m].made
        /\ archives[n].made = o.seen[n].made
    BY <1>1 DEF Stands
  <2> QED
    BY <2>1, <2>2 DEF Newer
<1>6. IsFiniteSet(N)
  <2>1. N \in SUBSET Backups
    BY DEF Newer
  <2> QED
    BY <2>1, BackupAssumption, FS_Subset
<1>7. Cardinality(N) >= KeepBackups
  <2>1. Cardinality(K) <= Cardinality(N) /\ IsFiniteSet(K)
    BY <1>5, <1>6, FS_Subset
  <2>2. Cardinality(K) \in Nat /\ Cardinality(N) \in Nat /\ KeepBackups \in Nat
    BY <2>1, <1>6, FS_CardinalityType, BackupAssumption
  <2> QED
    BY <1>4, <2>1, <2>2
<1>8. \A m \in Backups : archives[m] # NoArchive /\ archives'[m] = NoArchive => m = n
  BY <1>2 DEF RemoveBackup
<1> QED
  BY <1>7, <1>8 DEF PruneKeepsNewest

\* One command goes on: what it knows is true, and the archives change only
\* under the lock that it holds.
LEMMA RotationOne ==
    ASSUME RotationInv, BackupInv', NEW u \in Operators, NEW o, Becomes0(u, o),
           RotationTrueOf(o, archives'), IsDated(archives'),
           archives' = archives \/ bkLock = u,
           \/ o.at \notin Copying \cup Rotating /\ (bkLock' = bkLock \/ UnlockDirectory(u))
           \/ ops[u].at \in Copying \cup Rotating /\ bkLock' = bkLock
           \/ bkLock = NoOne /\ bkLock' = u
    PROVE  RotationInv'
<1>1. ops' = [ops EXCEPT ![u] = o] /\ DOMAIN ops = Operators
  BY DEF Becomes0, RotationInv, BackupInv
<1>2. ops'[u] = o /\ \A v \in Operators \ {u} : ops'[v] = ops[v]
  BY <1>1
<1>3. LockHeld'
  BY <1>2, BackupAssumption DEF RotationInv, LockHeld, UnlockDirectory
<1>4. ASSUME NEW v \in Operators \ {u} PROVE RotationTrueOf(ops[v], archives')
  <2>1. RotationTrueOf(ops[v], archives)
    BY DEF RotationInv
  <2>2. CASE archives' = archives
    BY <2>1, <2>2
  <2>3. CASE bkLock = u
    <3>1. ops[v].at \notin Copying \cup Rotating
      BY <2>3 DEF RotationInv, LockHeld
    <3> QED
      BY <2>1, <3>1 DEF RotationTrueOf, Rotates, Rotating
  <2> QED
    BY <2>2, <2>3
<1>5. \A v \in Operators : RotationTrueOf(ops'[v], archives')
  BY <1>2, <1>4
<1> QED
  BY <1>3, <1>5 DEF RotationInv

\* A command at rest has seen nothing.
LEMMA RestingRotates ==
    ASSUME NEW set
    PROVE  RotationTrueOf(Resting0, set) /\ Resting0.at \notin Copying \cup Rotating
  BY DEF RotationTrueOf, Resting0, IsDated, Rotates, Copying, Rotating

\* A command ends.
LEMMA RotationEnds ==
    ASSUME RotationInv, BackupInv', NEW u \in Operators, Ends0(u)
    PROVE  RotationInv'
<1>1. archives' = archives /\ Becomes0(u, Resting0) /\ UnlockDirectory(u) /\ IsDated(archives)
  BY DEF Ends0, RotationInv
<1>2. IsDated(archives')
  BY <1>1
<1> QED
  BY <1>1, <1>2, RestingRotates, RotationOne

\* Steps of a backup, under the lock.
LEMMA RotationCopies ==
    ASSUME RotationInv, BackupInv', NEW u \in Operators, "processes" \notin BackupFaults,
           \/ AddFile(u) \/ AddFileTail(u) \/ ListAgain(u) \/ HashAgain(u) \/ PublishBackup(u)
           \/ \E n \in Backups : CreateBackup(u, n)
    PROVE  RotationInv'
<1>1. /\ ops[u] \in Commands0 /\ archives \in [Backups -> Archives0] /\ IsDated(archives)
      /\ RotationTrueOf(ops[u], archives)
  BY DEF RotationInv, BackupInv
<1>2. ASSUME NEW o, Becomes0(u, o), o.at \in Copying, o.seen = ops[u].seen, o.half = ops[u].half,
             ops[u].at \in Copying, UNCHANGED <<data, past, archives, target, bkLock, bkCount>>
      PROVE  RotationInv'
  <2>1. RotationTrueOf(o, archives') /\ IsDated(archives')
    BY <1>1, <1>2 DEF RotationTrueOf, Rotates, Copying
  <2> QED
    BY <1>2, <2>1, RotationOne
<1>3. CASE AddFile(u)
  <2> DEFINE f == FirstOf(ops[u].left)
             o == [ops[u] EXCEPT !.at = "tail", !.got[f] = data[f]]
  <2>1. CASE Ends0(u)
    BY <2>1, RotationEnds
  <2>2. CASE Becomes0(u, o) /\ UNCHANGED <<data, past, archives, target, bkLock, bkCount>>
    <3>1. o.at \in Copying /\ o.seen = ops[u].seen /\ o.half = ops[u].half /\ ops[u].at \in Copying
      BY <1>1, <1>3 DEF AddFile, Commands0, Copying
    <3> QED
      BY <2>2, <3>1, <1>2
  <2> QED
    BY <1>3, <2>1, <2>2 DEF AddFile
<1>4. CASE AddFileTail(u)
  <2> DEFINE f == FirstOf(ops[u].left)
             left == ops[u].left \ {f}
             o == [ops[u] EXCEPT
                     !.left = left, !.at = IF left = {} THEN "list" ELSE "copy",
                     !.got[f] = IF data[f] \in {0, @} THEN @ ELSE Torn]
  <2>1. Becomes0(u, o) /\ UNCHANGED <<data, past, archives, target, bkLock, bkCount>>
    BY <1>4 DEF AddFileTail
  <2>2. o.at \in Copying /\ o.seen = ops[u].seen /\ o.half = ops[u].half /\ ops[u].at \in Copying
    BY <1>1, <1>4 DEF AddFileTail, Commands0, Copying
  <2> QED
    BY <2>1, <2>2, <1>2
<1>5. CASE ListAgain(u)
  <2> DEFINE o == [ops[u] EXCEPT !.at = "hash", !.left = ops[u].listed]
  <2>1. CASE Ends0(u)
    BY <2>1, RotationEnds
  <2>2. CASE Becomes0(u, o) /\ UNCHANGED <<data, past, archives, target, bkLock, bkCount>>
    <3>1. o.at \in Copying /\ o.seen = ops[u].seen /\ o.half = ops[u].half /\ ops[u].at \in Copying
      BY <1>1, <1>5 DEF ListAgain, Commands0, Copying
    <3> QED
      BY <2>2, <3>1, <1>2
  <2> QED
    BY <1>5, <2>1, <2>2 DEF ListAgain
<1>6. CASE HashAgain(u)
  <2> DEFINE f == FirstOf(ops[u].left)
             left == ops[u].left \ {f}
             o == [ops[u] EXCEPT !.left = left, !.at = IF left = {} THEN "publish" ELSE "hash"]
  <2>1. CASE Ends0(u)
    BY <2>1, RotationEnds
  <2>2. CASE Becomes0(u, o) /\ UNCHANGED <<data, past, archives, target, bkLock, bkCount>>
    <3>1. o.at \in Copying /\ o.seen = ops[u].seen /\ o.half = ops[u].half /\ ops[u].at \in Copying
      BY <1>1, <1>6 DEF HashAgain, Commands0, Copying
    <3> QED
      BY <2>2, <3>1, <1>2
  <2> QED
    BY <1>6, <2>1, <2>2 DEF HashAgain
<1>7. CASE PublishBackup(u)
  <2>1. bkLock = u /\ ops[u].half # 0
    BY <1>1, <1>7 DEF PublishBackup, RotationInv, LockHeld, RotationTrueOf, Copying
  <2>2. IsDated(archives')
    BY <1>1, <1>7, <2>1 DEF PublishBackup, IsDated
  <2>3. Becomes0(u, Resting0) /\ UnlockDirectory(u)
    BY <1>7 DEF PublishBackup
  <2> QED
    BY <2>1, <2>2, <2>3, RestingRotates, RotationOne
<1>8. ASSUME NEW n \in Backups, CreateBackup(u, n) PROVE RotationInv'
  <2> DEFINE o == [Resting0 EXCEPT !.at = "copy", !.name = n, !.left = CollectFiles,
                                   !.listed = CollectFiles, !.half = bkCount.made + 1]
  <2>1. /\ Becomes0(u, o) /\ archives' = archives
        /\ bkLock = NoOne /\ bkLock' = u
    BY <1>8 DEF CreateBackup, LockDirectory
  <2>2. bkCount.made \in Nat
    BY DEF RotationInv, BackupInv, DataKept
  <2>3. o.at = "copy" /\ o.seen = Resting0.seen /\ o.half = bkCount.made + 1
    BY DEF Resting0
  <2>4. RotationTrueOf(o, archives') /\ IsDated(archives')
    <3>1. IsDated(Resting0.seen)
      BY DEF Resting0, IsDated
    <3> QED
      BY <1>1, <2>1, <2>2, <2>3, <3>1 DEF RotationTrueOf, Rotates
  <2> QED
    BY <2>1, <2>4, RotationOne
<1> QED
  BY <1>3, <1>4, <1>5, <1>6, <1>7, <1>8

\* Steps of a restore, which takes no lock and leaves the archives alone.
LEMMA RotationRestores ==
    ASSUME RotationInv, BackupInv', NEW u \in Operators,
           \/ ExtractFile(u) \/ ClearTarget(u) \/ PublishRestored(u)
           \/ \E n \in Backups : RestoreBackup(u, n)
    PROVE  RotationInv'
<1>1. /\ ops[u] \in Commands0 /\ archives \in [Backups -> Archives0] /\ IsDated(archives)
      /\ RotationTrueOf(ops[u], archives)
  BY DEF RotationInv, BackupInv
<1>2. ASSUME NEW o, Becomes0(u, o), o.at \notin Copying \cup Rotating, IsDated(o.seen),
             archives' = archives, bkLock' = bkLock
      PROVE  RotationInv'
  <2>1. RotationTrueOf(o, archives') /\ IsDated(archives')
    BY <1>1, <1>2 DEF RotationTrueOf, Rotates, Copying, Rotating
  <2> QED
    BY <1>2, <2>1, RotationOne
<1>3. CASE ExtractFile(u)
  <2> DEFINE f == FirstOf(ops[u].left)
             left == ops[u].left \ {f}
             o == [ops[u] EXCEPT !.got[f] = ops[u].seen[ops[u].name].files[f], !.left = left,
                                 !.at = IF left = {} THEN "clear" ELSE "extract"]
  <2>1. Becomes0(u, o) /\ archives' = archives /\ bkLock' = bkLock
    BY <1>3 DEF ExtractFile
  <2>2. o.at \notin Copying \cup Rotating /\ o.seen = ops[u].seen
    BY <1>1 DEF Commands0, Copying, Rotating
  <2>3. IsDated(o.seen)
    BY <1>1, <2>2 DEF RotationTrueOf
  <2> HIDE DEF o
  <2> QED
    BY <2>1, <2>2, <2>3, <1>2
<1>4. CASE ClearTarget(u)
  <2> DEFINE o == [ops[u] EXCEPT !.at = "move"]
  <2>1. CASE Ends0(u)
    BY <2>1, RotationEnds
  <2>2. CASE Becomes0(u, o) /\ archives' = archives /\ bkLock' = bkLock
    <3>1. o.at \notin Copying \cup Rotating /\ o.seen = ops[u].seen
      BY <1>1 DEF Commands0, Copying, Rotating
    <3>2. IsDated(o.seen)
      BY <1>1, <3>1 DEF RotationTrueOf
    <3> HIDE DEF o
    <3> QED
      BY <2>2, <3>1, <3>2, <1>2
  <2> QED
    BY <1>4, <2>1, <2>2 DEF ClearTarget
<1>5. CASE PublishRestored(u)
  <2>1. CASE Ends0(u)
    BY <2>1, RotationEnds
  <2>2. CASE Becomes0(u, Resting0) /\ archives' = archives /\ bkLock' = bkLock
    BY <2>2, <1>2, RestingRotates DEF RotationTrueOf
  <2> QED
    BY <1>5, <2>1, <2>2 DEF PublishRestored
<1>6. ASSUME NEW n \in Backups, RestoreBackup(u, n) PROVE RotationInv'
  <2> DEFINE o == [Resting0 EXCEPT !.at = "extract", !.name = n, !.seen[n] = archives[n],
                                   !.left = {f \in DataFiles : archives[n].files[f] # 0}]
  <2>1. Becomes0(u, o) /\ archives' = archives /\ bkLock' = bkLock
    BY <1>6 DEF RestoreBackup
  <2>2. o.at = "extract" /\ o.seen = [Resting0.seen EXCEPT ![n] = archives[n]]
    BY DEF Resting0
  <2>3. Resting0.seen = [m \in Backups |-> NoArchive]
    BY DEF Resting0
  <2>4. IsDated(o.seen)
    BY <1>1, <2>2, <2>3 DEF IsDated
  <2>5. o.at \notin Copying \cup Rotating
    BY <2>2 DEF Copying, Rotating
  <2> HIDE DEF o
  <2> QED
    BY <2>1, <2>4, <2>5, <1>2
<1> QED
  BY <1>3, <1>4, <1>5, <1>6

\* Steps of a rotation, under the lock.
LEMMA RotationGoesOn ==
    ASSUME RotationInv, BackupInv', NEW u \in Operators, "processes" \notin BackupFaults,
           \/ ListBackups(u) \/ PlanPrune(u) \/ RecheckNext(u) \/ RemoveBackup(u)
           \/ RemoveFails(u) \/ PruneEnds(u) \/ \E n \in Backups : InspectCandidate(u, n)
    PROVE  RotationInv'
<1>1. /\ ops[u] \in Commands0 /\ archives \in [Backups -> Archives0] /\ IsDated(archives)
      /\ IsDated(ops[u].seen) /\ Rotates(ops[u], archives)
      /\ ops[u].seen \in [Backups -> Archives0] /\ ops[u].plan \in SUBSET Backups
  BY DEF RotationInv, BackupInv, RotationTrueOf, Commands0
<1>2. ASSUME NEW o, Becomes0(u, o), o.at \in Rotating, IsDated(o.seen), Rotates(o, archives'),
             IsDated(archives'), archives' = archives \/ bkLock = u,
             ops[u].at \in Rotating, bkLock' = bkLock
      PROVE  RotationInv'
  <2>1. RotationTrueOf(o, archives')
    BY <1>2 DEF RotationTrueOf, Copying, Rotating
  <2> QED
    BY <1>2, <2>1, RotationOne
<1>3. CASE ListBackups(u)
  <2> DEFINE left == {n \in Backups : archives[n] # NoArchive}
             o == [Resting0 EXCEPT !.at = "inspect", !.left = left]
  <2>1. /\ Becomes0(u, o) /\ archives' = archives /\ bkLock = NoOne /\ bkLock' = u
    BY <1>3 DEF ListBackups, LockDirectory
  <2>2. o.at = "inspect" /\ o.seen = [n \in Backups |-> NoArchive]
    BY DEF Resting0
  <2>3. RotationTrueOf(o, archives') /\ IsDated(archives')
    BY <1>1, <2>1, <2>2 DEF RotationTrueOf, IsDated, Rotates, Cands, Copying
  <2> QED
    BY <2>1, <2>3, RotationOne
<1>4. ASSUME NEW n \in Backups, InspectCandidate(u, n) PROVE RotationInv'
  <2> DEFINE left == ops[u].left \ {n}
             at == IF ops[u].left = {n} THEN "recheck" ELSE "inspect"
             o == [ops[u] EXCEPT !.seen[n] = archives[n], !.left = @ \ {n}, !.at = at]
  <2>1. CASE Ends0(u)
    BY <2>1, RotationEnds
  <2>2. CASE VerifyArchive(archives[n]) /\ Becomes0(u, o)
             /\ UNCHANGED <<data, past, archives, target, bkLock, bkCount>>
    <3>1. o.at \in {"inspect", "recheck"} /\ o.seen = [ops[u].seen EXCEPT ![n] = archives[n]]
      BY <1>1 DEF Commands0
    <3>2. archives[n] # NoArchive
      BY <2>2 DEF VerifyArchive, NoArchive
    <3>3. IsDated(o.seen)
      BY <1>1, <3>1 DEF IsDated
    <3>4. ops[u].at = "inspect"
      BY <1>4 DEF InspectCandidate
    <3> HIDE DEF o
    <3>5. Rotates(o, archives)
      BY <1>1, <3>1, <3>2, <3>4 DEF Rotates, Cands, Stands
    <3> QED
      BY <1>1, <2>2, <3>1, <3>3, <3>4, <3>5, <1>2 DEF Rotating
  <2> QED
    BY <1>4, <2>1, <2>2 DEF InspectCandidate
<1>5. CASE PlanPrune(u)
  <2> DEFINE seen == ops[u].seen
             cands == {n \in Backups : seen[n] # NoArchive}
             plan == {n \in cands : Cardinality(Newer(seen[n], seen)) >= KeepBackups}
             o == [ops[u] EXCEPT !.at = "next", !.plan = plan]
  <2>1. CASE Ends0(u)
    BY <2>1, RotationEnds
  <2>2. CASE Becomes0(u, o) /\ UNCHANGED <<data, past, archives, target, bkLock, bkCount>>
    <3>1. \A p \in SUBSET Backups :
            LET q == [ops[u] EXCEPT !.at = "next", !.plan = p]
            IN  q.at = "next" /\ q.seen = ops[u].seen /\ q.plan = p
      BY <1>1 DEF Commands0
    <3>2. plan \in SUBSET Backups
      OBVIOUS
    <3>3. o.at = "next" /\ o.seen = ops[u].seen /\ o.plan = plan
      BY <3>1, <3>2
    <3>4. ops[u].at = "recheck"
      BY <1>5 DEF PlanPrune
    <3>5. \A n \in Cands(ops[u]) : Stands(ops[u], n, archives)
      BY <1>1, <3>4 DEF Rotates
    <3>6. plan \subseteq Cands(ops[u])
      BY DEF Cands
    <3>7. plan \cap Few(ops[u].seen) = {}
      <4> SUFFICES ASSUME NEW n \in Backups, Cardinality(Newer(seen[n], seen)) >= KeepBackups,
                          Cardinality(Newer(seen[n], seen)) < KeepBackups
                   PROVE  FALSE
        BY DEF Few
      <4>1. Newer(seen[n], seen) \in SUBSET Backups
        BY DEF Newer
      <4>2. Cardinality(Newer(seen[n], seen)) \in Nat
        BY <4>1, BackupAssumption, FS_Subset, FS_CardinalityType
      <4> QED
        BY <4>2, BackupAssumption
    <3>8. Few(ops[u].seen) \subseteq Cands(ops[u])
      BY DEF Few, Cands
    <3> HIDE DEF o, plan
    <3>9. Cands(o) = Cands(ops[u])
      BY <3>3 DEF Cands
    <3>10. Rotates(o, archives)
      BY <3>3, <3>5, <3>6, <3>7, <3>8, <3>9 DEF Rotates, Stands
    <3> QED
      BY <1>1, <2>2, <3>3, <3>4, <3>10, <1>2 DEF Rotating
  <2> QED
    BY <1>5, <2>1, <2>2 DEF PlanPrune
<1>6. CASE RecheckNext(u)
  <2>1. ASSUME NEW n \in ops[u].plan,
               Becomes0(u, [ops[u] EXCEPT !.at = "remove", !.name = n, !.plan = @ \ {n}]),
               UNCHANGED <<data, past, archives, target, bkLock, bkCount>>
        PROVE  RotationInv'
    <3> DEFINE o == [ops[u] EXCEPT !.at = "remove", !.name = n, !.plan = @ \ {n}]
    <3>1. /\ o.at = "remove" /\ o.name = n /\ o.seen = ops[u].seen
          /\ o.plan = ops[u].plan \ {n}
      BY <1>1 DEF Commands0
    <3>2. ops[u].at = "next"
      BY <1>6 DEF RecheckNext
    <3> HIDE DEF o
    <3>3. Cands(o) = Cands(ops[u])
      BY <3>1 DEF Cands
    <3>4. Rotates(o, archives)
      BY <1>1, <3>1, <3>2, <3>3 DEF Rotates, Stands
    <3> QED
      BY <1>1, <2>1, <3>1, <3>2, <3>4, <1>2 DEF Rotating, o
  <2> QED
    BY <1>6, <2>1, RotationEnds DEF RecheckNext
<1>7. CASE RemoveBackup(u) \/ RemoveFails(u)
  <2> DEFINE o == [ops[u] EXCEPT !.at = "next"]
  <2>1. /\ o.at = "next" /\ o.seen = ops[u].seen /\ o.plan = ops[u].plan
    BY <1>1 DEF Commands0
  <2>2. ops[u].at = "remove" /\ Becomes0(u, o) /\ bkLock' = bkLock
    BY <1>7 DEF RemoveBackup, RemoveFails
  <2>3. bkLock = u
    BY <2>2 DEF RotationInv, LockHeld, Rotating
  <2>4. \A n \in Backups : archives'[n] # archives[n] => archives'[n] = NoArchive /\ n = ops[u].name
    BY <1>1, <1>7 DEF RemoveBackup, RemoveFails
  <2>5. IsDated(archives')
    BY <1>1, <2>4 DEF IsDated
  <2> HIDE DEF o
  <2>6. Cands(o) = Cands(ops[u])
    BY <2>1 DEF Cands
  <2>7. ops[u].plan \cup Few(ops[u].seen) \subseteq Backups /\ ops[u].name \notin ops[u].plan \cup Few(ops[u].seen)
    BY <1>1, <2>2 DEF Rotates, Few
  <2>8. Rotates(o, archives')
    BY <1>1, <2>1, <2>2, <2>4, <2>6, <2>7 DEF Rotates, Stands
  <2> QED
    BY <1>1, <2>1, <2>2, <2>3, <2>5, <2>8, <1>2 DEF Rotating
<1>8. CASE PruneEnds(u)
  BY <1>8, RotationEnds DEF PruneEnds
<1> QED
  BY <1>3, <1>4, <1>5, <1>6, <1>7, <1>8

\* Nobody's command: the Hub writes or starts, an archive is damaged.
LEMMA RotationLeft ==
    ASSUME RotationInv, BackupInv',
           \/ HubStarts \/ UNCHANGED bkVars
           \/ \E f \in DataFiles : HubWrites(f)
           \/ \E n \in Backups : Rot(n)
    PROVE  RotationInv'
<1>1. ops' = ops /\ bkLock' = bkLock
  BY DEF HubStarts, HubWrites, Rot, bkVars
<1>2. \A n \in Backups : /\ archives'[n] # NoArchive <=> archives[n] # NoArchive
                         /\ archives'[n].made = archives[n].made
  <2>1. CASE HubStarts \/ UNCHANGED bkVars \/ \E f \in DataFiles : HubWrites(f)
    BY <2>1 DEF HubStarts, HubWrites, bkVars
  <2>2. ASSUME NEW n \in Backups, Rot(n)
        PROVE  /\ archives'[n] # NoArchive /\ archives[n] # NoArchive
               /\ archives'[n].made = archives[n].made
               /\ \A m \in Backups \ {n} : archives'[m] = archives[m]
    <3>1. archives \in [Backups -> Archives0] /\ archives[n] # NoArchive
      BY <2>2 DEF RotationInv, BackupInv, Rot, NoArchive
    <3>2. archives[n].made # 0
      BY <3>1 DEF RotationInv, IsDated
    <3>3. archives'[n].made = archives[n].made /\ \A m \in Backups \ {n} : archives'[m] = archives[m]
      BY <2>2, <3>1 DEF Rot, Archives0
    <3>4. NoArchive.made = 0
      BY DEF NoArchive
    <3> QED
      BY <3>1, <3>2, <3>3, <3>4
  <2> QED
    BY <2>1, <2>2
<1>3. LockHeld' /\ IsDated(archives')
  BY <1>1, <1>2 DEF RotationInv, LockHeld, IsDated
<1>4. ASSUME NEW o \in Commands0, RotationTrueOf(o, archives) PROVE RotationTrueOf(o, archives')
  <2>1. /\ o.plan \subseteq Backups /\ Few(o.seen) \subseteq Backups /\ Cands(o) \subseteq Backups
    BY DEF Commands0, Few, Cands
  <2>2. \A n \in Backups : Stands(o, n, archives) => Stands(o, n, archives')
    BY <1>2 DEF Stands
  <2> QED
    BY <1>4, <2>1, <2>2 DEF RotationTrueOf, Rotates
<1>5. \A u \in Operators : RotationTrueOf(ops'[u], archives')
  BY <1>1, <1>4 DEF RotationInv, BackupInv
<1> QED
  BY <1>3, <1>5 DEF RotationInv

\* Every step keeps the invariant, and removes only what may go.
LEMMA RotationStep ==
    ASSUME RotationInv, "processes" \notin BackupFaults, [BackupNext]_bkVars
    PROVE  RotationInv' /\ PruneKeepsNewest
<1>1. BackupInv'
  BY BackupStep DEF RotationInv
<1>2. ASSUME NEW u \in Operators, OperatorStep(u) PROVE RotationInv'
  BY <1>1, <1>2, RotationCopies, RotationRestores, RotationGoesOn, RotationEnds
     DEF OperatorStep, Stops0
<1>3. RotationInv'
  BY <1>1, <1>2, RotationLeft DEF BackupNext
<1>4. archives \in [Backups -> Archives0]
  BY DEF RotationInv, BackupInv
<1>5. ASSUME \A n \in Backups : archives[n] # NoArchive => archives'[n] # NoArchive
      PROVE  PruneKeepsNewest
  BY <1>5 DEF PruneKeepsNewest
<1>6. ASSUME archives' = archives PROVE PruneKeepsNewest
  BY <1>5, <1>6
<1>7. ASSUME NEW u \in Operators, OperatorStep(u) PROVE PruneKeepsNewest
  <2>1. CASE PublishBackup(u)
    <3>1. \A n \in Backups : archives'[n] = archives[n] \/ archives'[n].sound
      BY <1>4, <2>1 DEF PublishBackup
    <3>2. ~NoArchive.sound
      BY DEF NoArchive
    <3> QED
      BY <1>5, <3>1, <3>2
  <2>2. CASE RemoveBackup(u)
    BY <2>2, RotationKeepsNewest
  <2>3. CASE ~PublishBackup(u) /\ ~RemoveBackup(u)
    <3>1. archives' = archives
      BY <1>7, <2>3 DEF OperatorStep, CreateBackup, RestoreBackup, InspectCandidate, AddFile,
         AddFileTail, ListAgain, HashAgain, ExtractFile, ClearTarget, PublishRestored, ListBackups,
         PlanPrune, RecheckNext, RemoveFails, PruneEnds, Stops0, Ends0
    <3> QED
      BY <3>1, <1>6
  <2> QED
    BY <2>1, <2>2, <2>3
<1>8. ASSUME NEW n \in Backups, Rot(n) PROVE PruneKeepsNewest
  <2>1. archives[n] # NoArchive
    BY <1>8 DEF Rot, NoArchive
  <2>2. archives'[n].made = archives[n].made /\ archives[n].made # 0
    BY <1>4, <1>8, <2>1 DEF Rot, Archives0, RotationInv, IsDated
  <2>3. NoArchive.made = 0
    BY DEF NoArchive
  <2>4. \A m \in Backups \ {n} : archives'[m] = archives[m]
    BY <1>4, <1>8 DEF Rot
  <2> QED
    BY <1>5, <2>2, <2>3, <2>4
<1>9. CASE HubStarts \/ UNCHANGED bkVars \/ \E f \in DataFiles : HubWrites(f)
  <2>1. archives' = archives
    BY <1>9 DEF HubStarts, HubWrites, bkVars
  <2> QED
    BY <2>1, <1>3, <1>6
<1> QED
  BY <1>3, <1>7, <1>8, <1>9 DEF BackupNext

-----------------------------------------------------------------------------
(***************************************************************************)
(* The prune of staging directories: the tree that is removed is the one   *)
(* that was seen under the name of its candidate, or what is left of it.   *)
(***************************************************************************)
StageIsPlanned ==
    /\ sprune.left \subseteq Finished
    /\ sprune.at \in {"check", "remove"} => sprune.cur \in Finished
    /\ sprune.at = "remove" =>
          /\ sprune.tree.id = sprune.seen[sprune.cur].id
          /\ sprune.tree.files \subseteq sprune.seen[sprune.cur].files

StageTypes ==
    /\ staging \in [Candidates -> Trees] /\ trees \in 0 .. MaxTrees
    /\ sprune \in [at : {"idle", "scan", "recheck", "next", "check", "remove", "restore"},
                   seen : [Candidates -> Trees], sizes : [Candidates -> SUBSET StageFiles],
                   left : SUBSET Finished, cur : Candidates \cup {""}, tree : Trees]

StageInv == StageTypes /\ StageIsPlanned

\* Nothing is known at rest.
LEMMA RestIsPlanned ==
    /\ NoTree \in Trees
    /\ SRest \in [at : {"idle", "scan", "recheck", "next", "check", "remove", "restore"},
                  seen : [Candidates -> Trees], sizes : [Candidates -> SUBSET StageFiles],
                  left : SUBSET Finished, cur : Candidates \cup {""}, tree : Trees]
    /\ SRest.at = "idle" /\ SRest.left = {}
<1>1. NoTree \in Trees
  BY StagingAssumption DEF NoTree, Trees
<1>2. Unseen \in [Candidates -> Trees]
  BY <1>1 DEF Unseen
<1> QED
  BY <1>1, <1>2 DEF SRest

\* The types of the prune.
LEMMA StageTypesStep == StageInv /\ [StagingNext]_stagingVars => StageTypes'
<1> SUFFICES ASSUME StageInv, [StagingNext]_stagingVars PROVE StageTypes'
  OBVIOUS
<1> USE DEF StageInv, StageTypes
<1>1. NoTree \in Trees /\ MaxTrees \in Nat
  BY RestIsPlanned, StagingAssumption
<1>2. ASSUME NEW c \in Candidates, BuildStage(c) PROVE StageTypes'
  <2>1. [id |-> trees + 1, files |-> {}] \in Trees /\ trees + 1 \in 0 .. MaxTrees
    <3>1. trees \in 0 .. MaxTrees /\ trees < MaxTrees
      BY <1>2 DEF BuildStage
    <3> HIDE DEF StageInv, StageTypes
    <3>2. trees + 1 \in 0 .. MaxTrees
      BY <1>1, <3>1
    <3> QED
      BY <3>2 DEF Trees
  <2> QED
    BY <1>2, <2>1 DEF BuildStage
<1>3. ASSUME NEW c \in Candidates, NEW f \in StageFiles, WriteStage(c, f) PROVE StageTypes'
  <2>1. [staging[c] EXCEPT !.files = @ \cup {f}] \in Trees
    BY DEF Trees
  <2>2. staging' = [staging EXCEPT ![c] = [staging[c] EXCEPT !.files = @ \cup {f}]]
    BY <1>3 DEF WriteStage
  <2> QED
    BY <1>3, <2>1, <2>2 DEF WriteStage
<1>4. CASE ListStaging
  BY <1>4, RestIsPlanned DEF ListStaging, Goes
<1>5. CASE ScanStaging
  <2> DEFINE planned == {c \in Finished : sprune.seen[c] # NoTree}
             sizes == [c \in Candidates |->
                         IF sprune.seen[c] = NoTree THEN {} ELSE ScanStagingTree(staging[c])]
  <2>1. sizes \in [Candidates -> SUBSET StageFiles]
    BY DEF ScanStagingTree, Trees
  <2>2. planned \in SUBSET Finished
    OBVIOUS
  <2>3. sprune' = SRest \/ sprune' = [sprune EXCEPT !.at = "recheck", !.left = planned, !.sizes = sizes]
    BY <1>5 DEF ScanStaging, Goes
  <2>4. trees' = trees /\ staging' = staging
    BY <1>5 DEF ScanStaging, Goes
  <2> QED
    BY <2>1, <2>2, <2>3, <2>4, RestIsPlanned
<1>6. CASE RecheckStaging \/ CheckIsolated \/ StagingPruned \/ PruneKilled
  BY <1>6, RestIsPlanned DEF RecheckStaging, CheckIsolated, StagingPruned, StopsHere, PruneKilled, Goes
<1>7. ASSUME NEW c \in Finished, IsolateStagingCandidate(c) PROVE StageTypes'
  <2>1. c \in Candidates /\ staging[c] \in Trees
    BY DEF Candidates
  <2> QED
    BY <1>1, <1>7, <2>1 DEF IsolateStagingCandidate, Goes
<1>8. CASE RemoveStagingTree
  <2>1. \A f \in sprune.tree.files : [sprune.tree EXCEPT !.files = @ \ {f}] \in Trees
    BY DEF Trees
  <2> QED
    BY <1>1, <1>8, <2>1 DEF RemoveStagingTree, Goes
<1>9. CASE RestoreIsolated
  BY <1>1, <1>9 DEF RestoreIsolated, Goes
<1>10. CASE UNCHANGED stagingVars
  BY <1>10 DEF stagingVars
<1> QED
  BY <1>2, <1>3, <1>4, <1>5, <1>6, <1>7, <1>8, <1>9, <1>10 DEF StagingNext, PruneStep

\* Every step keeps the plan.
LEMMA StageStep == StageInv /\ [StagingNext]_stagingVars => StageInv' /\ OnlyPlannedIsRemoved
<1> SUFFICES ASSUME StageInv, [StagingNext]_stagingVars PROVE StageInv' /\ OnlyPlannedIsRemoved
  OBVIOUS
<1>1. StageTypes /\ StageTypes' /\ StageIsPlanned
  BY StageTypesStep DEF StageInv
<1>2. ASSUME sprune' = sprune PROVE StageIsPlanned'
  BY <1>1, <1>2 DEF StageIsPlanned
<1>3. ASSUME ListStaging \/ ScanStaging \/ RecheckStaging \/ StagingPruned \/ PruneKilled \/ RestoreIsolated
      PROVE  StageIsPlanned'
  <2>1. sprune'.at \notin {"check", "remove"}
    BY <1>1, <1>3, RestIsPlanned DEF ListStaging, ScanStaging, RecheckStaging, StagingPruned, PruneKilled,
       RestoreIsolated, StopsHere, Goes, StageTypes
  <2>2. sprune'.left \subseteq Finished
    BY <1>1 DEF StageTypes
  <2> QED
    BY <2>1, <2>2 DEF StageIsPlanned
<1>4. ASSUME NEW c \in Finished, IsolateStagingCandidate(c) PROVE StageIsPlanned'
  BY <1>1, <1>4 DEF IsolateStagingCandidate, Goes, StageIsPlanned, StageTypes
<1>5. ASSUME CheckIsolated PROVE StageIsPlanned'
  BY <1>1, <1>5 DEF CheckIsolated, Goes, SameTree, StageIsPlanned, StageTypes
<1>6. ASSUME RemoveStagingTree PROVE StageIsPlanned'
  <2>1. ASSUME NEW f \in sprune.tree.files, sprune' = [sprune EXCEPT !.tree.files = @ \ {f}]
        PROVE  StageIsPlanned'
    <3>1. /\ sprune'.at = sprune.at /\ sprune'.left = sprune.left /\ sprune'.cur = sprune.cur
          /\ sprune'.seen = sprune.seen /\ sprune'.tree = [sprune.tree EXCEPT !.files = @ \ {f}]
      BY <1>1, <2>1 DEF StageTypes
    <3>2. sprune.tree \in Trees
      BY <1>1 DEF StageTypes
    <3>3. sprune'.tree.id = sprune.tree.id /\ sprune'.tree.files \subseteq sprune.tree.files
      BY <3>1, <3>2 DEF Trees
    <3> QED
      BY <1>1, <3>1, <3>3 DEF StageIsPlanned
  <2>2. ASSUME sprune' = [sprune EXCEPT !.at = "next", !.cur = "", !.tree = NoTree] \/
               sprune' = [sprune EXCEPT !.at = "restore"]
        PROVE  StageIsPlanned'
    BY <1>1, <2>2 DEF StageIsPlanned, StageTypes
  <2> QED
    BY <1>6, <2>1, <2>2 DEF RemoveStagingTree, Goes
<1>7. StageInv'
  <2>1. CASE UNCHANGED stagingVars
    BY <1>1, <1>2, <2>1 DEF stagingVars, StageInv
  <2>2. ASSUME NEW c \in Candidates, BuildStage(c) \/ \E f \in StageFiles : WriteStage(c, f)
        PROVE  StageInv'
    BY <1>1, <1>2, <2>2 DEF BuildStage, WriteStage, StageInv
  <2>3. CASE PruneStep
    BY <1>1, <1>3, <1>4, <1>5, <1>6, <2>3 DEF PruneStep, StageInv
  <2> QED
    BY <2>1, <2>2, <2>3 DEF StagingNext
<1>8. OnlyPlannedIsRemoved
  <2>1. CASE RemoveStagingTree
    <3>1. /\ sprune.cur \in Finished /\ sprune.tree.id = sprune.seen[sprune.cur].id
          /\ sprune.tree.files \subseteq sprune.seen[sprune.cur].files
      BY <1>1, <2>1 DEF RemoveStagingTree, StageIsPlanned
    <3>2. \A w \in wiped' \ wiped : \E f \in sprune.tree.files : w = <<sprune.tree.id, f>>
      BY <2>1 DEF RemoveStagingTree
    <3> QED
      BY <3>1, <3>2 DEF OnlyPlannedIsRemoved
  <2>2. CASE ~RemoveStagingTree
    <3>1. wiped' = wiped
      BY <2>2 DEF StagingNext, PruneStep, BuildStage, WriteStage, ListStaging, ScanStaging, RecheckStaging,
         CheckIsolated, IsolateStagingCandidate, RestoreIsolated, StagingPruned, StopsHere, PruneKilled,
         stagingVars
    <3> QED
      BY <3>1 DEF OnlyPlannedIsRemoved
  <2> QED
    BY <2>1, <2>2
<1> QED
  BY <1>7, <1>8

(***************************************************************************)
(* A rotation removes a backup only while KeepBackups newer ones exist,    *)
(* and the prune of staging removes only what it has planned, whatever     *)
(* releases, other commands and failures come between their steps.  Two    *)
(* processes that rotate at once ("processes") do not see each other's     *)
(* lock, and remove each other's newest.                                   *)
(***************************************************************************)
THEOREM PruningStaysSafe ==
    ASSUME "processes" \notin BackupFaults
    PROVE  BackupSpec /\ StagingSpec => PruningIsSafe
<1>1. BackupInit => RotationInv
  <2> SUFFICES ASSUME BackupInit PROVE RotationInv
    OBVIOUS
  <2>1. BackupInv
    BY BackupStarts
  <2>2. \A u \in Operators : ops[u] = Resting0
    BY DEF BackupInit
  <2>3. LockHeld
    BY <2>2, RestingRotates DEF LockHeld
  <2>4. IsDated(archives)
    BY DEF BackupInit, IsDated
  <2> QED
    BY <2>1, <2>2, <2>3, <2>4, RestingRotates DEF RotationInv
<1>2. RotationInv /\ [BackupNext]_bkVars => RotationInv' /\ PruneKeepsNewest
  BY RotationStep
<1>3. StagingInit => StageInv
  <2> SUFFICES ASSUME StagingInit PROVE StageInv
    OBVIOUS
  <2>1. 0 \in 0 .. MaxTrees
    BY StagingAssumption
  <2>2. Unseen \in [Candidates -> Trees]
    BY RestIsPlanned DEF Unseen
  <2> QED
    BY <2>1, <2>2, RestIsPlanned DEF StagingInit, StageInv, StageTypes, StageIsPlanned
<1> QED
  BY <1>1, <1>2, <1>3, StageStep, PTL DEF BackupSpec, StagingSpec, PruningIsSafe

================================================================================
