----------------------------- MODULE ResultPool -----------------------------
(***************************************************************************)
(* Results of Cloud assistants (hub/core/result_pool.go, node/result.go).  *)
(* A Node publishes a text under an idempotency key: it opens a result,    *)
(* attaches its pages one by one, each attachment naming the revision it   *)
(* expects, and commits.  Requests and answers may be lost, a request that *)
(* the Node gave up may be executed late, a second call for the same key   *)
(* may overlap the first, and either may end in the middle.                *)
(*                                                                         *)
(* One key is modelled.  A page is an artifact that ArtifactStore has      *)
(* completed; sizes and the text of the manifest are left out.             *)
(***************************************************************************)
EXTENDS Naturals, FiniteSets

CONSTANTS Publishers,     \* calls of PublishCloudResult for the key
          Pages,          \* number of pages of the text
          MaxCalls        \* bound: calls that begin

ASSUME ResAssumption ==
    /\ IsFiniteSet(Publishers)
    /\ Pages \in Nat \ {0}
    /\ MaxCalls \in Nat

VARIABLES result,     \* the row of result_records
          pages,      \* result_pages: numbers of attached pages
          publisher,  \* the calls of PublishCloudResult
          late,       \* requests that were given up but may still be executed
          calls,      \* calls that have begun
          retention   \* [expired, failed]: the result has expired; its cleanup failed

resVars == <<result, pages, publisher, late, calls, retention>>

PageNos == 0..(Pages - 1)
NoResult == [status |-> "none", revision |-> 0]
NoCall == [step |-> "idle", revision |-> 0, page |-> 0]
Terminal == {"ready", "aborted", "failed"}
Requests == [kind : {"attach", "commit"}, page : PageNos, revision : 0..(Pages + 2)]

ResTypeOK ==
    /\ result \in [status : {"none", "open"} \cup Terminal, revision : 0..(Pages + 2)]
    /\ pages \subseteq PageNos
    /\ publisher \in [Publishers ->
          [step : {"idle", "attach", "commit", "published", "error"},
           revision : 0..(Pages + 2), page : 0..Pages]]
    /\ late \subseteq Requests
    /\ calls \in 0..MaxCalls
    /\ retention \in [expired : BOOLEAN, failed : BOOLEAN]

ResInit ==
    /\ result = NoResult /\ pages = {}
    /\ publisher = [p \in Publishers |-> NoCall]
    /\ late = {} /\ calls = 0
    /\ retention = [expired |-> FALSE, failed |-> FALSE]

-----------------------------------------------------------------------------
(* The Hub. *)

\* CreateResult: the row of the key, or a new one.  The record that exists is
\* answered even when it has expired.
Created == IF result.status = "none" THEN [status |-> "open", revision |-> 1] ELSE result

Writable(rev) == result.status = "open" /\ result.revision = rev /\ ~retention.expired

\* AttachResultPage of the store; the primary key refuses a second page of one
\* number.
AttachResultPage(no, rev) ==
    /\ pages' = pages \cup {no}
    /\ result' = [result EXCEPT !.revision = rev + 1]

\* CommitResult of the store.
CommitResult(rev) ==
    /\ result' = [status |-> "ready", revision |-> rev + 1]
    /\ UNCHANGED pages

Accepts(r) == Writable(r.revision) /\ (r.kind = "attach" => r.page \notin pages)

Execute(r) ==
    /\ Accepts(r)
    /\ IF r.kind = "attach" THEN AttachResultPage(r.page, r.revision)
                            ELSE CommitResult(r.revision)

\* AbortResult and FailResult, for a machine that gives the result up.
TransitionResult ==
    /\ Writable(result.revision)
    /\ \E s \in {"aborted", "failed"} : result' = [result EXCEPT !.status = s, !.revision = @ + 1]
    /\ UNCHANGED <<pages, publisher, late, calls, retention>>

\* resultRetention ends.
ExpireResult ==
    /\ result.status # "none" /\ ~retention.expired
    /\ retention' = [retention EXCEPT !.expired = TRUE]
    /\ UNCHANGED <<result, pages, publisher, late, calls>>

\* CleanupResults deletes rows of result_records by a column "id"
\* (deleteByIDs); the table has result_id instead, so the statement fails and
\* the transaction is rolled back.
CleanupResults ==
    /\ retention.expired
    /\ retention' = [retention EXCEPT !.failed = TRUE]
    /\ UNCHANGED <<result, pages, publisher, late, calls>>

-----------------------------------------------------------------------------
(* The Node. *)

Step(p, s) == publisher' = [publisher EXCEPT ![p].step = s]

\* The request that a call is about to send.
Request(p) == [kind |-> publisher[p].step, page |-> publisher[p].page % Pages,
               revision |-> publisher[p].revision]

\* The last page is left out, for comparison.
GoOnEarly(p, no, rev) ==
    publisher' = [publisher EXCEPT ![p] =
        [step |-> IF no + 2 < Pages THEN "attach" ELSE "commit", revision |-> rev, page |-> no + 1]]

\* Behind page no, with the revision that the Hub reported.
GoOn(p, no, rev) ==
    publisher' = [publisher EXCEPT ![p] =
        [step |-> IF no + 1 < Pages THEN "attach" ELSE "commit", revision |-> rev, page |-> no + 1]]

\* The call begins: it opens the result or finds it.
PublishBegin(p) ==
    /\ publisher[p].step \in {"idle", "published", "error"}
    /\ calls < MaxCalls
    /\ calls' = calls + 1
    /\ result' = Created
    /\ publisher' = [publisher EXCEPT ![p] =
         IF Created.status \in Terminal THEN [NoCall EXCEPT !.step = "published"]
         ELSE [step |-> "attach", revision |-> Created.revision, page |-> 0]]
    /\ UNCHANGED <<pages, late, retention>>

\* The page is uploaded, and its attachment succeeds and is answered.
PublishAttach(p) ==
    /\ publisher[p].step = "attach"
    /\ Execute(Request(p))
    /\ GoOn(p, publisher[p].page, publisher[p].revision + 1)
    /\ UNCHANGED <<late, calls, retention>>

\* The attachment is refused, or its answer or the request is lost; then
\* the revision of the result decides whether the call goes on.
PublishLookup(p) ==
    LET r == Request(p) IN
    /\ publisher[p].step = "attach"
    /\ \/ Execute(r) /\ UNCHANGED late
       \/ ~Accepts(r) /\ UNCHANGED <<result, pages, late>>
       \/ late' = late \cup {r} /\ UNCHANGED <<result, pages>>
    /\ \/ /\ result'.status = "open" /\ ~retention.expired
          /\ result'.revision > publisher[p].revision
          /\ GoOn(p, publisher[p].page, result'.revision)
       \/ /\ \/ result'.status # "open" \/ retention.expired
             \/ result'.revision <= publisher[p].revision
          /\ Step(p, "error")
    /\ UNCHANGED <<calls, retention>>

\* The commit, answered or not; a result that is ready is as good.
PublishCommit(p) ==
    LET r == Request(p) IN
    /\ publisher[p].step = "commit"
    /\ \/ Execute(r) /\ UNCHANGED late /\ Step(p, "published")
       \/ /\ ~Accepts(r)
          /\ Step(p, IF result.status = "ready" /\ ~retention.expired THEN "published" ELSE "error")
          /\ UNCHANGED <<result, pages, late>>
       \/ late' = late \cup {r} /\ Step(p, "error") /\ UNCHANGED <<result, pages>>
    /\ UNCHANGED <<calls, retention>>

\* Uploads fail, a lookup fails, or the Node ends: the call is over.
PublishFails(p) ==
    /\ publisher[p].step \in {"attach", "commit"}
    /\ Step(p, "error")
    /\ UNCHANGED <<result, pages, late, calls, retention>>

\* The Hub executes a request whose sender is gone.
LateRequest(r) ==
    /\ r \in late
    /\ late' = late \ {r}
    /\ Execute(r)
    /\ UNCHANGED <<publisher, calls, retention>>

ResNext ==
    \/ \E p \in Publishers : PublishBegin(p) \/ PublishAttach(p) \/ PublishLookup(p)
                             \/ PublishCommit(p) \/ PublishFails(p)
    \/ \E r \in late : LateRequest(r)
    \/ TransitionResult \/ ExpireResult \/ CleanupResults

ResSpec == ResInit /\ [][ResNext]_resVars

-----------------------------------------------------------------------------
(* Properties *)

\* A result that is ready has every page, whichever calls, retries and late
\* requests attached them, and in whatever order (AttachResultPage and
\* CommitResult compare revisions, a retry skips a page by the revision).
ReadyIsWhole == result.status = "ready" => pages = PageNos

\* Whoever has been told that the text is published can rely on it: the result
\* is over and stays what it is.
PublishedIsFinal ==
    \A p \in Publishers : publisher[p].step = "published" => result'.status = result.status

\* Of the result pool: a result that is ready has all its pages, and a call of
\* PublishCloudResult that returned one says the last word about it.
ResultsAreFinal == [][ReadyIsWhole' /\ PublishedIsFinal]_resVars
=============================================================================
