--------------------------- MODULE CloudCompletion ---------------------------
(***************************************************************************)
(* Completion callbacks of cloud collaborations (hub/core/                 *)
(* cloud_completion.go): a CHAT reports the end of its task as a durable   *)
(* notification, the dispatcher claims a batch of them for five minutes    *)
(* and acknowledges the batch, which records each result in its document   *)
(* and tells the Node, one notification after the other.                   *)
(*                                                                         *)
(* The Node's own queue and wake-up are external.  Results are local files *)
(* of two possible digests; texts and their limits are left out.  All      *)
(* notifications are for one dispatcher.                                   *)
(***************************************************************************)
EXTENDS CloudCollaboration

CONSTANTS Claims,      \* claim ids of the dispatcher
          AckFaults    \* "file": a result file may change; "reclaim": a claim
                       \* may be asked for again while it is acknowledged

ASSUME CompletionAssumption ==
    /\ IsFiniteSet(Claims) /\ AckFaults \subseteq {"file", "reclaim"}

VARIABLES rows,   \* cloud_completion_notifications
          acks,   \* completion.ack requests in flight
          file    \* digest of the result file of a task

ccVars == <<docVars, rows, acks, file>>
rowVars == <<rows, acks, file>>

Outcomes == {"completed", "failed"}
Ids == {"completion", "recovery"} \X CTasks \X Gens     \* notification ids
NoRow == [state |-> "none", outcome |-> "completed", chat |-> "none", claim |-> "none", fresh |-> FALSE]
NoAck == [step |-> "idle", left |-> {}, digest |-> [t \in CTasks |-> 0]]

CompletionTypeOK ==
    /\ rows \in [Ids -> [state : {"none", "pending", "claimed", "acked"}, outcome : Outcomes,
                         chat : Kinds \cup {"none"}, claim : Claims \cup {"none"}, fresh : BOOLEAN]]
    /\ acks \in [Claims -> [step : {"idle", "apply", "refused"}, left : SUBSET Ids,
                            digest : [CTasks -> 0..1]]]
    /\ file \in [CTasks -> 0..1]

CompletionInit ==
    /\ rows = [i \in Ids |-> NoRow]
    /\ acks = [c \in Claims |-> NoAck]
    /\ file = [t \in CTasks |-> 0]

Of(c) == {i \in Ids : rows[i].claim = c}
With(s) == {i \in Ids : rows[i].state = s}
Note(i) == <<i[2], i[3]>>

-----------------------------------------------------------------------------
(* completion.notify. *)

MayReport(t) ==
    /\ doc.task[t].chat # "none"
    /\ doc.task[t].status \in {"active", "result_available", "done", "blocked"}

\* EnqueueCloudCompletionNotification: a second report changes nothing, and is
\* an error when it says something else.
EnqueueNotification(i, outcome) ==
    rows' = [rows EXCEPT ![i] = IF @.state = "none"
                                THEN [NoRow EXCEPT !.state = "pending", !.outcome = outcome,
                                                   !.chat = doc.task[i[2]].chat]
                                ELSE @]

\* UpgradeCloudCompletionNotification: a recovery that now says completed
\* replaces a failed one that nobody holds.
UpgradeNotification(i) ==
    /\ rows[i].outcome = "failed" /\ rows[i].chat = doc.task[i[2]].chat
    /\ rows[i].state = "pending" \/ (rows[i].state = "claimed" /\ ~rows[i].fresh)
    /\ rows' = [rows EXCEPT ![i] = [@ EXCEPT !.outcome = "completed", !.state = "pending",
                                             !.claim = "none", !.fresh = FALSE]]

Notify(t, kind, outcome) ==
    LET i == <<kind, t, doc.task[t].gen>> IN
    /\ MayReport(t)
    /\ IF kind = "recovery" /\ outcome = "completed" /\ rows[i].state # "none" /\ rows[i].outcome # outcome
       THEN UpgradeNotification(i)
       ELSE rows[i].state = "none" /\ EnqueueNotification(i, outcome)
    /\ UNCHANGED <<docVars, acks, file>>

-----------------------------------------------------------------------------
(* completion.claim: ClaimCloudCompletionNotifications. *)

\* Claims that ran out are pending again.
Returned ==
    [i \in Ids |-> IF rows[i].state = "claimed" /\ ~rows[i].fresh
                   THEN [rows[i] EXCEPT !.state = "pending", !.claim = "none"] ELSE rows[i]]

\* A claim that has notifications answers with them; a new one takes some of
\* the pending ones.
Claim(c) ==
    LET held == {i \in Ids : Returned[i].claim = c} IN
    /\ "reclaim" \in AckFaults \/ acks[c].step # "apply"
    /\ IF held # {}
       THEN rows' = Returned
       ELSE \E batch \in SUBSET {i \in Ids : Returned[i].state = "pending"} :
              rows' = [i \in Ids |-> IF i \in batch
                                     THEN [Returned[i] EXCEPT !.state = "claimed", !.claim = c, !.fresh = TRUE]
                                     ELSE Returned[i]]
    /\ UNCHANGED <<docVars, acks, file>>

\* Five minutes after the claim.
ClaimExpires(c) ==
    /\ \E i \in Of(c) : rows[i].state = "claimed" /\ rows[i].fresh
    /\ rows' = [i \in Ids |-> IF i \in Of(c) /\ rows[i].state = "claimed"
                              THEN [rows[i] EXCEPT !.fresh = FALSE] ELSE rows[i]]
    /\ UNCHANGED <<docVars, acks, file>>

-----------------------------------------------------------------------------
(* completion.ack: ackCloudCompletions. *)

\* GetCloudCompletionClaim, and the digests of the result files from the Node.
ClaimIsGood(c) ==
    /\ \E i \in Of(c) : rows[i].state # "acked"
    /\ \A i \in Of(c) : rows[i].state = "acked" \/ (rows[i].state = "claimed" /\ rows[i].fresh)

AckBegin(c) ==
    /\ acks[c].step # "apply" /\ ClaimIsGood(c)
    /\ acks' = [acks EXCEPT ![c] = [step |-> "apply", left |-> Of(c), digest |-> file]]
    /\ UNCHANGED <<docVars, rows, file>>

\* applyCloudCompletionAcknowledgement: what the document must still say.
Applies(i, digest) ==
    LET event == doc.notice[Note(i)] IN
    /\ doc.task[i[2]].gen = i[3] /\ doc.task[i[2]].chat = rows[i].chat
    /\ event.status = "acked" =>
         /\ event.result = (IF rows[i].outcome = "completed" THEN "ready" ELSE "failed")
         /\ event.digest = digest

Applied(i, digest) ==
    LET r == IF rows[i].outcome = "completed" THEN "ready" ELSE "failed" IN
    Advanced([doc EXCEPT !.notice[Note(i)] = [status |-> "acked", result |-> r, digest |-> digest]], i[2], r)

DigestOf(c, i) == IF rows[i].outcome = "completed" THEN acks[c].digest[i[2]] ELSE 0

\* One notification of the batch is recorded; a recovery only passes.  The
\* Node may not confirm it, and the request ends after the save.
ApplyStep(c) ==
    /\ acks[c].step = "apply"
    /\ \E i \in acks[c].left :
         LET d == DigestOf(c, i) IN
         \/ /\ i[1] = "recovery"
            /\ acks' = [acks EXCEPT ![c].left = @ \ {i}]
            /\ UNCHANGED docVars
         \/ /\ i[1] = "completion" /\ Applies(i, d)
            /\ Edit(Applied(i, d))
            /\ \/ acks' = [acks EXCEPT ![c].left = @ \ {i}]
               \/ acks' = [acks EXCEPT ![c] = NoAck]
         \/ /\ i[1] = "completion" /\ ~Applies(i, d)
            /\ acks' = [acks EXCEPT ![c] = [NoAck EXCEPT !.step = "refused", !.left = {i}]]
            /\ UNCHANGED docVars
    /\ UNCHANGED <<rows, file>>

\* Before the documents are written, for comparison.
AckEndFirst(c) ==
    /\ acks[c].step = "apply"
    /\ rows' = [i \in Ids |-> IF rows[i].state = "claimed" /\ rows[i].claim = c
                              THEN [rows[i] EXCEPT !.state = "acked"] ELSE rows[i]]
    /\ acks' = [acks EXCEPT ![c] = NoAck]
    /\ UNCHANGED <<docVars, file>>

\* AcknowledgeCloudCompletionClaim: every notification the claim has by now.
AckEnd(c) ==
    /\ acks[c].step = "apply" /\ acks[c].left = {}
    /\ rows' = [i \in Ids |-> IF rows[i].state = "claimed" /\ rows[i].claim = c
                              THEN [rows[i] EXCEPT !.state = "acked"] ELSE rows[i]]
    /\ acks' = [acks EXCEPT ![c] = NoAck]
    /\ UNCHANGED <<docVars, file>>

\* The result file of a task is written once more (bound: once).
FileChanges(t) ==
    /\ "file" \in AckFaults /\ file[t] = 0
    /\ file' = [file EXCEPT ![t] = 1]
    /\ UNCHANGED <<docVars, rows, acks>>

HubEnds ==
    /\ creq' = [p \in Callers |-> Free]
    /\ acks' = [c \in Claims |-> NoAck]
    /\ UNCHANGED <<doc, prompts, rows, file>>

CompletionStep ==
    \/ \E t \in CTasks : FileChanges(t) \/ \E k \in {"completion", "recovery"}, o \in Outcomes : Notify(t, k, o)
    \/ \E c \in Claims : Claim(c) \/ ClaimExpires(c) \/ AckBegin(c) \/ ApplyStep(c) \/ AckEnd(c)
    \/ HubEnds

CompletionNext == (CloudNext /\ UNCHANGED rowVars) \/ CompletionStep

CompletionSpec == CloudInit /\ CompletionInit /\ [][CompletionNext]_ccVars

-----------------------------------------------------------------------------
(* Properties. *)

\* A completion whose notification is acknowledged is in its document: the
\* dispatcher never loses a result to a claim that ran out, a retry of an
\* acknowledgement or a restart between its steps.
AckedIsRecorded ==
    \A i \in Ids : rows[i].state = "acked" /\ i[1] = "completion" => doc.notice[Note(i)].status = "acked"

\* A completion that was recorded by an acknowledgement that did not end can be
\* acknowledged again: "Retrying a partial ack is safe."
PartialAckIsRetried ==
    \A c \in Claims : acks[c].step = "refused" =>
        \A i \in acks[c].left : doc.notice[Note(i)].status = "none"
=============================================================================
