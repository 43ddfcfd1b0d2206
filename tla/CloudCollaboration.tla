-------------------------- MODULE CloudCollaboration --------------------------
(***************************************************************************)
(* A cloud collaboration of the Hub (hub/core/cloud_collaboration.go): one *)
(* document in the database, changed by compare-and-set on its revision,   *)
(* and the requests that call the Node between loading and saving it.      *)
(*                                                                         *)
(* A request holds the copy it loaded (doc) as long as that copy is the    *)
(* stored revision (current); a save of another request leaves it only the *)
(* CHAT it works on.  An edit that calls nobody between its load and its   *)
(* save is one step: a lost race leaves no trace.  So are a call and the   *)
(* save after it: of the Node only its answers are modelled, and a call    *)
(* may fail at any time.                                                   *)
(* An expired lease is a lease not held; a pause changes nothing that a    *)
(* request asks for, and a rejected decision may be asked again.  A CHAT is*)
(* "new" (created for the task and generation; session.create is           *)
(* idempotent by its key) or "reuse" (the one CHAT that callers name as    *)
(* target).  Prompts, scopes, limits on texts, deadlines and revisions in  *)
(* answers are left out.                                                   *)
(***************************************************************************)
EXTENDS Integers, FiniteSets

CONSTANTS CTasks,         \* task ids
          MaxGen,         \* bound: generations, one more per chat.rotate
          MaxActiveChats, \* limit of the collaboration
          MaxCreates,     \* limit of the collaboration; counted no further
          Callers         \* requests that may be in flight together

ASSUME CloudAssumption ==
    /\ IsFiniteSet(CTasks) /\ IsFiniteSet(Callers) /\ "none" \notin CTasks
    /\ MaxGen \in Nat \ {0} /\ MaxActiveChats \in Nat /\ MaxCreates \in Nat

VARIABLES doc,      \* state_json of the collaboration
          creq,     \* requests in flight
          prompts   \* continue prompts of a CHAT, sent or under way, since it
                    \* was last seen to progress

docVars == <<doc, creq, prompts>>

Gens == 1..MaxGen
Kinds == {"new", "reuse"}
Keys == CTasks \X Gens \X Kinds     \* a CHAT as it is recorded for a task
Results == {"ready", "failed"}
Callbacks == {"none", "registered", "armed"}

NoTask == [status |-> "none", gen |-> 1, chat |-> "none", target |-> FALSE, delivered |-> FALSE]
NoChat == [status |-> "none", callback |-> "none", stalled |-> FALSE, attempts |-> 0]
NoEvent == [status |-> "none", result |-> "none", digest |-> 0]
Empty == [status |-> "active", lease |-> FALSE, gen |-> 1, creates |-> 0, goal |-> "closed",
          task |-> [t \in CTasks |-> NoTask], chat |-> [k \in Keys |-> NoChat],
          turn |-> [n \in CTasks \X Gens |-> NoEvent],
          notice |-> [n \in CTasks \X Gens |-> NoEvent],
          decision |-> [t \in CTasks |-> "none"]]
Free == [step |-> "idle", task |-> "none", chat |-> "none", gen |-> 1, doc |-> Empty, current |-> FALSE]

TaskRecords == [status : {"none", "queued", "creating", "create_in_doubt", "active",
                          "result_available", "done", "blocked", "dropped"},
                gen : Gens, chat : Kinds \cup {"none"}, target : BOOLEAN, delivered : BOOLEAN]
ChatRecords == [status : {"none", "active", "completed", "failed", "released",
                          "release_pending", "retiring", "archived", "deleted"},
                callback : Callbacks, stalled : BOOLEAN, attempts : 0..1]
EventRecords == [status : {"none", "pending", "acked"}, result : Results \cup {"none"}, digest : 0..1]
Docs == [status : {"active", "closing", "completed"},
         lease : BOOLEAN, gen : Gens, creates : 0..MaxCreates,
         goal : {"open", "closed"},
         task : [CTasks -> TaskRecords],
         chat : [Keys -> ChatRecords],
         turn : [CTasks \X Gens -> EventRecords],
         notice : [CTasks \X Gens -> EventRecords],
         decision : [CTasks -> {"none", "requested", "approved", "consumed"}]]

Steps == {"idle", "create", "activate", "activate_new", "register", "send",
          "recover", "continue", "rotate", "delete", "close"}

CloudTypeOK ==
    /\ doc \in Docs
    /\ creq \in [Callers -> [step : Steps, task : CTasks \cup {"none"}, chat : Kinds \cup {"none"},
                             gen : Gens, doc : Docs, current : BOOLEAN]]
    /\ prompts \in [Keys -> Nat]

CloudInit ==
    /\ doc = Empty
    /\ creq = [p \in Callers |-> Free]
    /\ prompts = [k \in Keys |-> 0]

-----------------------------------------------------------------------------
(* The document. *)

Settled(s) == s \in {"done", "dropped"}

\* chatTaskIndex: where the CHAT of a task is recorded.
ChatOf(d, t) == <<t, d.task[t].gen, d.task[t].chat>>
HasChat(d, t) == d.task[t].chat # "none" /\ d.chat[ChatOf(d, t)].status # "none"

ActiveCloudChats(d) == Cardinality({k \in Keys : d.chat[k].status = "active"})

\* The document of the Hub while it takes changes.
Open(d) == d.status # "completed"

\* requireCloudCollaborationLease: a lease is the dispatcher's, and a rotation
\* renews its generation.
LeaseHeld(d) == d.lease

\* saveCloudCollaboration: every other copy is out of date.
OutOfDate(r) == [r EXCEPT !.doc = Empty, !.current = FALSE]
Outdated(p) == [q \in Callers |-> IF q # p THEN OutOfDate(creq[q]) ELSE creq[q]]

Edit(d) ==
    /\ doc' = d
    /\ creq' = [q \in Callers |-> OutOfDate(creq[q])]
    /\ UNCHANGED prompts

\* A request stores its copy and goes on; it ends with a conflict when the
\* stored revision is another.
SaveAnd(p, d, step) ==
    IF creq[p].current
    THEN /\ doc' = d
         /\ creq' = [Outdated(p) EXCEPT ![p] = IF step = "idle" THEN Free
                         ELSE [@ EXCEPT !.doc = d, !.step = step]]
    ELSE /\ creq' = [creq EXCEPT ![p] = Free]
         /\ UNCHANGED doc

\* loadCloudCollaboration, at the start of a request that will call the Node,
\* and the same with a save before the first call.
NewRequest(p) ==
    /\ creq[p].step = "idle"
    /\ Open(doc)

Holding(requests, p, t, step, d) ==
    [requests EXCEPT ![p] = [step |-> step, task |-> t, doc |-> d, current |-> TRUE,
                             chat |-> IF t = "none" THEN "none" ELSE d.task[t].chat,
                             gen |-> IF t = "none" THEN 1 ELSE d.task[t].gen]]

\* The CHAT a request works on.
Mine(p) == <<creq[p].task, creq[p].gen, creq[p].chat>>

Begin(p, t, step, d) ==
    /\ NewRequest(p)
    /\ creq' = Holding(creq, p, t, step, d)
    /\ UNCHANGED <<doc, prompts>>

BeginSaved(p, t, step, d) ==
    /\ NewRequest(p)
    /\ doc' = d
    /\ creq' = Holding(Outdated(p), p, t, step, d)
    /\ UNCHANGED prompts

End(p) == creq' = [creq EXCEPT ![p] = Free]

-----------------------------------------------------------------------------
(* Edits: cloudCollaborationAcquireLease ... cloudCollaborationRotateChat. *)

AcquireLease == Open(doc) /\ ~doc.lease /\ Edit([doc EXCEPT !.lease = TRUE])
ReleaseLease == Open(doc) /\ doc.lease /\ Edit([doc EXCEPT !.lease = FALSE])

\* Every copy holds the same time of expiry.
LeaseExpires ==
    /\ doc.lease
    /\ doc' = [doc EXCEPT !.lease = FALSE]
    /\ creq' = [q \in Callers |-> [creq[q] EXCEPT !.doc.lease = FALSE]]
    /\ UNCHANGED prompts

\* One goal stands for all of them: it is open when one of them is.
AddGoal == Open(doc) /\ doc.goal = "closed" /\ Edit([doc EXCEPT !.goal = "open"])
UpdateGoal == Open(doc) /\ doc.goal = "open" /\ Edit([doc EXCEPT !.goal = "closed"])

MayAddTask(d, t) == d.task[t].status = "none" /\ d.creates < MaxCreates
WithTask(d, t, target) ==
    [d EXCEPT !.task[t] = [NoTask EXCEPT !.status = "queued", !.gen = d.gen, !.target = target]]

AddTask(t) ==
    /\ Open(doc) /\ LeaseHeld(doc)
    /\ MayAddTask(doc, t)
    /\ \E target \in BOOLEAN : Edit(WithTask(doc, t, target))

\* An event of the task, of whichever generation, that was acknowledged.
Evidence(d, t) ==
    \E g \in Gens : \/ d.turn[t, g].status = "acked" /\ d.turn[t, g].result = "ready"
                    \/ d.notice[t, g].status = "acked" /\ d.notice[t, g].result = "ready"

\* Done without evidence, for comparison.
MayBecomeDone(d, t, s) ==
    CASE d.task[t].status = "queued" -> s \in {"blocked", "dropped"}
      [] d.task[t].status \in {"creating", "create_in_doubt", "active"} -> s = "blocked"
      [] d.task[t].status = "result_available" -> s \in {"blocked", "done"}
      [] d.task[t].status = "blocked" -> s = "dropped" \/ (s = "queued" /\ d.task[t].chat = "none")
      [] OTHER -> FALSE

MayBecome(d, t, s) ==
    CASE d.task[t].status = "queued" -> s \in {"blocked", "dropped"}
      [] d.task[t].status \in {"creating", "create_in_doubt", "active"} -> s = "blocked"
      [] d.task[t].status = "result_available" -> s = "blocked" \/ (s = "done" /\ Evidence(d, t))
      [] d.task[t].status = "blocked" -> s = "dropped" \/ (s = "queued" /\ d.task[t].chat = "none")
      [] OTHER -> FALSE

UpdateTask(t) ==
    /\ Open(doc) /\ LeaseHeld(doc)
    /\ \E s \in {"blocked", "dropped", "done", "queued"} :
         /\ MayBecome(doc, t, s)
         /\ Edit([doc EXCEPT !.task[t].status = s])

\* cloudCollaborationIngestEvent: one event of a CHAT for each generation; a
\* ready result makes the task result_available whatever it was.
IngestEvent(t) ==
    LET n == <<t, doc.task[t].gen>> IN
    /\ Open(doc) /\ LeaseHeld(doc)
    /\ doc.task[t].status # "none" /\ doc.task[t].chat # "none"
    /\ doc.turn[n].status = "none" /\ doc.notice[n].status = "none"
    /\ \E r \in Results :
         Edit([doc EXCEPT !.turn[n] = [NoEvent EXCEPT !.status = "pending", !.result = r],
                          !.task[t].status = IF r = "ready" THEN "result_available" ELSE @])

\* cloudCollaborationAdvanceAcknowledgedEvent: the task takes the result, the
\* CHAT too, and with the last task the goal.
Advanced(d, t, r) ==
    LET done == r = "ready"
        e == [d EXCEPT !.task[t].status = IF done THEN "done" ELSE "blocked"]
        f == IF HasChat(d, t)
             THEN [e EXCEPT !.chat[ChatOf(d, t)].status = IF done THEN "completed" ELSE "failed"] ELSE e
    IN  IF (\A u \in CTasks : f.task[u].status \in {"none", "done", "dropped"}) /\ f.goal = "open"
        THEN [f EXCEPT !.goal = "closed"] ELSE f

Acked(d) == \A n \in CTasks \X Gens : d.turn[n].status # "pending"
AllSettled(d) == \A t \in CTasks : d.task[t].status \in {"none", "done", "dropped"}
MayClose(d) ==
    /\ AllSettled(d) /\ d.goal # "open" /\ Acked(d)
    /\ \A t \in CTasks : d.decision[t] # "requested"

\* cloudCollaborationReadyToClose: an empty collaboration waits for a close.
ReadyToClose(d) == MayClose(d) /\ \E t \in CTasks : d.task[t].status # "none"

\* event.ack: an event that was acknowledged before advances its task again.
\* The last one goes on to the close, with the acknowledgement not yet saved.
AckEvent(p, n) ==
    /\ Open(doc) /\ LeaseHeld(doc)
    /\ \E kind \in {"turn", "notice"} :
         LET event == IF kind = "turn" THEN doc.turn[n] ELSE doc.notice[n]
             d == Advanced(IF kind = "turn" THEN [doc EXCEPT !.turn[n].status = "acked"] ELSE doc,
                           n[1], event.result)
         IN  /\ event.status # "none"
             /\ IF ReadyToClose(d)
                THEN Begin(p, "none", "close", [d EXCEPT !.status = "closing"])
                ELSE Edit(d)

RequestDecision(t) ==
    /\ Open(doc) /\ LeaseHeld(doc)
    /\ doc.decision[t] = "none"
    /\ Edit([doc EXCEPT !.decision[t] = "requested"])

ResolveDecision(t) ==
    /\ Open(doc) /\ doc.decision[t] = "requested"
    /\ \E s \in {"approved", "none"} : Edit([doc EXCEPT !.decision[t] = s])

\* pause and resume, also of a collaboration that is closing.
PauseResume == doc.status = "closing" /\ Edit([doc EXCEPT !.status = "active"])

-----------------------------------------------------------------------------
(* task.dispatch: cloudCollaborationDispatchTask. *)

DispatchActive(p, t) ==
    /\ doc.task[t].status = "active" /\ HasChat(doc, t)
    /\ Begin(p, t, IF doc.task[t].chat = "reuse" /\ ~doc.task[t].delivered THEN "register" ELSE "activate", doc)

Dispatchable(t) ==
    /\ doc.task[t].status \in {"queued", "create_in_doubt"}
    /\ ActiveCloudChats(doc) < MaxActiveChats

\* A new CHAT: its creation is saved before the Node is asked.
DispatchNew(p, t) ==
    /\ Dispatchable(t) /\ ~doc.task[t].target
    /\ BeginSaved(p, t, "create",
           IF doc.task[t].status = "queued"
           THEN [doc EXCEPT !.creates = IF @ < MaxCreates THEN @ + 1 ELSE @, !.task[t].status = "creating"] ELSE doc)

\* An existing CHAT that no other task uses: cloudCollaborationDispatchExistingTask.
\* The Node may have to give up the route of an earlier task first.
DispatchExisting(p, t) ==
    LET k == <<t, doc.task[t].gen, "reuse">> IN
    /\ Dispatchable(t) /\ doc.task[t].status = "queued"
    /\ \A o \in Keys : o[3] = "reuse" /\ o[1] # t => doc.chat[o].status # "active"
    /\ Begin(p, t, "register",
           [doc EXCEPT !.task[t] = [@ EXCEPT !.status = "active", !.chat = "reuse", !.target = TRUE,
                                             !.delivered = FALSE],
                       !.chat[k] = [NoChat EXCEPT !.status = "active"]])

Dispatch(p, t) ==
    /\ LeaseHeld(doc)
    /\ DispatchActive(p, t) \/ DispatchNew(p, t) \/ DispatchExisting(p, t)

\* The public dispatch (dispatchSimpleCloudTask): lease, task and dispatch, each
\* of them saved; a retry by the same key goes on where the last one stopped.
SimpleDispatch(p, t) == AcquireLease \/ AddTask(t) \/ Dispatch(p, t)

\* session.create and persistCloudCollaborationCreatedChat, which takes the
\* stored document when another request changed it; without an answer the task
\* is in doubt, unless the copy is out of date.
MayPersist(t, g) ==
    /\ doc.task[t].gen = g
    /\ \/ doc.task[t].chat = "new"
       \/ doc.task[t].chat = "none" /\ doc.task[t].status \in {"creating", "create_in_doubt"}

Persisted(t) ==
    LET k == <<t, doc.task[t].gen, "new">> IN
    [doc EXCEPT !.task[t] = [@ EXCEPT !.status = "active", !.chat = "new", !.delivered = TRUE],
                !.chat[k] = IF @.status = "none" THEN [NoChat EXCEPT !.status = "active"] ELSE @]

CreateAnswers(p) ==
    LET t == creq[p].task IN
    /\ creq[p].step = "create"
    /\ IF MayPersist(t, creq[p].gen)
       THEN /\ doc' = Persisted(t)
            /\ creq' = Holding(Outdated(p), p, t, "activate_new", Persisted(t))
       ELSE End(p) /\ UNCHANGED doc
    /\ UNCHANGED prompts

CreateFails(p) ==
    LET t == creq[p].task IN
    /\ creq[p].step = "create"
    /\ SaveAnd(p, [creq[p].doc EXCEPT !.task[t].status = "create_in_doubt"], "idle")
    /\ UNCHANGED prompts

\* activateCloudCollaborationCallback after a dispatch: how far registering and
\* arming came; a route that could not be registered is worth no save unless
\* the CHAT is new.
Activate(p) ==
    /\ creq[p].step \in {"activate", "activate_new"}
    /\ \/ \E got \in Callbacks :
            /\ got = "none" => creq[p].step = "activate_new"
            /\ SaveAnd(p, [creq[p].doc EXCEPT !.chat[Mine(p)].callback = got], "idle")
       \/ creq[p].step = "activate" /\ End(p) /\ UNCHANGED doc
    /\ UNCHANGED prompts

\* deliverCloudCollaborationExistingTask: the route is registered and saved ...
Register(p) ==
    /\ creq[p].step = "register"
    /\ \/ \E got \in {"registered", "armed"} :
            SaveAnd(p, [creq[p].doc EXCEPT !.chat[Mine(p)].callback = got], "send")
       \/ End(p) /\ UNCHANGED doc
    /\ UNCHANGED prompts

\* ... before the prompt is sent.  An outcome in doubt keeps the route ...
Sent(p) ==
    /\ creq[p].step = "send"
    /\ \E delivered, armed \in BOOLEAN :
         SaveAnd(p, [creq[p].doc EXCEPT !.task[creq[p].task].delivered = delivered,
                                        !.chat[Mine(p)].callback = IF armed THEN "armed" ELSE @], "idle")
    /\ UNCHANGED prompts

\* ... and a prompt that was refused gives it back, if the Node lets go of it.
Refused(p) ==
    LET d == creq[p].doc
        t == creq[p].task IN
    /\ creq[p].step = "send"
    /\ \/ SaveAnd(p, [d EXCEPT !.chat[Mine(p)] = [@ EXCEPT !.status = "released", !.callback = "none"],
                               !.task[t] = [@ EXCEPT !.status = "queued", !.chat = "none"]], "idle")
       \/ SaveAnd(p, [d EXCEPT !.chat[Mine(p)].status = "release_pending",
                               !.task[t].status = "blocked"], "idle")
    /\ UNCHANGED prompts

-----------------------------------------------------------------------------
(* status.poll and chat.continue. *)

\* cloudCollaborationPollStatus up to its first call; not due, settled and
\* undelivered tasks are answered from the document.
PollBegin(p, t) ==
    /\ LeaseHeld(doc)
    /\ IF doc.status = "closing"
       THEN MayClose(doc) /\ Begin(p, t, "close", doc)
       ELSE /\ doc.task[t].status \notin {"done", "blocked", "dropped"}
            /\ HasChat(doc, t)
            /\ doc.task[t].chat = "reuse" => doc.task[t].delivered
            /\ Begin(p, t, "recover", doc)

\* A CHAT stalls only after the fifteen minutes a continue request cannot last.
Continuing(k) == \E q \in Callers : creq[q].step = "continue" /\ Mine(q) = k

\* The route is activated when the document does not have it, then the Node
\* looks at the CHAT: it went on, or it is quiet, perhaps for long enough.
PollAnswer(p) ==
    LET k == Mine(p)
        d == [creq[p].doc EXCEPT !.chat[k].callback = "armed"] IN
    /\ creq[p].step = "recover"
    /\ \/ /\ SaveAnd(p, [d EXCEPT !.chat[k].stalled = FALSE, !.chat[k].attempts = 0], "idle")
          /\ prompts' = IF creq[p].current THEN [prompts EXCEPT ![k] = 0] ELSE prompts
       \/ \E quiet \in {d.chat[k].stalled} \cup (IF Continuing(k) THEN {} ELSE {TRUE}) :
            /\ SaveAnd(p, [d EXCEPT !.chat[k].stalled = quiet], "idle")
            /\ UNCHANGED prompts

\* The route could only be registered, or a call failed.
PollFails(p) ==
    /\ creq[p].step = "recover"
    /\ \/ /\ creq[p].doc.chat[Mine(p)].callback # "armed"
          /\ SaveAnd(p, [creq[p].doc EXCEPT !.chat[Mine(p)].callback = "registered"], "idle")
       \/ End(p) /\ UNCHANGED doc
    /\ UNCHANGED prompts

\* The attempt is not saved, for comparison.
ContinueUnsaved(p, t) ==
    LET k == ChatOf(doc, t) IN
    /\ LeaseHeld(doc)
    /\ doc.task[t].status = "active" /\ HasChat(doc, t) /\ doc.chat[k].status = "active"
    /\ doc.chat[k].stalled /\ doc.chat[k].attempts = 0
    /\ NewRequest(p) /\ UNCHANGED doc
    /\ creq' = Holding(Outdated(p), p, t, "continue", doc)
    /\ prompts' = [prompts EXCEPT ![k] = @ + 1]

\* cloudCollaborationContinueChat: the one attempt is saved before the call.
ContinueBegin(p, t) ==
    LET k == ChatOf(doc, t)
        d == [doc EXCEPT !.chat[k].attempts = 1] IN
    /\ LeaseHeld(doc)
    /\ doc.task[t].status = "active" /\ HasChat(doc, t) /\ doc.chat[k].status = "active"
    /\ doc.chat[k].stalled /\ doc.chat[k].attempts = 0
    /\ NewRequest(p)
    /\ doc' = d
    /\ creq' = Holding(Outdated(p), p, t, "continue", d)
    /\ prompts' = [prompts EXCEPT ![k] = @ + 1]

\* The Node says that it did not send the prompt; otherwise it did, or nobody knows.
ContinueUnsent(p) ==
    /\ creq[p].step = "continue"
    /\ SaveAnd(p, [creq[p].doc EXCEPT !.chat[Mine(p)].attempts = 0], "idle")
    /\ prompts' = [prompts EXCEPT ![Mine(p)] = IF @ > 0 THEN @ - 1 ELSE 0]

ContinueEnds(p) ==
    /\ creq[p].step = "continue"
    /\ End(p)
    /\ UNCHANGED <<doc, prompts>>

-----------------------------------------------------------------------------
(* chat.rotate, chat.delete and close. *)

\* unregisterCloudCollaborationTaskCallback.
Unregistered(d, k) == [d EXCEPT !.chat[k].callback = "none"]
UnregisterFails(p) ==
    /\ creq[p].step \in {"rotate", "delete"}
   
    /\ End(p)
    /\ UNCHANGED <<doc, prompts>>

RotateBegin(p, t) ==
    /\ LeaseHeld(doc)
    /\ HasChat(doc, t) /\ doc.task[t].gen < MaxGen /\ doc.gen < MaxGen
    /\ Begin(p, t, "rotate", doc)

\* cloudCollaborationRotateChat: the task starts again in a new generation.
Rotated(d, t) ==
    [Unregistered(d, ChatOf(d, t)) EXCEPT
        !.chat[ChatOf(d, t)].status = IF d.task[t].chat = "reuse" THEN "released" ELSE "retiring",
        !.task[t] = [NoTask EXCEPT !.status = "queued", !.gen = d.task[t].gen + 1],
        !.gen = @ + 1]

Rotate(p) ==
    LET d == creq[p].doc IN
    /\ creq[p].step = "rotate"
    /\ SaveAnd(p, Rotated(d, creq[p].task), "idle")
    /\ UNCHANGED prompts

DeleteBegin(p, t) ==
    /\ LeaseHeld(doc)
    /\ doc.decision[t] = "approved" /\ doc.task[t].chat = "new" /\ HasChat(doc, t)
    /\ Begin(p, t, "delete", doc)

DeleteChat(p) ==
    LET d == creq[p].doc
        t == creq[p].task IN
    /\ creq[p].step = "delete"
    /\ \/ /\ SaveAnd(p, [Unregistered(d, ChatOf(d, t)) EXCEPT
                            !.chat[ChatOf(d, t)].status = "deleted", !.decision[t] = "consumed",
                            !.task[t].status = "done"], "idle")
         
       \/ End(p) /\ UNCHANGED doc
    /\ UNCHANGED prompts

CloseBegin(p) ==
    /\ MayClose(doc)
    /\ Begin(p, "none", "close", [doc EXCEPT !.status = "closing"])

\* cloudCollaborationClose: the CHATs one after the other, until a call fails.
Live(d) == {k \in Keys : d.chat[k].status \notin {"none", "archived", "deleted", "released"}}

Shut(d, ks) ==
    [d EXCEPT !.chat = [k \in Keys |-> IF k \in ks THEN [Unregistered(d, k).chat[k] EXCEPT
                                           !.status = IF k[3] = "reuse" THEN "released" ELSE "archived"]
                                       ELSE d.chat[k]]]

Close(p) ==
    LET d == creq[p].doc IN
    /\ creq[p].step = "close"
    /\ \E ks \in SUBSET Live(d) :
            IF ks = Live(d)
            THEN SaveAnd(p, [Shut(d, ks) EXCEPT !.status = "completed"], "idle")
                
            ELSE
                 /\ SaveAnd(p, [Shut(d, ks) EXCEPT !.status = "closing"], "idle")
    /\ UNCHANGED prompts

-----------------------------------------------------------------------------
(* The whole. *)

\* Requests end with the Hub, whatever the Node has done for them.
HubEndsRequests ==
   
    /\ \E p \in Callers : creq[p].step # "idle"
    /\ creq' = [p \in Callers |-> Free]
    /\ UNCHANGED <<doc, prompts>>

EditNext ==
    \/ ReleaseLease \/ LeaseExpires
    \/ AddGoal \/ UpdateGoal \/ PauseResume
    \/ \E t \in CTasks : UpdateTask(t) \/ IngestEvent(t)
                         \/ RequestDecision(t) \/ ResolveDecision(t)

CallNext ==
    \/ \E p \in Callers : \E t \in CTasks :
         \/ SimpleDispatch(p, t) \/ PollBegin(p, t) \/ ContinueBegin(p, t) \/ RotateBegin(p, t) \/ DeleteBegin(p, t)
         \/ \E g \in Gens : AckEvent(p, <<t, g>>)
    \/ \E p \in Callers :
         \/ CreateAnswers(p) \/ CreateFails(p) \/ Activate(p) \/ Register(p) \/ Sent(p) \/ Refused(p)
         \/ PollAnswer(p) \/ PollFails(p) \/ ContinueUnsent(p) \/ ContinueEnds(p)
         \/ UnregisterFails(p) \/ Rotate(p) \/ DeleteChat(p) \/ CloseBegin(p) \/ Close(p)
    \/ HubEndsRequests

CloudNext == EditNext \/ CallNext

CloudSpec == CloudInit /\ [][CloudNext]_docVars

-----------------------------------------------------------------------------
(* Properties. *)

\* A CHAT that stalled is told to continue at most once until it is seen to go
\* on: the comment of cloudCollaborationContinueChat, "can therefore never send
\* a second ... because the first request's outcome was uncertain".
ContinueOnce == \A k \in Keys : prompts[k] <= 1

\* A task is done only on the evidence of an acknowledged result of its CHATs,
\* or with the deletion of its CHAT that the controller approved.
DoneHasEvidence ==
    \A t \in CTasks : doc.task[t].status = "done" => Evidence(doc, t) \/ doc.decision[t] = "consumed"
=============================================================================
