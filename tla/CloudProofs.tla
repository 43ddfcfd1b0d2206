------------------------------ MODULE CloudProofs ------------------------------
(***************************************************************************)
(* Proofs about cloud collaborations and their completion callbacks: a     *)
(* stalled CHAT is told to continue at most once, a task is done only by   *)
(* evidence, and what is acknowledged is recorded.                         *)
(*                                                                         *)
(* Every action changes a document by a few changes of its parts.  The     *)
(* changes are proved first, then the transformations that the actions     *)
(* make of them, then the shapes of a request (begin, save, end), then the *)
(* actions, one lemma for each group of them.                              *)
(***************************************************************************)
EXTENDS CloudCompletion, TLAPS

(***************************************************************************)
(* The documents.  A document lives as the stored one and as the copies    *)
(* that requests hold of it; a copy that is out of date is never stored,   *)
(* so that what holds of every document that is stored is looked for in    *)
(* the copies that are current.                                            *)
(***************************************************************************)
\* What the task t has of a CHAT that it was given.
Fresh(d, t) == d.task[t].chat # "reuse" \/ ~d.task[t].delivered

\* The CHATs that nobody can have looked at yet: of generations to come, and
\* the one the task is still to be delivered to.
NotYet(d) == {k \in Keys : \/ k[2] > d.task[k[1]].gen
                           \/ k[2] = d.task[k[1]].gen /\ k[3] = "reuse" /\ Fresh(d, k[1])}
Untouched(c) == ~c.stalled /\ c.attempts = 0

Proven(d, t) == Evidence(d, t) \/ d.decision[t] = "consumed"

DocTrue(d) ==
    /\ d \in Docs
    /\ \A t \in CTasks : d.task[t].status = "done" => Proven(d, t)
    /\ \A t \in CTasks : d.task[t].status = "none" => d.task[t].gen = 1
    /\ \A t \in CTasks : d.task[t].status \in {"none", "queued"} => d.task[t].chat = "none"
    /\ \A k \in NotYet(d) : Untouched(d.chat[k])
    /\ \A k \in Keys : d.chat[k].status = "none" => Untouched(d.chat[k])
    /\ \A n \in CTasks \X Gens : d.notice[n].status # "pending"

\* A prompt is on record as the attempt of its CHAT.
Tried(d, sent) == \A k \in Keys : d.chat[k].attempts = 0 => sent[k] = 0

CloudRequests == [step : Steps, task : CTasks \cup {"none"}, chat : Kinds \cup {"none"},
             gen : Gens, doc : Docs, current : BOOLEAN]

\* The CHAT of a request, in its copy.
Copied(r) == r.task \in CTasks /\ r.gen = r.doc.task[r.task].gen /\ r.chat = r.doc.task[r.task].chat
WorksOn(r) ==
    /\ r.step \in {"create", "activate", "activate_new", "register", "send", "recover", "continue",
                   "rotate", "delete"} => Copied(r)
    /\ r.step \in {"activate", "activate_new", "register", "send", "recover", "continue", "rotate",
                   "delete"} => r.chat \in Kinds
    /\ r.step \in {"register", "send"} => r.chat = "reuse" /\ ~r.doc.task[r.task].delivered
    /\ r.step = "recover" => HasChat(r.doc, r.task)
    /\ r.step = "recover" /\ r.chat = "reuse" => r.doc.task[r.task].delivered
    /\ r.step = "rotate" => r.gen < MaxGen /\ r.doc.gen < MaxGen

\* A request that creates a CHAT names its task, whatever became of its copy.
Aimed(r) == r.step = "create" => r.task \in CTasks

CopyTrue(r) ==
    /\ Aimed(r)
    /\ r.current => /\ DocTrue(r.doc) /\ Tried(r.doc, prompts)
                    /\ r.doc.notice = doc.notice
                    /\ WorksOn(r)

CloudInv ==
    /\ DocTrue(doc) /\ Tried(doc, prompts)
    /\ prompts \in [Keys -> 0..1]
    /\ creq \in [Callers -> CloudRequests]
    /\ \A p \in Callers : CopyTrue(creq[p])

\* What a document is made of, one part at a time.
PutTask(d, t, x) == [d EXCEPT !.task[t] = x]
PutChat(d, k, c) == [d EXCEPT !.chat[k] = c]
PutChats(d, cs) == [d EXCEPT !.chat = cs]
PutTurn(d, n, v) == [d EXCEPT !.turn[n] = v]
PutNotice(d, n, v) == [d EXCEPT !.notice[n] = v]
PutDecision(d, t, v) == [d EXCEPT !.decision[t] = v]
PutStatus(d, s) == [d EXCEPT !.status = s]
PutLease(d, b) == [d EXCEPT !.lease = b]
PutGoal(d, g) == [d EXCEPT !.goal = g]
PutGen(d, g) == [d EXCEPT !.gen = g]
PutCreates(d, n) == [d EXCEPT !.creates = n]

\* The parts that hold evidence.
SameEvents(d, e) == e.turn = d.turn /\ e.notice = d.notice /\ e.decision = d.decision

\* The parts of a document.
LEMMA DocParts ==
    ASSUME NEW d \in Docs
    PROVE  /\ d.task \in [CTasks -> TaskRecords] /\ d.chat \in [Keys -> ChatRecords]
           /\ d.turn \in [CTasks \X Gens -> EventRecords]
           /\ d.notice \in [CTasks \X Gens -> EventRecords]
           /\ d.decision \in [CTasks -> {"none", "requested", "approved", "consumed"}]
           /\ d.gen \in Gens /\ d.creates \in 0..MaxCreates /\ d.lease \in BOOLEAN
           /\ d.status \in {"active", "closing", "completed"} /\ d.goal \in {"open", "closed"}
  BY DEF Docs

\* The record of a task, and of a CHAT.
LEMMA TaskParts ==
    ASSUME NEW x \in TaskRecords
    PROVE  /\ x.status \in {"none", "queued", "creating", "create_in_doubt", "active",
                            "result_available", "done", "blocked", "dropped"}
           /\ x.gen \in Gens /\ x.gen \in Nat /\ x.chat \in Kinds \cup {"none"}
           /\ x.target \in BOOLEAN /\ x.delivered \in BOOLEAN
  BY CloudAssumption DEF TaskRecords, Gens

\* An empty document.
LEMMA EmptyDoc == Empty \in Docs /\ DocTrue(Empty) /\ NoTask \in TaskRecords /\ NoChat \in ChatRecords
                  /\ NoEvent \in EventRecords /\ Untouched(NoChat)
  <1>1. 1 \in Gens /\ 0 \in 0..MaxCreates
    BY CloudAssumption DEF Gens
  <1>2. NoTask \in TaskRecords /\ NoTask.status = "none" /\ NoTask.gen = 1 /\ NoTask.chat = "none"
    BY <1>1 DEF NoTask, TaskRecords
  <1>3. NoChat \in ChatRecords /\ Untouched(NoChat)
    BY DEF NoChat, ChatRecords, Callbacks, Untouched
  <1>4. NoEvent \in EventRecords
    BY DEF NoEvent, EventRecords
  <1>5. Empty \in Docs
    BY <1>1, <1>2, <1>3, <1>4 DEF Empty, Docs
  <1>6. /\ \A t \in CTasks : Empty.task[t] = NoTask
        /\ \A k \in Keys : Empty.chat[k] = NoChat
        /\ \A n \in CTasks \X Gens : Empty.notice[n].status # "pending"
    BY DEF Empty, NoEvent
  <1> QED
    BY <1>2, <1>3, <1>4, <1>5, <1>6 DEF DocTrue, NotYet

\* A task of a document changes.
LEMMA PutTaskTrue ==
    ASSUME NEW d, DocTrue(d), NEW t \in CTasks, NEW x \in TaskRecords,
           x.status = "done" => Proven(d, t),
           x.status = "none" => x.gen = 1,
           x.status \in {"none", "queued"} => x.chat = "none",
           \/ x.gen > d.task[t].gen
           \/ x.gen = d.task[t].gen /\ (x.chat # "reuse" \/ ~x.delivered => Fresh(d, t))
    PROVE  LET e == PutTask(d, t, x)
           IN  /\ DocTrue(e) /\ SameEvents(d, e) /\ e.chat = d.chat /\ e.gen = d.gen
               /\ e.task[t] = x /\ \A u \in CTasks : u # t => e.task[u] = d.task[u]
  <1> DEFINE e == PutTask(d, t, x)
  <1>1. d \in Docs
    BY DEF DocTrue
  <1>2. /\ e \in Docs /\ SameEvents(d, e) /\ e.chat = d.chat /\ e.gen = d.gen
        /\ e.task[t] = x /\ \A u \in CTasks : u # t => e.task[u] = d.task[u]
    BY <1>1 DEF Docs, SameEvents, PutTask
  <1> HIDE DEF e
  <1>3. \A u \in CTasks : Proven(d, u) <=> Proven(e, u)
    BY <1>2 DEF Proven, Evidence, SameEvents
  <1>4. \A u \in CTasks : e.task[u].status = "done" => Proven(e, u)
    BY <1>2, <1>3 DEF DocTrue
  <1>5. /\ \A u \in CTasks : e.task[u].status = "none" => e.task[u].gen = 1
        /\ \A u \in CTasks : e.task[u].status \in {"none", "queued"} => e.task[u].chat = "none"
        /\ \A n \in CTasks \X Gens : e.notice[n].status # "pending"
    BY <1>2 DEF DocTrue, SameEvents
  <1>6. ASSUME NEW k \in NotYet(e) PROVE k \in NotYet(d)
    <2>1. k \in Keys /\ k[1] \in CTasks /\ k[2] \in Nat
      BY DEF NotYet, Keys, Gens
    <2>2. d.task[t].gen \in Nat /\ x.gen \in Nat
      BY <1>1, DocParts, TaskParts
    <2>3. CASE k[1] = t
      BY <1>2, <2>1, <2>2, <2>3 DEF NotYet, Fresh
    <2>4. CASE k[1] # t
      BY <1>2, <2>1, <2>4 DEF NotYet, Fresh
    <2> QED
      BY <2>3, <2>4
  <1>7. DocTrue(e)
    BY <1>2, <1>4, <1>5, <1>6 DEF DocTrue
  <1> QED
    BY <1>2, <1>7 DEF e

\* The CHATs of a document change, but for those that nobody has looked at.
LEMMA PutChatsTrue ==
    ASSUME NEW d, DocTrue(d), NEW cs \in [Keys -> ChatRecords],
           \A k \in NotYet(d) : Untouched(d.chat[k]) => Untouched(cs[k]),
           \A k \in Keys : cs[k].status = "none" => Untouched(cs[k])
    PROVE  LET e == PutChats(d, cs)
           IN  DocTrue(e) /\ SameEvents(d, e) /\ e.chat = cs /\ e.gen = d.gen /\ e.task = d.task
  <1> DEFINE e == PutChats(d, cs)
  <1>1. d \in Docs
    BY DEF DocTrue
  <1>2. e \in Docs /\ SameEvents(d, e) /\ e.chat = cs /\ e.gen = d.gen /\ e.task = d.task
    BY <1>1 DEF Docs, SameEvents, PutChats
  <1> HIDE DEF e
  <1>3. \A u \in CTasks : Proven(d, u) <=> Proven(e, u)
    BY <1>2 DEF Proven, Evidence, SameEvents
  <1>4. NotYet(e) = NotYet(d)
    BY <1>2 DEF NotYet, Fresh
  <1>5. DocTrue(e)
    BY <1>2, <1>3, <1>4 DEF DocTrue, SameEvents
  <1> QED
    BY <1>2, <1>5 DEF e

\* One CHAT changes.
LEMMA PutChatTrue ==
    ASSUME NEW d, DocTrue(d), NEW k \in Keys, NEW c \in ChatRecords,
           k \in NotYet(d) \/ c.status = "none" => Untouched(c)
    PROVE  LET e == PutChat(d, k, c)
           IN  /\ DocTrue(e) /\ SameEvents(d, e) /\ e.gen = d.gen /\ e.task = d.task
               /\ e.chat[k] = c /\ \A o \in Keys : o # k => e.chat[o] = d.chat[o]
  <1> DEFINE cs == [d.chat EXCEPT ![k] = c]
  <1>1. d \in Docs
    BY DEF DocTrue
  <1>2. /\ cs \in [Keys -> ChatRecords] /\ cs[k] = c
        /\ \A o \in Keys : o # k => cs[o] = d.chat[o]
    BY <1>1, DocParts
  <1>3. PutChat(d, k, c) = PutChats(d, cs)
    BY DEF PutChat, PutChats
  <1>4. /\ \A o \in NotYet(d) : Untouched(d.chat[o]) => Untouched(cs[o])
        /\ \A o \in Keys : cs[o].status = "none" => Untouched(cs[o])
    BY <1>2 DEF NotYet, DocTrue
  <1> HIDE DEF cs
  <1> QED
    BY <1>2, <1>3, <1>4, PutChatsTrue

\* An event that is evidence.
Ready(v) == v.status = "acked" /\ v.result = "ready"

\* Evidence, by the events.
LEMMA EvidenceIs ==
    ASSUME NEW d, NEW t \in CTasks
    PROVE  Evidence(d, t) <=> \E g \in Gens : Ready(d.turn[<<t, g>>]) \/ Ready(d.notice[<<t, g>>])
  BY Zenon DEF Evidence, Ready

\* A document with other events, none of them less than it was.
LEMMA ProvenStays ==
    ASSUME NEW d, NEW e, DocTrue(d), e \in Docs, e.task = d.task, e.chat = d.chat,
           \A n \in CTasks \X Gens : Ready(d.turn[n]) => Ready(e.turn[n]),
           \A n \in CTasks \X Gens : Ready(d.notice[n]) => Ready(e.notice[n]),
           \A t \in CTasks : d.decision[t] = "consumed" => e.decision[t] = "consumed",
           \A n \in CTasks \X Gens : e.notice[n].status # "pending"
    PROVE  DocTrue(e) /\ \A t \in CTasks : Proven(d, t) => Proven(e, t)
  <1>1. ASSUME NEW t \in CTasks, Proven(d, t) PROVE Proven(e, t)
    <2>1. CASE Evidence(d, t)
      <3>1. PICK g \in Gens : Ready(d.turn[<<t, g>>]) \/ Ready(d.notice[<<t, g>>])
        BY <2>1, EvidenceIs
      <3>2. <<t, g>> \in CTasks \X Gens
        OBVIOUS
      <3>3. Ready(e.turn[<<t, g>>]) \/ Ready(e.notice[<<t, g>>])
        BY <3>1, <3>2
      <3> QED
        BY <3>3, EvidenceIs DEF Proven
    <2>2. CASE d.decision[t] = "consumed"
      BY <2>2 DEF Proven
    <2> QED
      BY <1>1, <2>1, <2>2 DEF Proven
  <1>2. NotYet(e) = NotYet(d)
    BY DEF NotYet, Fresh
  <1> QED
    BY <1>1, <1>2 DEF DocTrue

\* A Provider turn is recorded.
LEMMA PutTurnTrue ==
    ASSUME NEW d, DocTrue(d), NEW n \in CTasks \X Gens, NEW v \in EventRecords,
           Ready(d.turn[n]) => Ready(v)
    PROVE  LET e == PutTurn(d, n, v)
           IN  /\ DocTrue(e) /\ e.notice = d.notice /\ e.task = d.task /\ e.chat = d.chat
               /\ e.gen = d.gen /\ e.turn[n] = v /\ e.decision = d.decision
  <1> DEFINE e == PutTurn(d, n, v)
  <1>1. d \in Docs
    BY DEF DocTrue
  <1>2. /\ e \in Docs /\ e.notice = d.notice /\ e.task = d.task /\ e.chat = d.chat
        /\ e.gen = d.gen /\ e.turn[n] = v /\ e.decision = d.decision
        /\ \A m \in CTasks \X Gens : m # n => e.turn[m] = d.turn[m]
    BY <1>1 DEF Docs, PutTurn
  <1> HIDE DEF e
  <1>3. \A m \in CTasks \X Gens : Ready(d.turn[m]) => Ready(e.turn[m])
    BY <1>2
  <1>4. DocTrue(e)
    BY <1>2, <1>3, ProvenStays DEF DocTrue
  <1> QED
    BY <1>2, <1>4 DEF e

\* A result is recorded.
LEMMA PutNoticeTrue ==
    ASSUME NEW d, DocTrue(d), NEW n \in CTasks \X Gens, NEW v \in EventRecords,
           Ready(d.notice[n]) => Ready(v), v.status # "pending"
    PROVE  LET e == PutNotice(d, n, v)
           IN  /\ DocTrue(e) /\ e.turn = d.turn /\ e.task = d.task /\ e.chat = d.chat
               /\ e.gen = d.gen /\ e.notice[n] = v /\ e.decision = d.decision
               /\ \A m \in CTasks \X Gens : m # n => e.notice[m] = d.notice[m]
  <1> DEFINE e == PutNotice(d, n, v)
  <1>1. d \in Docs
    BY DEF DocTrue
  <1>2. /\ e \in Docs /\ e.turn = d.turn /\ e.task = d.task /\ e.chat = d.chat
        /\ e.gen = d.gen /\ e.notice[n] = v /\ e.decision = d.decision
        /\ \A m \in CTasks \X Gens : m # n => e.notice[m] = d.notice[m]
    BY <1>1 DEF Docs, PutNotice
  <1> HIDE DEF e
  <1>3. \A m \in CTasks \X Gens : Ready(d.notice[m]) => Ready(e.notice[m])
    BY <1>2
  <1>4. DocTrue(e)
    BY <1>2, <1>3, ProvenStays DEF DocTrue
  <1> QED
    BY <1>2, <1>4 DEF e

\* A decision that is not consumed is taken.
LEMMA PutDecisionTrue ==
    ASSUME NEW d, DocTrue(d), NEW t \in CTasks, NEW v \in {"none", "requested", "approved", "consumed"},
           d.decision[t] = "consumed" => v = "consumed"
    PROVE  LET e == PutDecision(d, t, v)
           IN  /\ DocTrue(e) /\ e.notice = d.notice /\ e.turn = d.turn /\ e.task = d.task
               /\ e.chat = d.chat /\ e.gen = d.gen /\ e.decision[t] = v
  <1> DEFINE e == PutDecision(d, t, v)
  <1>1. d \in Docs
    BY DEF DocTrue
  <1>2. /\ e \in Docs /\ e.notice = d.notice /\ e.turn = d.turn /\ e.task = d.task /\ e.chat = d.chat
        /\ e.gen = d.gen /\ e.decision[t] = v
        /\ \A u \in CTasks : u # t => e.decision[u] = d.decision[u]
    BY <1>1 DEF Docs, PutDecision
  <1> HIDE DEF e
  <1>3. DocTrue(e)
    BY <1>2, ProvenStays DEF DocTrue
  <1> QED
    BY <1>2, <1>3 DEF e

\* What no property looks at changes.
Aside(d, e) == DocTrue(e) /\ SameEvents(d, e) /\ e.task = d.task /\ e.chat = d.chat

\* Such a change keeps the document true.
LEMMA AsideTrue ==
    ASSUME NEW d, DocTrue(d), NEW e \in Docs, SameEvents(d, e), e.task = d.task, e.chat = d.chat
    PROVE  Aside(d, e)
  BY ProvenStays DEF Aside, SameEvents, DocTrue

\* The status, the lease, the goal, the generation and the count of a document.
LEMMA PutAside ==
    ASSUME NEW d, DocTrue(d)
    PROVE  /\ \A s \in {"active", "closing", "completed"} : Aside(d, PutStatus(d, s)) /\ PutStatus(d, s).gen = d.gen
           /\ \A b \in BOOLEAN : Aside(d, PutLease(d, b)) /\ PutLease(d, b).gen = d.gen
           /\ \A g \in {"open", "closed"} : Aside(d, PutGoal(d, g)) /\ PutGoal(d, g).gen = d.gen
           /\ \A g \in Gens : Aside(d, PutGen(d, g))
           /\ \A n \in 0..MaxCreates : Aside(d, PutCreates(d, n)) /\ PutCreates(d, n).gen = d.gen
  <1>1. d \in Docs
    BY DEF DocTrue
  <1>2. ASSUME NEW s \in {"active", "closing", "completed"}
        PROVE  Aside(d, PutStatus(d, s)) /\ PutStatus(d, s).gen = d.gen
    <2> DEFINE e == PutStatus(d, s)
    <2>1. e \in Docs /\ SameEvents(d, e) /\ e.task = d.task /\ e.chat = d.chat /\ e.gen = d.gen
      BY <1>1 DEF Docs, SameEvents, PutStatus
    <2> HIDE DEF e
    <2>2. Aside(d, e) /\ e.gen = d.gen
      BY <2>1, AsideTrue
    <2> QED
      BY <2>2 DEF e
  <1>3. ASSUME NEW b \in BOOLEAN
        PROVE  Aside(d, PutLease(d, b)) /\ PutLease(d, b).gen = d.gen
    <2> DEFINE e == PutLease(d, b)
    <2>1. e \in Docs /\ SameEvents(d, e) /\ e.task = d.task /\ e.chat = d.chat /\ e.gen = d.gen
      BY <1>1 DEF Docs, SameEvents, PutLease
    <2> HIDE DEF e
    <2>2. Aside(d, e) /\ e.gen = d.gen
      BY <2>1, AsideTrue
    <2> QED
      BY <2>2 DEF e
  <1>4. ASSUME NEW g \in {"open", "closed"}
        PROVE  Aside(d, PutGoal(d, g)) /\ PutGoal(d, g).gen = d.gen
    <2> DEFINE e == PutGoal(d, g)
    <2>1. e \in Docs /\ SameEvents(d, e) /\ e.task = d.task /\ e.chat = d.chat /\ e.gen = d.gen
      BY <1>1 DEF Docs, SameEvents, PutGoal
    <2> HIDE DEF e
    <2>2. Aside(d, e) /\ e.gen = d.gen
      BY <2>1, AsideTrue
    <2> QED
      BY <2>2 DEF e
  <1>5. ASSUME NEW g \in Gens PROVE Aside(d, PutGen(d, g))
    <2> DEFINE e == PutGen(d, g)
    <2>1. e \in Docs /\ SameEvents(d, e) /\ e.task = d.task /\ e.chat = d.chat
      BY <1>1 DEF Docs, SameEvents, PutGen
    <2> HIDE DEF e
    <2>2. Aside(d, e)
      BY <2>1, AsideTrue
    <2> QED
      BY <2>2 DEF e
  <1>6. ASSUME NEW n \in 0..MaxCreates
        PROVE  Aside(d, PutCreates(d, n)) /\ PutCreates(d, n).gen = d.gen
    <2> DEFINE e == PutCreates(d, n)
    <2>1. e \in Docs /\ SameEvents(d, e) /\ e.task = d.task /\ e.chat = d.chat /\ e.gen = d.gen
      BY <1>1 DEF Docs, SameEvents, PutCreates
    <2> HIDE DEF e
    <2>2. Aside(d, e) /\ e.gen = d.gen
      BY <2>1, AsideTrue
    <2> QED
      BY <2>2 DEF e
  <1> QED
    BY <1>2, <1>3, <1>4, <1>5, <1>6

\* A document that follows another one: it says no less, records the same
\* results, and forgets no attempt.
Kept(d, e) ==
    /\ DocTrue(e)
    /\ e.notice = d.notice
    /\ \A k \in Keys : e.chat[k].attempts = 0 => d.chat[k].attempts = 0

\* Changes follow one another.
LEMMA KeptOn ==
    ASSUME NEW d, NEW e, NEW f, Kept(d, e), Kept(e, f)
    PROVE  Kept(d, f)
  BY DEF Kept

\* Changes aside follow, whatever they are.
LEMMA AsideKept ==
    ASSUME NEW d, NEW e, Aside(d, e)
    PROVE  Kept(d, e)
  BY DEF Aside, Kept, SameEvents

\* The records of a task and of a CHAT with one part changed.
TaskAs(x, s) == [x EXCEPT !.status = s]
ChatAs(c, s) == [c EXCEPT !.status = s]
CallbackAs(c, got) == [c EXCEPT !.callback = got]

\* What they are.
LEMMA RecordsAs ==
    /\ \A x \in TaskRecords :
         \A s \in {"none", "queued", "creating", "create_in_doubt", "active", "result_available",
                   "done", "blocked", "dropped"} :
            /\ TaskAs(x, s) \in TaskRecords
            /\ TaskAs(x, s).status = s /\ TaskAs(x, s).gen = x.gen /\ TaskAs(x, s).chat = x.chat
            /\ TaskAs(x, s).delivered <=> x.delivered
    /\ \A c \in ChatRecords :
         \A s \in {"active", "completed", "failed", "released", "release_pending", "retiring",
                   "archived", "deleted"} :
            /\ ChatAs(c, s) \in ChatRecords
            /\ ChatAs(c, s).status # "none" /\ ChatAs(c, s).attempts = c.attempts
            /\ ChatAs(c, s).stalled <=> c.stalled
    /\ \A c \in ChatRecords : \A got \in Callbacks :
            /\ CallbackAs(c, got) \in ChatRecords
            /\ CallbackAs(c, got).status = c.status /\ CallbackAs(c, got).attempts = c.attempts
            /\ CallbackAs(c, got).stalled <=> c.stalled
  <1>1. ASSUME NEW x \in TaskRecords,
               NEW s \in {"none", "queued", "creating", "create_in_doubt", "active",
                          "result_available", "done", "blocked", "dropped"}
        PROVE  /\ TaskAs(x, s) \in TaskRecords
               /\ TaskAs(x, s).status = s /\ TaskAs(x, s).gen = x.gen /\ TaskAs(x, s).chat = x.chat
               /\ TaskAs(x, s).delivered <=> x.delivered
    BY DEF TaskAs, TaskRecords
  <1>2. ASSUME NEW c \in ChatRecords,
               NEW s \in {"active", "completed", "failed", "released", "release_pending", "retiring",
                          "archived", "deleted"}
        PROVE  /\ ChatAs(c, s) \in ChatRecords
               /\ ChatAs(c, s).status # "none" /\ ChatAs(c, s).attempts = c.attempts
               /\ ChatAs(c, s).stalled <=> c.stalled
    BY DEF ChatAs, ChatRecords
  <1>3. ASSUME NEW c \in ChatRecords, NEW got \in Callbacks
        PROVE  /\ CallbackAs(c, got) \in ChatRecords
               /\ CallbackAs(c, got).status = c.status /\ CallbackAs(c, got).attempts = c.attempts
               /\ CallbackAs(c, got).stalled <=> c.stalled
    BY DEF CallbackAs, ChatRecords
  <1> QED
    BY <1>1, <1>2, <1>3

\* The CHAT of a task is a CHAT.
LEMMA ChatOfTask ==
    ASSUME NEW d \in Docs, NEW t \in CTasks
    PROVE  /\ d.task[t] \in TaskRecords
           /\ d.task[t].chat \in Kinds => ChatOf(d, t) \in Keys
           /\ HasChat(d, t) => d.task[t].chat \in Kinds /\ ChatOf(d, t) \in Keys
                               /\ d.chat[ChatOf(d, t)].status # "none"
           /\ \A k \in Keys : d.chat[k] \in ChatRecords
  <1>1. d.task[t] \in TaskRecords /\ \A k \in Keys : d.chat[k] \in ChatRecords
    BY DocParts
  <1>2. d.task[t].gen \in Gens /\ d.task[t].chat \in Kinds \cup {"none"}
    BY <1>1, TaskParts
  <1> QED
    BY <1>1, <1>2 DEF ChatOf, HasChat, Keys

\* A task changes its status.
LEMMA StatusKept ==
    ASSUME NEW d, DocTrue(d), NEW t \in CTasks,
           NEW s \in {"queued", "creating", "create_in_doubt", "active", "result_available", "done",
                      "blocked", "dropped"},
           s = "done" => Proven(d, t),
           s = "queued" => d.task[t].chat = "none"
    PROVE  LET e == [d EXCEPT !.task[t].status = s]
           IN  Kept(d, e) /\ SameEvents(d, e) /\ e.chat = d.chat /\ e.gen = d.gen
               /\ e.task[t] = TaskAs(d.task[t], s)
  <1> DEFINE x == TaskAs(d.task[t], s)
  <1>1. [d EXCEPT !.task[t].status = s] = PutTask(d, t, x)
    BY DEF PutTask, TaskAs
  <1>2. d \in Docs /\ d.task[t] \in TaskRecords
    BY ChatOfTask DEF DocTrue
  <1>3. /\ x \in TaskRecords /\ x.status = s /\ x.gen = d.task[t].gen /\ x.chat = d.task[t].chat
        /\ x.delivered <=> d.task[t].delivered
    BY <1>2, RecordsAs
  <1>4. x.chat # "reuse" \/ ~x.delivered => Fresh(d, t)
    BY <1>3 DEF Fresh
  <1> HIDE DEF x
  <1>5. LET e == PutTask(d, t, x)
        IN  /\ DocTrue(e) /\ SameEvents(d, e) /\ e.chat = d.chat /\ e.gen = d.gen
            /\ e.task[t] = x /\ \A u \in CTasks : u # t => e.task[u] = d.task[u]
    BY <1>3, <1>4, PutTaskTrue
  <1> QED
    BY <1>1, <1>5 DEF Kept, SameEvents, x

\* A CHAT changes, but for what nobody has looked at and for its attempts.
LEMMA ChatKept ==
    ASSUME NEW d, DocTrue(d), NEW k \in Keys, NEW c \in ChatRecords,
           c.status = "none" => d.chat[k].status = "none",
           c.attempts = d.chat[k].attempts, c.stalled <=> d.chat[k].stalled
    PROVE  LET e == PutChat(d, k, c)
           IN  Kept(d, e) /\ SameEvents(d, e) /\ e.gen = d.gen /\ e.task = d.task
               /\ e.chat[k] = c /\ \A o \in Keys : o # k => e.chat[o] = d.chat[o]
  <1>1. k \in NotYet(d) \/ c.status = "none" => Untouched(c)
    BY DEF DocTrue, Untouched
  <1>2. LET e == PutChat(d, k, c)
        IN  /\ DocTrue(e) /\ SameEvents(d, e) /\ e.gen = d.gen /\ e.task = d.task
            /\ e.chat[k] = c /\ \A o \in Keys : o # k => e.chat[o] = d.chat[o]
    BY <1>1, PutChatTrue
  <1> QED
    BY <1>2 DEF Kept, SameEvents

\* The route of a CHAT changes.
LEMMA CallbackKept ==
    ASSUME NEW d, DocTrue(d), NEW k \in Keys, NEW got \in Callbacks
    PROVE  LET e == [d EXCEPT !.chat[k].callback = got]
           IN  Kept(d, e) /\ SameEvents(d, e) /\ e.gen = d.gen /\ e.task = d.task
               /\ e.chat[k] = CallbackAs(d.chat[k], got)
               /\ \A o \in Keys : o # k => e.chat[o] = d.chat[o]
  <1> DEFINE c == CallbackAs(d.chat[k], got)
  <1>1. [d EXCEPT !.chat[k].callback = got] = PutChat(d, k, c)
    BY DEF PutChat, CallbackAs
  <1>2. d.chat[k] \in ChatRecords
    BY DocParts DEF DocTrue
  <1>3. /\ c \in ChatRecords /\ c.status = d.chat[k].status /\ c.attempts = d.chat[k].attempts
        /\ c.stalled <=> d.chat[k].stalled
    BY <1>2, RecordsAs
  <1> HIDE DEF c
  <1>4. LET e == PutChat(d, k, c)
        IN  Kept(d, e) /\ SameEvents(d, e) /\ e.gen = d.gen /\ e.task = d.task
            /\ e.chat[k] = c /\ \A o \in Keys : o # k => e.chat[o] = d.chat[o]
    BY <1>3, ChatKept
  <1> QED
    BY <1>1, <1>4 DEF c

\* A CHAT changes its status.
LEMMA ChatStatusKept ==
    ASSUME NEW d, DocTrue(d), NEW k \in Keys,
           NEW s \in {"active", "completed", "failed", "released", "release_pending", "retiring",
                      "archived", "deleted"}
    PROVE  LET e == [d EXCEPT !.chat[k].status = s]
           IN  Kept(d, e) /\ SameEvents(d, e) /\ e.gen = d.gen /\ e.task = d.task
               /\ e.chat[k] = ChatAs(d.chat[k], s)
               /\ \A o \in Keys : o # k => e.chat[o] = d.chat[o]
  <1> DEFINE c == ChatAs(d.chat[k], s)
  <1>1. [d EXCEPT !.chat[k].status = s] = PutChat(d, k, c)
    BY DEF PutChat, ChatAs
  <1>2. d.chat[k] \in ChatRecords
    BY DocParts DEF DocTrue
  <1>3. /\ c \in ChatRecords /\ c.status # "none" /\ c.attempts = d.chat[k].attempts
        /\ c.stalled <=> d.chat[k].stalled
    BY <1>2, RecordsAs
  <1> HIDE DEF c
  <1>4. LET e == PutChat(d, k, c)
        IN  Kept(d, e) /\ SameEvents(d, e) /\ e.gen = d.gen /\ e.task = d.task
            /\ e.chat[k] = c /\ \A o \in Keys : o # k => e.chat[o] = d.chat[o]
    BY <1>3, ChatKept
  <1> QED
    BY <1>1, <1>4 DEF c

\* The edits.

\* A task is added.
LEMMA WithTaskKept ==
    ASSUME NEW d, DocTrue(d), NEW t \in CTasks, d.task[t].status = "none", NEW target \in BOOLEAN
    PROVE  Kept(d, WithTask(d, t, target))
  <1> DEFINE x == [NoTask EXCEPT !.status = "queued", !.gen = d.gen, !.target = target]
  <1>1. WithTask(d, t, target) = PutTask(d, t, x)
    BY DEF PutTask, WithTask
  <1>2. d.gen \in Gens /\ d.gen \in Nat /\ d.gen >= 1
    BY DocParts DEF DocTrue, Gens
  <1>3. /\ x \in TaskRecords /\ x.status = "queued" /\ x.gen = d.gen /\ x.chat = "none"
    BY <1>2 DEF TaskRecords, NoTask
  <1>4. d.task[t].gen = 1 /\ Fresh(d, t)
    BY DEF DocTrue, Fresh
  <1> HIDE DEF x
  <1>5. d.gen > 1 \/ d.gen = 1
    BY <1>2
  <1>6. LET e == PutTask(d, t, x) IN DocTrue(e) /\ SameEvents(d, e) /\ e.chat = d.chat
    BY <1>3, <1>4, <1>5, PutTaskTrue
  <1> QED
    BY <1>1, <1>6 DEF Kept, SameEvents

\* The record of a turn that is ingested.
LEMMA PendingEvent ==
    \A r \in Results : [NoEvent EXCEPT !.status = "pending", !.result = r] \in EventRecords
  <1>1. NoEvent \in EventRecords
    BY EmptyDoc
  <1>2. ASSUME NEW v \in EventRecords, NEW r \in Results
        PROVE  [v EXCEPT !.status = "pending", !.result = r] \in EventRecords
    <2>1. [v EXCEPT !.status = "pending"] \in EventRecords
      BY DEF EventRecords
    <2>2. \A w \in EventRecords : [w EXCEPT !.result = r] \in EventRecords
      BY DEF EventRecords
    <2>3. [v EXCEPT !.status = "pending", !.result = r]
            = [[v EXCEPT !.status = "pending"] EXCEPT !.result = r]
      OBVIOUS
    <2> QED
      BY <2>1, <2>2, <2>3
  <1> QED
    BY <1>1, <1>2

\* A Provider turn is ingested.
LEMMA IngestKept ==
    ASSUME NEW d, DocTrue(d), NEW t \in CTasks, NEW r \in Results,
           NEW n \in CTasks \X Gens, d.turn[n].status = "none",
           d.task[t].status # "none", d.task[t].chat # "none"
    PROVE  Kept(d, [d EXCEPT !.turn[n] = [NoEvent EXCEPT !.status = "pending", !.result = r],
                             !.task[t].status = IF r = "ready" THEN "result_available" ELSE @])
  <1> DEFINE v == [NoEvent EXCEPT !.status = "pending", !.result = r]
             x == IF r = "ready" THEN TaskAs(d.task[t], "result_available")
                                 ELSE TaskAs(d.task[t], d.task[t].status)
             e == PutTurn(d, n, v)
  <1>1. v \in EventRecords
    BY PendingEvent
  <1>2. d \in Docs /\ d.task[t] \in TaskRecords
    BY ChatOfTask DEF DocTrue
  <1>3. ~Ready(d.turn[n])
    BY DEF Ready
  <1>4. [d EXCEPT !.turn[n] = v,
                  !.task[t].status = IF r = "ready" THEN "result_available" ELSE @] = PutTask(e, t, x)
    BY DEF PutTask, PutTurn, TaskAs
  <1>5. /\ DocTrue(e) /\ e.notice = d.notice /\ e.task = d.task /\ e.chat = d.chat
    BY <1>1, <1>3, PutTurnTrue
  <1>6. Kept(d, e)
    BY <1>5 DEF Kept
  <1>7. /\ x \in TaskRecords /\ x.gen = d.task[t].gen /\ x.chat = d.task[t].chat
        /\ x.delivered <=> d.task[t].delivered
        /\ x.status = "result_available" \/ x.status = d.task[t].status
    BY <1>2, TaskParts, RecordsAs
  <1> HIDE DEF v, x, e
  <1>8. d.task[t].status = "done" => Proven(e, t)
    BY <1>5 DEF DocTrue
  <1>9. /\ x.status = "done" => Proven(e, t)
        /\ x.status # "none" /\ x.status # "queued"
    BY <1>7, <1>8 DEF DocTrue
  <1>10. x.gen = e.task[t].gen /\ (x.chat # "reuse" \/ ~x.delivered => Fresh(e, t))
    BY <1>5, <1>7 DEF Fresh
  <1>11. LET f == PutTask(e, t, x) IN DocTrue(f) /\ SameEvents(e, f) /\ f.chat = e.chat
    BY <1>5, <1>7, <1>9, <1>10, PutTaskTrue
  <1>12. Kept(e, PutTask(e, t, x))
    BY <1>11 DEF Kept, SameEvents
  <1> QED
    BY <1>4, <1>6, <1>12, KeptOn DEF v

\* A task, its CHAT and the goal take a result.
LEMMA AdvancedKept ==
    ASSUME NEW d, DocTrue(d), NEW t \in CTasks, NEW r, r = "ready" => Proven(d, t)
    PROVE  Kept(d, Advanced(d, t, r)) /\ SameEvents(d, Advanced(d, t, r))
  <1> DEFINE s == IF r = "ready" THEN "done" ELSE "blocked"
             h == IF r = "ready" THEN "completed" ELSE "failed"
             e == [d EXCEPT !.task[t].status = s]
             f == IF HasChat(d, t) THEN [e EXCEPT !.chat[ChatOf(d, t)].status = h] ELSE e
  <1>1. Kept(d, e) /\ SameEvents(d, e)
    <2> HIDE DEF e
    <2>1. s \in {"done", "blocked"} /\ (s = "done" => Proven(d, t))
      OBVIOUS
    <2> HIDE DEF s
    <2> QED
      BY <2>1, StatusKept DEF e
  <1>2. DocTrue(e)
    BY <1>1 DEF Kept
  <1>3. d \in Docs
    BY DEF DocTrue
  <1> HIDE DEF e
  <1>4. ASSUME HasChat(d, t)
        PROVE  LET g == [e EXCEPT !.chat[ChatOf(d, t)].status = h] IN Kept(e, g) /\ SameEvents(e, g)
    <2>1. ChatOf(d, t) \in Keys
      BY <1>3, <1>4, ChatOfTask
    <2>2. h \in {"completed", "failed"}
      OBVIOUS
    <2> HIDE DEF h
    <2> QED
      BY <1>2, <2>1, <2>2, ChatStatusKept
  <1>5. Kept(d, f) /\ SameEvents(d, f)
    <2>1. CASE HasChat(d, t)
      <3> DEFINE g == [e EXCEPT !.chat[ChatOf(d, t)].status = h]
      <3>1. Kept(e, g) /\ SameEvents(e, g)
        BY <1>4, <2>1
      <3> HIDE DEF g
      <3>2. Kept(d, g) /\ SameEvents(d, g)
        BY <1>1, <3>1, KeptOn DEF SameEvents
      <3> QED
        BY <2>1, <3>2 DEF g
    <2>2. CASE ~HasChat(d, t)
      BY <1>1, <2>2
    <2> QED
      BY <2>1, <2>2
  <1>6. Advanced(d, t, r) = f \/ Advanced(d, t, r) = PutGoal(f, "closed")
    BY Zenon DEF Advanced, PutGoal, e
  <1> HIDE DEF f
  <1>7. Aside(f, PutGoal(f, "closed"))
    BY <1>5, PutAside DEF Kept
  <1>8. Kept(f, PutGoal(f, "closed")) /\ SameEvents(f, PutGoal(f, "closed"))
    BY <1>7, AsideKept DEF Aside
  <1>9. Kept(d, PutGoal(f, "closed")) /\ SameEvents(d, PutGoal(f, "closed"))
    BY <1>5, <1>8, KeptOn DEF SameEvents
  <1> QED
    BY <1>5, <1>6, <1>9

\* An event is acknowledged.
LEMMA AckedTurnKept ==
    ASSUME NEW d, DocTrue(d), NEW n \in CTasks \X Gens, d.turn[n].status # "none",
           NEW t \in CTasks, n[1] = t
    PROVE  Kept(d, Advanced([d EXCEPT !.turn[n].status = "acked"], t, d.turn[n].result))
  <1> DEFINE v == [d.turn[n] EXCEPT !.status = "acked"]
             e == PutTurn(d, n, v)
             r == d.turn[n].result
  <1>1. d.turn[n] \in EventRecords
    BY DocParts DEF DocTrue
  <1>2. v \in EventRecords /\ v.status = "acked" /\ v.result = r
    BY <1>1 DEF EventRecords
  <1>3. [d EXCEPT !.turn[n].status = "acked"] = e
    BY DEF PutTurn
  <1>4. Ready(d.turn[n]) => Ready(v)
    BY <1>2 DEF Ready
  <1> HIDE DEF v
  <1>5. /\ DocTrue(e) /\ e.notice = d.notice /\ e.task = d.task /\ e.chat = d.chat
        /\ e.turn[n] = v
    BY <1>2, <1>4, PutTurnTrue
  <1>6. Kept(d, e)
    BY <1>5 DEF Kept
  <1> HIDE DEF e
  <1>7. r = "ready" => Proven(e, t)
    <2>1. PICK g \in Gens : n = <<t, g>>
      OBVIOUS
    <2>2. r = "ready" => Ready(e.turn[<<t, g>>])
      BY <1>2, <1>5, <2>1 DEF Ready
    <2> QED
      BY <2>2, EvidenceIs DEF Proven
  <1> HIDE DEF r
  <1>8. Kept(e, Advanced(e, t, r))
    BY <1>5, <1>7, AdvancedKept
  <1> QED
    BY <1>3, <1>6, <1>8, KeptOn DEF r

\* A result that was acknowledged before advances its task again.
LEMMA AckedNoticeKept ==
    ASSUME NEW d, DocTrue(d), NEW n \in CTasks \X Gens, d.notice[n].status # "none",
           NEW t \in CTasks, n[1] = t
    PROVE  Kept(d, Advanced(d, t, d.notice[n].result))
  <1>1. d.notice[n] \in EventRecords /\ d.notice[n].status # "pending"
    BY DocParts DEF DocTrue
  <1>2. d.notice[n].status = "acked"
    BY <1>1 DEF EventRecords
  <1>3. d.notice[n].result = "ready" => Proven(d, t)
    <2>1. PICK g \in Gens : n = <<t, g>>
      OBVIOUS
    <2>2. d.notice[n].result = "ready" => Ready(d.notice[<<t, g>>])
      BY <1>2, <2>1 DEF Ready
    <2> QED
      BY <2>2, EvidenceIs DEF Proven
  <1> QED
    BY <1>3, AdvancedKept

\* A decision changes that is not consumed.
LEMMA DecisionKept ==
    ASSUME NEW d, DocTrue(d), NEW t \in CTasks, NEW v \in {"none", "requested", "approved", "consumed"},
           d.decision[t] = "consumed" => v = "consumed"
    PROVE  LET e == [d EXCEPT !.decision[t] = v]
           IN  Kept(d, e) /\ e.task = d.task /\ e.chat = d.chat /\ e.gen = d.gen /\ e.decision[t] = v
  <1>1. [d EXCEPT !.decision[t] = v] = PutDecision(d, t, v)
    BY DEF PutDecision
  <1>2. LET e == PutDecision(d, t, v)
        IN  /\ DocTrue(e) /\ e.notice = d.notice /\ e.turn = d.turn /\ e.task = d.task
            /\ e.chat = d.chat /\ e.gen = d.gen /\ e.decision[t] = v
    BY PutDecisionTrue
  <1> QED
    BY <1>1, <1>2 DEF Kept

\* The status, the lease and the goal change.
LEMMA PartsKept ==
    ASSUME NEW d, DocTrue(d)
    PROVE  /\ \A s \in {"active", "closing", "completed"} :
                Kept(d, [d EXCEPT !.status = s]) /\ [d EXCEPT !.status = s].task = d.task
           /\ \A b \in BOOLEAN : Kept(d, [d EXCEPT !.lease = b])
           /\ \A g \in {"open", "closed"} : Kept(d, [d EXCEPT !.goal = g])
  <1>1. ASSUME NEW s \in {"active", "closing", "completed"}
        PROVE  Kept(d, [d EXCEPT !.status = s]) /\ [d EXCEPT !.status = s].task = d.task
    <2>1. Aside(d, PutStatus(d, s))
      BY PutAside
    <2>2. Kept(d, PutStatus(d, s)) /\ PutStatus(d, s).task = d.task
      BY <2>1, AsideKept DEF Aside
    <2> QED
      BY <2>2 DEF PutStatus
  <1>2. ASSUME NEW b \in BOOLEAN PROVE Kept(d, [d EXCEPT !.lease = b])
    <2>1. Kept(d, PutLease(d, b))
      BY PutAside, AsideKept
    <2> QED
      BY <2>1 DEF PutLease
  <1>3. ASSUME NEW g \in {"open", "closed"} PROVE Kept(d, [d EXCEPT !.goal = g])
    <2>1. Kept(d, PutGoal(d, g))
      BY PutAside, AsideKept
    <2> QED
      BY <2>1 DEF PutGoal
  <1> QED
    BY <1>1, <1>2, <1>3

\* The dispatch.

\* The creation of a CHAT is counted and begun.
LEMMA CreatingKept ==
    ASSUME NEW d, DocTrue(d), NEW t \in CTasks
    PROVE  LET e == [d EXCEPT !.creates = IF @ < MaxCreates THEN @ + 1 ELSE @, !.task[t].status = "creating"]
           IN  Kept(d, e) /\ SameEvents(d, e) /\ e.task[t] = TaskAs(d.task[t], "creating")
  <1> DEFINE m == IF d.creates < MaxCreates THEN d.creates + 1 ELSE d.creates
             e == PutCreates(d, m)
  <1>1. d.creates \in 0..MaxCreates
    BY DocParts DEF DocTrue
  <1>2. m \in 0..MaxCreates
    BY <1>1, CloudAssumption
  <1>3. [d EXCEPT !.creates = IF @ < MaxCreates THEN @ + 1 ELSE @, !.task[t].status = "creating"]
          = [e EXCEPT !.task[t].status = "creating"]
    BY DEF PutCreates
  <1> HIDE DEF m
  <1>4. Aside(d, e)
    BY <1>2, PutAside
  <1> HIDE DEF e
  <1>5. DocTrue(e) /\ e.task = d.task /\ SameEvents(d, e) /\ Kept(d, e)
    BY <1>4, AsideKept DEF Aside
  <1>6. LET f == [e EXCEPT !.task[t].status = "creating"]
        IN  Kept(e, f) /\ SameEvents(e, f) /\ f.task[t] = TaskAs(e.task[t], "creating")
    BY <1>5, StatusKept
  <1>7. LET f == [e EXCEPT !.task[t].status = "creating"]
        IN  Kept(d, f) /\ SameEvents(d, f) /\ f.task[t] = TaskAs(d.task[t], "creating")
    BY <1>5, <1>6, KeptOn DEF SameEvents
  <1> QED
    BY <1>3, <1>7

\* The record of a task that is given a CHAT, and of that CHAT.
GivenReuse(x) == [x EXCEPT !.status = "active", !.chat = "reuse", !.target = TRUE, !.delivered = FALSE]
GivenNew(x) == [x EXCEPT !.status = "active", !.chat = "new", !.delivered = TRUE]
NewChat == [NoChat EXCEPT !.status = "active"]

\* What they are.
LEMMA GivenIs ==
    /\ \A x \in TaskRecords :
         /\ GivenReuse(x) \in TaskRecords /\ GivenReuse(x).status = "active"
         /\ GivenReuse(x).gen = x.gen /\ GivenReuse(x).chat = "reuse" /\ ~GivenReuse(x).delivered
         /\ GivenNew(x) \in TaskRecords /\ GivenNew(x).status = "active"
         /\ GivenNew(x).gen = x.gen /\ GivenNew(x).chat = "new"
    /\ NewChat \in ChatRecords /\ NewChat.status # "none" /\ Untouched(NewChat)
  <1>1. ASSUME NEW x \in TaskRecords
        PROVE  /\ GivenReuse(x) \in TaskRecords /\ GivenReuse(x).status = "active"
               /\ GivenReuse(x).gen = x.gen /\ GivenReuse(x).chat = "reuse" /\ ~GivenReuse(x).delivered
    BY DEF TaskRecords, GivenReuse, Kinds
  <1>2. ASSUME NEW x \in TaskRecords
        PROVE  /\ GivenNew(x) \in TaskRecords /\ GivenNew(x).status = "active"
               /\ GivenNew(x).gen = x.gen /\ GivenNew(x).chat = "new"
    BY DEF TaskRecords, GivenNew, Kinds
  <1>3. NewChat \in ChatRecords /\ NewChat.status # "none" /\ Untouched(NewChat)
    <2>1. NewChat = ChatAs(NoChat, "active")
      BY DEF NewChat, ChatAs
    <2>2. NoChat \in ChatRecords /\ Untouched(NoChat)
      BY EmptyDoc
    <2> QED
      BY <2>1, <2>2, RecordsAs DEF Untouched
  <1> QED
    BY <1>1, <1>2, <1>3

\* A task is given an existing CHAT.
LEMMA ExistingKept ==
    ASSUME NEW d, DocTrue(d), NEW t \in CTasks, d.task[t].status = "queued"
    PROVE  LET k == <<t, d.task[t].gen, "reuse">>
               e == [d EXCEPT !.task[t] = [@ EXCEPT !.status = "active", !.chat = "reuse", !.target = TRUE,
                                                    !.delivered = FALSE],
                              !.chat[k] = [NoChat EXCEPT !.status = "active"]]
           IN  Kept(d, e) /\ e.task[t] = GivenReuse(d.task[t])
  <1> DEFINE k == <<t, d.task[t].gen, "reuse">>
             x == GivenReuse(d.task[t])
             e == PutChat(d, k, NewChat)
  <1>1. [d EXCEPT !.task[t] = [@ EXCEPT !.status = "active", !.chat = "reuse", !.target = TRUE,
                                        !.delivered = FALSE],
                  !.chat[k] = [NoChat EXCEPT !.status = "active"]] = PutTask(e, t, x)
    BY DEF PutTask, PutChat, NewChat, GivenReuse
  <1>2. d \in Docs /\ d.task[t] \in TaskRecords
    BY ChatOfTask DEF DocTrue
  <1>3. d.task[t].gen \in Gens /\ d.task[t].chat = "none" /\ Fresh(d, t)
    BY <1>2, TaskParts DEF DocTrue, Fresh
  <1>4. k \in Keys /\ k \in NotYet(d)
    BY <1>3 DEF Keys, NotYet, Kinds
  <1> HIDE DEF k
  <1>5. NewChat \in ChatRecords /\ NewChat.status # "none" /\ Untouched(NewChat)
    BY GivenIs
  <1>6. /\ DocTrue(e) /\ SameEvents(d, e) /\ e.task = d.task
        /\ e.chat[k] = NewChat /\ \A o \in Keys : o # k => e.chat[o] = d.chat[o]
    BY <1>4, <1>5, PutChatTrue
  <1>7. Kept(d, e)
    BY <1>4, <1>6 DEF Kept, SameEvents, DocTrue, Untouched
  <1>8. /\ x \in TaskRecords /\ x.status = "active" /\ x.gen = e.task[t].gen /\ Fresh(e, t)
    BY <1>2, <1>3, <1>6, GivenIs DEF Fresh
  <1> HIDE DEF x, e
  <1>9. LET f == PutTask(e, t, x)
        IN  DocTrue(f) /\ SameEvents(e, f) /\ f.chat = e.chat /\ f.task[t] = x
    BY <1>6, <1>8, PutTaskTrue
  <1>10. LET f == PutTask(e, t, x) IN Kept(e, f) /\ f.task[t] = x
    BY <1>9 DEF Kept, SameEvents
  <1> QED
    BY <1>1, <1>7, <1>10, KeptOn DEF x, k

\* A task is given the CHAT that was created for it.
LEMMA PersistedKept ==
    ASSUME DocTrue(doc), NEW t \in CTasks, doc.task[t].chat \in {"none", "new"}
    PROVE  Kept(doc, Persisted(t)) /\ Persisted(t).task[t] = GivenNew(doc.task[t])
  <1> DEFINE k == <<t, doc.task[t].gen, "new">>
             x == GivenNew(doc.task[t])
             c == IF doc.chat[k].status = "none" THEN NewChat ELSE doc.chat[k]
             e == PutChat(doc, k, c)
  <1>1. Persisted(t) = PutTask(e, t, x)
    BY DEF PutTask, PutChat, NewChat, GivenNew, Persisted
  <1>2. doc \in Docs /\ doc.task[t] \in TaskRecords
    BY ChatOfTask DEF DocTrue
  <1>3. doc.task[t].gen \in Gens /\ doc.task[t].gen \in Nat /\ Fresh(doc, t)
    BY <1>2, TaskParts DEF Fresh
  <1>4. k \in Keys
    BY <1>3 DEF Keys, Kinds
  <1>5. k \notin NotYet(doc)
    BY <1>3 DEF NotYet
  <1> HIDE DEF k
  <1>6. doc.chat[k] \in ChatRecords
    BY <1>2, <1>4, ChatOfTask
  <1>7. /\ c \in ChatRecords /\ c.status # "none"
        /\ c.attempts = 0 => doc.chat[k].attempts = 0
    BY <1>4, <1>6, GivenIs DEF DocTrue, Untouched
  <1> HIDE DEF c
  <1>8. /\ DocTrue(e) /\ SameEvents(doc, e) /\ e.task = doc.task
        /\ e.chat[k] = c /\ \A o \in Keys : o # k => e.chat[o] = doc.chat[o]
    BY <1>4, <1>5, <1>7, PutChatTrue
  <1>9. Kept(doc, e)
    BY <1>4, <1>7, <1>8 DEF Kept, SameEvents
  <1>10. /\ x \in TaskRecords /\ x.status = "active" /\ x.gen = e.task[t].gen /\ Fresh(e, t)
    BY <1>2, <1>3, <1>8, GivenIs DEF Fresh
  <1> HIDE DEF x, e
  <1>11. LET f == PutTask(e, t, x)
         IN  DocTrue(f) /\ SameEvents(e, f) /\ f.chat = e.chat /\ f.task[t] = x
    BY <1>8, <1>10, PutTaskTrue
  <1>12. LET f == PutTask(e, t, x) IN Kept(e, f) /\ f.task[t] = x
    BY <1>11 DEF Kept, SameEvents
  <1> QED
    BY <1>1, <1>9, <1>12, KeptOn DEF x

\* The prompt of an existing CHAT was sent, or nobody knows.
LEMMA SentKept ==
    ASSUME NEW d, DocTrue(d), NEW t \in CTasks, NEW k \in Keys, ~d.task[t].delivered,
           NEW delivered \in BOOLEAN, NEW armed \in BOOLEAN
    PROVE  Kept(d, [d EXCEPT !.task[t].delivered = delivered,
                             !.chat[k].callback = IF armed THEN "armed" ELSE @])
  <1> DEFINE x == [d.task[t] EXCEPT !.delivered = delivered]
             got == IF armed THEN "armed" ELSE d.chat[k].callback
             e == PutTask(d, t, x)
  <1>1. [d EXCEPT !.task[t].delivered = delivered,
                  !.chat[k].callback = IF armed THEN "armed" ELSE @]
          = [e EXCEPT !.chat[k].callback = got]
    BY DEF PutTask
  <1>2. d \in Docs /\ d.task[t] \in TaskRecords /\ d.chat[k] \in ChatRecords
    BY ChatOfTask DEF DocTrue
  <1>3. /\ x \in TaskRecords /\ x.status = d.task[t].status /\ x.gen = d.task[t].gen
        /\ x.chat = d.task[t].chat
    BY <1>2 DEF TaskRecords
  <1>4. Fresh(d, t)
    BY DEF Fresh
  <1> HIDE DEF x
  <1>5. got \in Callbacks
    BY <1>2 DEF ChatRecords, Callbacks
  <1> HIDE DEF got
  <1>6. /\ DocTrue(e) /\ SameEvents(d, e) /\ e.chat = d.chat
    BY <1>3, <1>4, PutTaskTrue DEF DocTrue
  <1>7. Kept(d, e)
    BY <1>6 DEF Kept, SameEvents
  <1> HIDE DEF e
  <1>8. Kept(e, [e EXCEPT !.chat[k].callback = got])
    BY <1>5, <1>6, CallbackKept
  <1> QED
    BY <1>1, <1>7, <1>8, KeptOn

\* The prompt was refused, and the Node let go of the CHAT.
LEMMA RefusedKept ==
    ASSUME NEW d, DocTrue(d), NEW t \in CTasks, NEW k \in Keys, ~d.task[t].delivered
    PROVE  Kept(d, [d EXCEPT !.chat[k] = [@ EXCEPT !.status = "released", !.callback = "none"],
                             !.task[t] = [@ EXCEPT !.status = "queued", !.chat = "none"]])
  <1> DEFINE x == [d.task[t] EXCEPT !.status = "queued", !.chat = "none"]
             c == CallbackAs(ChatAs(d.chat[k], "released"), "none")
             e == PutChat(d, k, c)
  <1>1. [d EXCEPT !.chat[k] = [@ EXCEPT !.status = "released", !.callback = "none"],
                  !.task[t] = [@ EXCEPT !.status = "queued", !.chat = "none"]] = PutTask(e, t, x)
    BY DEF PutTask, PutChat, CallbackAs, ChatAs
  <1>2. d \in Docs /\ d.task[t] \in TaskRecords /\ d.chat[k] \in ChatRecords
    BY ChatOfTask DEF DocTrue
  <1>3. /\ x \in TaskRecords /\ x.status = "queued" /\ x.gen = d.task[t].gen
        /\ x.chat = "none"
    BY <1>2 DEF TaskRecords
  <1>4. Fresh(d, t)
    BY DEF Fresh
  <1> HIDE DEF x
  <1>5. /\ c \in ChatRecords /\ c.status # "none" /\ c.attempts = d.chat[k].attempts
        /\ c.stalled <=> d.chat[k].stalled
    <2>1. ChatAs(d.chat[k], "released") \in ChatRecords /\ "none" \in Callbacks
      BY <1>2, RecordsAs DEF Callbacks
    <2> QED
      BY <1>2, <2>1, RecordsAs
  <1> HIDE DEF c
  <1>6. Kept(d, e) /\ SameEvents(d, e) /\ e.task = d.task
    BY <1>5, ChatKept
  <1> HIDE DEF e
  <1>7. DocTrue(e) /\ Fresh(e, t)
    BY <1>4, <1>6 DEF Kept, Fresh
  <1>8. LET f == PutTask(e, t, x) IN DocTrue(f) /\ SameEvents(e, f) /\ f.chat = e.chat
    BY <1>3, <1>6, <1>7, PutTaskTrue
  <1>9. Kept(e, PutTask(e, t, x))
    BY <1>8 DEF Kept, SameEvents
  <1> QED
    BY <1>1, <1>6, <1>9, KeptOn

\* The prompt was refused, and the CHAT is still held.
LEMMA HeldBackKept ==
    ASSUME NEW d, DocTrue(d), NEW t \in CTasks, NEW k \in Keys
    PROVE  Kept(d, [d EXCEPT !.chat[k].status = "release_pending", !.task[t].status = "blocked"])
  <1> DEFINE e == [d EXCEPT !.chat[k].status = "release_pending"]
  <1>1. [d EXCEPT !.chat[k].status = "release_pending", !.task[t].status = "blocked"]
          = [e EXCEPT !.task[t].status = "blocked"]
    OBVIOUS
  <1>2. Kept(d, e)
    BY ChatStatusKept
  <1> HIDE DEF e
  <1>3. Kept(e, [e EXCEPT !.task[t].status = "blocked"])
    BY <1>2, StatusKept DEF Kept
  <1> QED
    BY <1>1, <1>2, <1>3, KeptOn

\* Looking at a CHAT, and the prompt.

\* A CHAT as it was seen, and its attempt.
SeenAs(c, quiet) == [c EXCEPT !.stalled = quiet]
TriedAs(c, n) == [c EXCEPT !.attempts = n]

\* What they are.
LEMMA SeenIs ==
    /\ \A c \in ChatRecords : \A quiet \in BOOLEAN :
         /\ SeenAs(c, quiet) \in ChatRecords
         /\ SeenAs(c, quiet).status = c.status /\ SeenAs(c, quiet).attempts = c.attempts
         /\ SeenAs(c, quiet).stalled <=> quiet
    /\ \A c \in ChatRecords : \A n \in 0..1 :
         /\ TriedAs(c, n) \in ChatRecords
         /\ TriedAs(c, n).status = c.status /\ TriedAs(c, n).attempts = n
         /\ TriedAs(c, n).stalled <=> c.stalled
  <1>1. ASSUME NEW c \in ChatRecords, NEW quiet \in BOOLEAN
        PROVE  /\ SeenAs(c, quiet) \in ChatRecords
               /\ SeenAs(c, quiet).status = c.status /\ SeenAs(c, quiet).attempts = c.attempts
               /\ SeenAs(c, quiet).stalled <=> quiet
    BY DEF SeenAs, ChatRecords
  <1>2. ASSUME NEW c \in ChatRecords, NEW n \in 0..1
        PROVE  /\ TriedAs(c, n) \in ChatRecords
               /\ TriedAs(c, n).status = c.status /\ TriedAs(c, n).attempts = n
               /\ TriedAs(c, n).stalled <=> c.stalled
    BY DEF TriedAs, ChatRecords
  <1> QED
    BY <1>1, <1>2

\* What was seen of a CHAT is recorded.
LEMMA SeenKept ==
    ASSUME NEW d, DocTrue(d), NEW k \in Keys, NEW quiet \in BOOLEAN,
           quiet => k \notin NotYet(d) /\ d.chat[k].status # "none"
    PROVE  LET e == [d EXCEPT !.chat[k].stalled = quiet]
           IN  Kept(d, e) /\ e.task = d.task /\ \A o \in Keys : o # k => e.chat[o] = d.chat[o]
  <1> DEFINE c == SeenAs(d.chat[k], quiet)
             e == PutChat(d, k, c)
  <1>1. [d EXCEPT !.chat[k].stalled = quiet] = e
    BY DEF PutChat, SeenAs
  <1>2. d.chat[k] \in ChatRecords
    BY DocParts DEF DocTrue
  <1>3. /\ c \in ChatRecords /\ c.status = d.chat[k].status /\ c.attempts = d.chat[k].attempts
        /\ c.stalled <=> quiet
    BY <1>2, SeenIs
  <1>4. k \in NotYet(d) \/ c.status = "none" => Untouched(c)
    BY <1>3 DEF DocTrue, Untouched
  <1> HIDE DEF c
  <1>5. /\ DocTrue(e) /\ SameEvents(d, e) /\ e.task = d.task
        /\ e.chat[k] = c /\ \A o \in Keys : o # k => e.chat[o] = d.chat[o]
    BY <1>3, <1>4, PutChatTrue
  <1> HIDE DEF e
  <1>6. Kept(d, e)
    BY <1>3, <1>5 DEF Kept, SameEvents
  <1> QED
    BY <1>1, <1>5, <1>6

\* A CHAT that is looked at was quiet.
LEMMA QuietKept ==
    ASSUME NEW d, DocTrue(d), NEW k \in Keys, NEW quiet \in BOOLEAN,
           k \notin NotYet(d), d.chat[k].status # "none"
    PROVE  LET e == [d EXCEPT !.chat[k].callback = "armed"]
           IN  Kept(d, [e EXCEPT !.chat[k].stalled = quiet])
  <1> DEFINE e == [d EXCEPT !.chat[k].callback = "armed"]
  <1>1. d.chat[k] \in ChatRecords
    BY DocParts DEF DocTrue
  <1>2. Kept(d, e) /\ e.task = d.task /\ e.chat[k] = CallbackAs(d.chat[k], "armed")
    BY CallbackKept DEF Callbacks
  <1>3. CallbackAs(d.chat[k], "armed").status = d.chat[k].status
    BY <1>1, RecordsAs DEF Callbacks
  <1> HIDE DEF e
  <1>4. DocTrue(e) /\ k \notin NotYet(e) /\ e.chat[k].status # "none"
    BY <1>2, <1>3 DEF Kept, NotYet, Fresh
  <1>5. Kept(e, [e EXCEPT !.chat[k].stalled = quiet])
    BY <1>4, SeenKept
  <1> QED
    BY <1>2, <1>5, KeptOn DEF e

\* The document after the attempts of a CHAT were counted.
Counted(d, e, k, n) ==
    /\ DocTrue(e) /\ e.notice = d.notice /\ e.task = d.task
    /\ e.chat[k].attempts = n
    /\ \A o \in Keys : o # k => e.chat[o] = d.chat[o]

\* The attempt of a CHAT is recorded or taken back.
LEMMA AttemptCounted ==
    ASSUME NEW d, DocTrue(d), NEW k \in Keys, NEW n \in 0..1,
           n = 1 => d.chat[k].stalled
    PROVE  Counted(d, [d EXCEPT !.chat[k].attempts = n], k, n)
  <1> DEFINE c == TriedAs(d.chat[k], n)
             e == PutChat(d, k, c)
  <1>1. [d EXCEPT !.chat[k].attempts = n] = e
    BY DEF PutChat, TriedAs
  <1>2. d.chat[k] \in ChatRecords
    BY DocParts DEF DocTrue
  <1>3. /\ c \in ChatRecords /\ c.status = d.chat[k].status /\ c.attempts = n
        /\ c.stalled <=> d.chat[k].stalled
    BY <1>2, SeenIs
  <1>4. k \in NotYet(d) \/ c.status = "none" => Untouched(c)
    BY <1>3 DEF DocTrue, Untouched
  <1> HIDE DEF c
  <1>5. /\ DocTrue(e) /\ SameEvents(d, e) /\ e.task = d.task
        /\ e.chat[k] = c /\ \A o \in Keys : o # k => e.chat[o] = d.chat[o]
    BY <1>3, <1>4, PutChatTrue
  <1> HIDE DEF e
  <1>6. Counted(d, e, k, n)
    BY <1>3, <1>5 DEF Counted, SameEvents
  <1> QED
    BY <1>1, <1>6

\* A CHAT that is looked at went on.
LEMMA WentOn ==
    ASSUME NEW d, DocTrue(d), NEW k \in Keys
    PROVE  LET e == [d EXCEPT !.chat[k].callback = "armed"]
           IN  Counted(d, [e EXCEPT !.chat[k].stalled = FALSE, !.chat[k].attempts = 0], k, 0)
  <1> DEFINE e == [d EXCEPT !.chat[k].callback = "armed"]
             f == [e EXCEPT !.chat[k].stalled = FALSE]
             g == [f EXCEPT !.chat[k].attempts = 0]
  <1>1. [e EXCEPT !.chat[k].stalled = FALSE, !.chat[k].attempts = 0] = g
    OBVIOUS
  <1>2. Kept(d, e) /\ e.task = d.task /\ \A o \in Keys : o # k => e.chat[o] = d.chat[o]
    BY CallbackKept DEF Callbacks
  <1> HIDE DEF e
  <1>3. Kept(e, f) /\ f.task = e.task /\ \A o \in Keys : o # k => f.chat[o] = e.chat[o]
    BY <1>2, SeenKept DEF Kept
  <1> HIDE DEF f
  <1>4. Counted(f, g, k, 0)
    <2>1. DocTrue(f) /\ 0 \in 0..1 /\ 0 # 1
      BY <1>3 DEF Kept
    <2> QED
      BY <2>1, AttemptCounted, Zenon
  <1> HIDE DEF g
  <1>5. Counted(d, g, k, 0)
    BY <1>2, <1>3, <1>4 DEF Counted, Kept
  <1> QED
    BY <1>1, <1>5 DEF e

\* The end of a CHAT.

\* A CHAT gives up its route and its status.
LEMMA ReleasedKept ==
    ASSUME NEW d, DocTrue(d), NEW k \in Keys, NEW s \in {"released", "retiring", "deleted"}
    PROVE  LET e == [[d EXCEPT !.chat[k].callback = "none"] EXCEPT !.chat[k].status = s]
           IN  Kept(d, e) /\ e.task = d.task
  <1> DEFINE u == [d EXCEPT !.chat[k].callback = "none"]
  <1>1. Kept(d, u) /\ u.task = d.task
    BY CallbackKept DEF Callbacks
  <1> HIDE DEF u
  <1> DEFINE c == ChatAs(u.chat[k], s)
             e == PutChat(u, k, c)
  <1>2. [u EXCEPT !.chat[k].status = s] = e
    BY DEF PutChat, ChatAs
  <1>3. DocTrue(u) /\ u.chat[k] \in ChatRecords
    BY <1>1, DocParts DEF Kept, DocTrue
  <1>4. /\ c \in ChatRecords /\ c.status # "none" /\ c.attempts = u.chat[k].attempts
        /\ c.stalled <=> u.chat[k].stalled
    BY <1>3, RecordsAs
  <1> HIDE DEF c
  <1>5. Kept(u, e) /\ e.task = u.task
    BY <1>3, <1>4, ChatKept
  <1> HIDE DEF e
  <1>6. Kept(d, e) /\ e.task = d.task
    BY <1>1, <1>5, KeptOn
  <1> QED
    BY <1>2, <1>6 DEF u

\* A task starts again in a new generation.
LEMMA RotatedKept ==
    ASSUME NEW d, DocTrue(d), NEW t \in CTasks, d.task[t].chat \in Kinds,
           d.task[t].gen < MaxGen, d.gen < MaxGen
    PROVE  Kept(d, Rotated(d, t))
  <1> DEFINE k == ChatOf(d, t)
             s == IF d.task[t].chat = "reuse" THEN "released" ELSE "retiring"
             u == [d EXCEPT !.chat[k].callback = "none"]
             v == [u EXCEPT !.chat[k].status = s]
             x == [NoTask EXCEPT !.status = "queued", !.gen = d.task[t].gen + 1]
             w == PutTask(v, t, x)
             g == d.gen + 1
  <1>1. d \in Docs /\ k \in Keys /\ d.task[t] \in TaskRecords
    BY ChatOfTask DEF DocTrue
  <1>2. d.gen \in Gens /\ d.task[t].gen \in Gens /\ MaxGen \in Nat
    BY <1>1, DocParts, TaskParts, CloudAssumption
  <1>3. d.gen \in Nat /\ g \in Gens /\ d.task[t].gen \in Nat /\ d.task[t].gen + 1 \in Gens
    BY <1>2 DEF Gens
  <1>4. u.gen = d.gen /\ v.gen = d.gen /\ w.gen = d.gen
    BY <1>1 DEF PutTask, Docs
  <1>5. Rotated(d, t) = PutGen(w, g)
    BY <1>4 DEF Rotated, Unregistered, PutGen, PutTask
  <1> HIDE DEF k
  <1>6. s \in {"released", "retiring"}
    OBVIOUS
  <1> HIDE DEF s
  <1>7. x \in TaskRecords /\ x.status = "queued" /\ x.gen = d.task[t].gen + 1 /\ x.chat = "none"
    BY <1>3 DEF TaskRecords, NoTask
  <1> HIDE DEF x
  <1>8. Kept(d, v) /\ v.task = d.task
    BY <1>1, <1>6, ReleasedKept
  <1>9. DocTrue(v)
    BY <1>8 DEF Kept
  <1> HIDE DEF v
  <1>12. x.gen > v.task[t].gen
    BY <1>3, <1>7, <1>8
  <1>13. DocTrue(w) /\ SameEvents(v, w) /\ w.chat = v.chat
    BY <1>7, <1>9, <1>12, PutTaskTrue
  <1>14. Kept(v, w)
    BY <1>13 DEF Kept, SameEvents
  <1> HIDE DEF w, g
  <1>15. Kept(w, PutGen(w, g))
    BY <1>3, <1>13, PutAside, AsideKept
  <1> QED
    BY <1>5, <1>8, <1>14, <1>15, KeptOn

\* A CHAT is deleted with the approval of the controller.
LEMMA DeletedKept ==
    ASSUME NEW d, DocTrue(d), NEW t \in CTasks, d.task[t].chat \in Kinds
    PROVE  Kept(d, [Unregistered(d, ChatOf(d, t)) EXCEPT
                      !.chat[ChatOf(d, t)].status = "deleted", !.decision[t] = "consumed",
                      !.task[t].status = "done"])
  <1> DEFINE k == ChatOf(d, t)
             u == [d EXCEPT !.chat[k].callback = "none"]
             v == [u EXCEPT !.chat[k].status = "deleted"]
             w == [v EXCEPT !.decision[t] = "consumed"]
             z == [w EXCEPT !.task[t].status = "done"]
  <1>1. [Unregistered(d, ChatOf(d, t)) EXCEPT
            !.chat[ChatOf(d, t)].status = "deleted", !.decision[t] = "consumed",
            !.task[t].status = "done"] = z
    BY DEF Unregistered
  <1>2. d \in Docs /\ k \in Keys
    BY ChatOfTask DEF DocTrue
  <1> HIDE DEF k
  <1>3. Kept(d, u)
    BY <1>2, CallbackKept DEF Callbacks
  <1>4. DocTrue(u)
    BY <1>3 DEF Kept
  <1> HIDE DEF u
  <1>5. Kept(u, v)
    BY <1>2, <1>4, ChatStatusKept
  <1>6. Kept(d, v) /\ DocTrue(v)
    BY <1>3, <1>5, KeptOn DEF Kept
  <1> HIDE DEF v
  <1>7. Kept(v, w) /\ w.decision[t] = "consumed"
    BY <1>6, DecisionKept
  <1>8. Kept(d, w) /\ DocTrue(w) /\ Proven(w, t)
    BY <1>6, <1>7, KeptOn DEF Kept, Proven
  <1> HIDE DEF w
  <1>9. Kept(w, z)
    BY <1>8, StatusKept
  <1> HIDE DEF z
  <1> QED
    BY <1>1, <1>8, <1>9, KeptOn

\* CHATs are closed.
LEMMA ShutKept ==
    ASSUME NEW d, DocTrue(d), NEW ks \in SUBSET Live(d), NEW s \in {"closing", "completed"}
    PROVE  Kept(d, [Shut(d, ks) EXCEPT !.status = s])
  <1> DEFINE Gone(k) == ChatAs(CallbackAs(d.chat[k], "none"),
                               IF k[3] = "reuse" THEN "released" ELSE "archived")
             cs == [k \in Keys |-> IF k \in ks THEN Gone(k) ELSE d.chat[k]]
  <1>1. d \in Docs /\ d.chat \in [Keys -> ChatRecords]
    BY DocParts DEF DocTrue
  <1>2. ASSUME NEW k \in Keys
        PROVE  [Unregistered(d, k).chat[k] EXCEPT !.status = IF k[3] = "reuse" THEN "released" ELSE "archived"]
                 = Gone(k)
    <2>1. Unregistered(d, k).chat[k] = CallbackAs(d.chat[k], "none")
      BY <1>1 DEF Unregistered, CallbackAs, Docs
    <2> QED
      BY <2>1 DEF ChatAs
  <1>3. Shut(d, ks) = PutChats(d, cs)
    BY <1>2 DEF Shut, PutChats
  <1>4. ASSUME NEW k \in Keys
        PROVE  /\ Gone(k) \in ChatRecords /\ Gone(k).status # "none"
               /\ Gone(k).attempts = d.chat[k].attempts
               /\ Gone(k).stalled <=> d.chat[k].stalled
    <2>1. CallbackAs(d.chat[k], "none") \in ChatRecords /\ "none" \in Callbacks
      BY <1>1, RecordsAs DEF Callbacks
    <2>2. (IF k[3] = "reuse" THEN "released" ELSE "archived") \in {"released", "archived"}
      OBVIOUS
    <2> QED
      BY <1>1, <2>1, <2>2, RecordsAs
  <1> HIDE DEF Gone
  <1>5. /\ cs \in [Keys -> ChatRecords]
        /\ \A k \in Keys : /\ cs[k].attempts = d.chat[k].attempts
                           /\ cs[k].stalled <=> d.chat[k].stalled
                           /\ cs[k].status = "none" => d.chat[k].status = "none"
    <2>1. cs \in [Keys -> ChatRecords]
      BY <1>1, <1>4
    <2>2. ASSUME NEW k \in Keys
          PROVE  /\ cs[k].attempts = d.chat[k].attempts
                 /\ cs[k].stalled <=> d.chat[k].stalled
                 /\ cs[k].status = "none" => d.chat[k].status = "none"
      <3>1. CASE k \in ks
        <4>1. cs[k] = Gone(k)
          BY <3>1
        <4> QED
          BY <1>4, <4>1
      <3>2. CASE k \notin ks
        <4>1. cs[k] = d.chat[k]
          BY <3>2
        <4> QED
          BY <4>1
      <3> QED
        BY <3>1, <3>2
    <2> QED
      BY <2>1, <2>2
  <1> HIDE DEF cs
  <1>6. /\ \A k \in NotYet(d) : Untouched(d.chat[k]) => Untouched(cs[k])
        /\ \A k \in Keys : cs[k].status = "none" => Untouched(cs[k])
    BY <1>5 DEF NotYet, DocTrue, Untouched
  <1> DEFINE e == PutChats(d, cs)
  <1>7. DocTrue(e) /\ SameEvents(d, e) /\ e.chat = cs
    BY <1>5, <1>6, PutChatsTrue
  <1> HIDE DEF e
  <1>8. Kept(d, e)
    BY <1>5, <1>7 DEF Kept, SameEvents
  <1>9. Kept(e, [e EXCEPT !.status = s])
    BY <1>7, PartsKept
  <1> QED
    BY <1>3, <1>8, <1>9, KeptOn DEF e

\* The requests.

\* A request that begins, and one that goes on with what it saved.
HeldBy(t, step, d) ==
    [step |-> step, task |-> t, doc |-> d, current |-> TRUE,
     chat |-> IF t = "none" THEN "none" ELSE d.task[t].chat,
     gen |-> IF t = "none" THEN 1 ELSE d.task[t].gen]
GoesOn(r, d, step) == [r EXCEPT !.doc = d, !.step = step]

\* The records of requests.
LEMMA RequestRecords ==
    /\ Free \in CloudRequests /\ ~Free.current /\ Aimed(Free)
    /\ \A r \in CloudRequests :
         /\ OutOfDate(r) \in CloudRequests /\ ~OutOfDate(r).current
         /\ Aimed(r) => Aimed(OutOfDate(r))
    /\ \A r \in CloudRequests : \A d \in Docs : \A s \in Steps :
         /\ GoesOn(r, d, s) \in CloudRequests /\ GoesOn(r, d, s).doc = d /\ GoesOn(r, d, s).step = s
         /\ GoesOn(r, d, s).task = r.task /\ GoesOn(r, d, s).chat = r.chat /\ GoesOn(r, d, s).gen = r.gen
  <1>1. Empty \in Docs
    BY EmptyDoc
  <1>2. 1 \in Gens
    BY CloudAssumption DEF Gens
  <1>3. Free \in CloudRequests /\ ~Free.current /\ Aimed(Free)
    BY <1>1, <1>2 DEF Free, CloudRequests, Steps, Aimed
  <1>4. ASSUME NEW r \in CloudRequests
        PROVE  /\ OutOfDate(r) \in CloudRequests /\ ~OutOfDate(r).current
               /\ Aimed(r) => Aimed(OutOfDate(r))
    BY <1>1 DEF OutOfDate, CloudRequests, Aimed
  <1>5. ASSUME NEW r \in CloudRequests, NEW d \in Docs, NEW s \in Steps
        PROVE  /\ GoesOn(r, d, s) \in CloudRequests /\ GoesOn(r, d, s).doc = d /\ GoesOn(r, d, s).step = s
               /\ GoesOn(r, d, s).task = r.task /\ GoesOn(r, d, s).chat = r.chat /\ GoesOn(r, d, s).gen = r.gen
    BY DEF GoesOn, CloudRequests
  <1> QED
    BY <1>3, <1>4, <1>5

\* The record of a request that begins.
LEMMA HeldRecord ==
    ASSUME NEW d \in Docs, NEW t \in CTasks \cup {"none"}, NEW s \in Steps
    PROVE  /\ HeldBy(t, s, d) \in CloudRequests /\ HeldBy(t, s, d).doc = d
           /\ HeldBy(t, s, d).step = s /\ HeldBy(t, s, d).task = t
           /\ t \in CTasks => HeldBy(t, s, d).chat = d.task[t].chat /\ HeldBy(t, s, d).gen = d.task[t].gen
  <1> DEFINE c == IF t = "none" THEN "none" ELSE d.task[t].chat
             g == IF t = "none" THEN 1 ELSE d.task[t].gen
  <1>1. 1 \in Gens
    BY CloudAssumption DEF Gens
  <1>2. c \in Kinds \cup {"none"} /\ g \in Gens
    <2>1. CASE t = "none"
      BY <1>1, <2>1
    <2>2. CASE t # "none"
      <3>1. t \in CTasks
        BY <2>2
      <3>2. d.task[t].chat \in Kinds \cup {"none"} /\ d.task[t].gen \in Gens
        BY <3>1, ChatOfTask, TaskParts
      <3> QED
        BY <2>2, <3>2
    <2> QED
      BY <2>1, <2>2
  <1>3. HeldBy(t, s, d) = [step |-> s, task |-> t, doc |-> d, current |-> TRUE, chat |-> c, gen |-> g]
    BY DEF HeldBy
  <1>4. t \in CTasks => c = d.task[t].chat /\ g = d.task[t].gen
    BY CloudAssumption
  <1> HIDE DEF c, g
  <1> QED
    BY <1>2, <1>3, <1>4 DEF CloudRequests

\* A request that works on a CHAT names its task.
LEMMA WorksAimed == \A r : WorksOn(r) => Aimed(r)
  BY DEF WorksOn, Copied, Aimed

\* A request on a task that begins works on its CHAT.
LEMMA HeldWorks ==
    ASSUME NEW d \in Docs, NEW t \in CTasks, NEW step \in Steps,
           step \in {"activate", "activate_new", "register", "send", "recover", "continue", "rotate",
                    "delete"} => d.task[t].chat \in Kinds,
           step \in {"register", "send"} => d.task[t].chat = "reuse" /\ ~d.task[t].delivered,
           step = "recover" => HasChat(d, t) /\ (d.task[t].chat = "reuse" => d.task[t].delivered),
           step = "rotate" => d.task[t].gen < MaxGen /\ d.gen < MaxGen
    PROVE  WorksOn(HeldBy(t, step, d))
  <1> DEFINE r == HeldBy(t, step, d)
  <1>1. /\ r.doc = d /\ r.step = step /\ r.task = t
        /\ r.chat = d.task[t].chat /\ r.gen = d.task[t].gen
    BY HeldRecord
  <1> HIDE DEF r
  <1>2. WorksOn(r)
    BY <1>1 DEF WorksOn, Copied
  <1> QED
    BY <1>2 DEF r

\* A step of the requests that keeps what holds of the documents.
LEMMA EditTrue ==
    ASSUME CloudInv, NEW d, DocTrue(d), Tried(d, prompts), Edit(d)
    PROVE  CloudInv'
  <1>1. doc' = d /\ prompts' = prompts
    BY DEF Edit
  <1>2. creq \in [Callers -> CloudRequests]
    BY DEF CloudInv
  <1>3. ASSUME NEW q \in Callers
        PROVE  creq'[q] \in CloudRequests /\ ~creq'[q].current /\ Aimed(creq'[q])
    <2>1. creq'[q] = OutOfDate(creq[q])
      BY DEF Edit
    <2>2. creq[q] \in CloudRequests /\ Aimed(creq[q])
      BY <1>2 DEF CloudInv, CopyTrue
    <2> QED
      BY <2>1, <2>2, RequestRecords
  <1>4. creq' = [q \in Callers |-> creq'[q]]
    BY DEF Edit
  <1>5. creq' \in [Callers -> CloudRequests] /\ \A q \in Callers : CopyTrue(creq[q])'
    BY <1>3, <1>4 DEF CopyTrue
  <1> QED
    BY <1>1, <1>5 DEF CloudInv

\* An edit that keeps the results.
LEMMA EditKeeps ==
    ASSUME CloudInv, NEW d, Kept(doc, d), Edit(d)
    PROVE  CloudInv' /\ doc'.notice = doc.notice
  <1>1. DocTrue(d) /\ Tried(d, prompts)
    BY DEF Kept, CloudInv, Tried
  <1> QED
    BY <1>1, EditTrue DEF Edit, Kept

\* A copy of another request that is still current, or no longer.
LEMMA OthersTrue ==
    ASSUME CloudInv, NEW p \in Callers, NEW r \in CloudRequests,
           DocTrue(doc)', Tried(doc, prompts)', prompts' \in [Keys -> 0..1],
           doc'.notice = doc.notice,
           creq'[p] = r, CopyTrue(r)',
           creq' = [q \in Callers |-> creq'[q]],
           \A q \in Callers : q # p =>
              \/ creq'[q] = OutOfDate(creq[q])
              \/ creq'[q] = creq[q] /\ \A k \in Keys : prompts[k] = 0 => prompts'[k] = 0
    PROVE  CloudInv' /\ doc'.notice = doc.notice
  <1>1. creq \in [Callers -> CloudRequests] /\ \A q \in Callers : CopyTrue(creq[q])
    BY DEF CloudInv
  <1>2. ASSUME NEW q \in Callers PROVE creq'[q] \in CloudRequests /\ CopyTrue(creq[q])'
    <2>1. CASE q = p
      BY <2>1
    <2>2. CASE q # p /\ creq'[q] = OutOfDate(creq[q])
      BY <1>1, <2>2, RequestRecords DEF CopyTrue
    <2>3. CASE q # p /\ creq'[q] = creq[q] /\ \A k \in Keys : prompts[k] = 0 => prompts'[k] = 0
      BY <1>1, <2>3 DEF CopyTrue, Tried
    <2> QED
      BY <2>1, <2>2, <2>3
  <1>3. creq' \in [Callers -> CloudRequests]
    BY <1>2
  <1> QED
    BY <1>2, <1>3 DEF CloudInv

\* A request begins.
LEMMA BeginKeeps ==
    ASSUME CloudInv, NEW p \in Callers, NEW t \in CTasks \cup {"none"}, NEW step \in Steps, NEW d,
           Kept(doc, d), WorksOn(HeldBy(t, step, d)), Begin(p, t, step, d)
    PROVE  CloudInv' /\ doc'.notice = doc.notice
  <1> DEFINE r == HeldBy(t, step, d)
  <1>1. doc' = doc /\ prompts' = prompts
    BY DEF Begin
  <1>2. creq' = [creq EXCEPT ![p] = r]
    BY DEF Begin, Holding, HeldBy
  <1>3. DocTrue(d) /\ d \in Docs /\ Tried(d, prompts) /\ d.notice = doc.notice
    BY DEF Kept, DocTrue, CloudInv, Tried
  <1>4. r \in CloudRequests /\ r.doc = d
    BY <1>3, HeldRecord
  <1> HIDE DEF r
  <1>5. creq \in [Callers -> CloudRequests]
    BY DEF CloudInv
  <1>6. creq'[p] = r /\ (\A q \in Callers : q # p => creq'[q] = creq[q])
        /\ creq' = [q \in Callers |-> creq'[q]]
    BY <1>2, <1>5
  <1>7. WorksOn(r) /\ Aimed(r)
    BY WorksAimed DEF r
  <1>8. CopyTrue(r)'
    BY <1>1, <1>3, <1>4, <1>7 DEF CopyTrue
  <1>9. DocTrue(doc)' /\ Tried(doc, prompts)' /\ prompts' \in [Keys -> 0..1]
    BY <1>1 DEF CloudInv
  <1> QED
    BY <1>1, <1>4, <1>6, <1>8, <1>9, OthersTrue

\* A request saves a document, and every other copy is out of date.
LEMMA SavedTrue ==
    ASSUME CloudInv, NEW p \in Callers, NEW d, NEW r \in CloudRequests,
           DocTrue(d), d.notice = doc.notice, Tried(d, prompts'), prompts' \in [Keys -> 0..1],
           r.current => r.doc = d /\ WorksOn(r), Aimed(r),
           doc' = d, creq' = [Outdated(p) EXCEPT ![p] = r]
    PROVE  CloudInv' /\ doc'.notice = doc.notice
  <1>1. creq'[p] = r /\ (\A q \in Callers : q # p => creq'[q] = OutOfDate(creq[q]))
        /\ creq' = [q \in Callers |-> creq'[q]]
    BY DEF Outdated
  <1>2. CopyTrue(r)'
    BY DEF CopyTrue
  <1>3. DocTrue(doc)' /\ Tried(doc, prompts)'
    OBVIOUS
  <1> QED
    BY <1>1, <1>2, <1>3, OthersTrue

\* A request begins with a save.
LEMMA BeginSavedKeeps ==
    ASSUME CloudInv, NEW p \in Callers, NEW t \in CTasks \cup {"none"}, NEW step \in Steps, NEW d,
           DocTrue(d), d.notice = doc.notice, Tried(d, prompts'), prompts' \in [Keys -> 0..1],
           WorksOn(HeldBy(t, step, d)),
           doc' = d, creq' = Holding(Outdated(p), p, t, step, d)
    PROVE  CloudInv' /\ doc'.notice = doc.notice
  <1> DEFINE r == HeldBy(t, step, d)
  <1>1. creq' = [Outdated(p) EXCEPT ![p] = r]
    BY DEF Holding, HeldBy
  <1>2. d \in Docs
    BY DEF DocTrue
  <1>3. r \in CloudRequests /\ r.doc = d
    BY <1>2, HeldRecord
  <1> HIDE DEF r
  <1>4. WorksOn(r) /\ Aimed(r)
    BY WorksAimed DEF r
  <1> QED
    BY <1>1, <1>3, <1>4, SavedTrue

\* A request ends, and what it saved if it could.
LEMMA EndKeeps ==
    ASSUME CloudInv, NEW p \in Callers, End(p), doc' = doc, prompts' \in [Keys -> 0..1],
           \A k \in Keys : prompts[k] = 0 => prompts'[k] = 0
    PROVE  CloudInv' /\ doc'.notice = doc.notice
  <1>1. Free \in CloudRequests /\ ~Free.current /\ Aimed(Free)
    BY RequestRecords
  <1>2. creq \in [Callers -> CloudRequests]
    BY DEF CloudInv
  <1>3. creq'[p] = Free /\ (\A q \in Callers : q # p => creq'[q] = creq[q])
        /\ creq' = [q \in Callers |-> creq'[q]]
    BY <1>2 DEF End
  <1>4. CopyTrue(Free)'
    BY <1>1 DEF CopyTrue
  <1>5. DocTrue(doc)' /\ Tried(doc, prompts)'
    BY DEF CloudInv, Tried
  <1> QED
    BY <1>1, <1>3, <1>4, <1>5, OthersTrue

\* A request saves its copy, and ends or goes on.
LEMMA SaveKeeps ==
    ASSUME CloudInv, NEW p \in Callers, NEW d, NEW step \in Steps, SaveAnd(p, d, step),
           prompts' \in [Keys -> 0..1],
           creq[p].current =>
              /\ DocTrue(d) /\ d.notice = creq[p].doc.notice /\ Tried(d, prompts')
              /\ step # "idle" => WorksOn(GoesOn(creq[p], d, step)),
           ~creq[p].current => \A k \in Keys : prompts[k] = 0 => prompts'[k] = 0
    PROVE  CloudInv' /\ doc'.notice = doc.notice
  <1>1. creq \in [Callers -> CloudRequests] /\ CopyTrue(creq[p])
    BY DEF CloudInv
  <1>2. CASE ~creq[p].current
    <2>1. End(p) /\ doc' = doc
      BY <1>2 DEF SaveAnd, End
    <2> QED
      BY <1>2, <2>1, EndKeeps
  <1>3. CASE creq[p].current
    <2> DEFINE r == IF step = "idle" THEN Free ELSE GoesOn(creq[p], d, step)
    <2>1. doc' = d /\ creq' = [Outdated(p) EXCEPT ![p] = r]
      <3>1. Outdated(p)[p] = creq[p] /\ DOMAIN Outdated(p) = Callers
        BY DEF Outdated
      <3>2. creq' = [Outdated(p) EXCEPT ![p] = IF step = "idle" THEN Free ELSE GoesOn(@, d, step)]
        BY <1>3 DEF SaveAnd, GoesOn
      <3>3. doc' = d
        BY <1>3 DEF SaveAnd
      <3> QED
        BY <3>1, <3>2, <3>3
    <2>2. d \in Docs /\ d.notice = doc.notice
      BY <1>1, <1>3 DEF DocTrue, CopyTrue
    <2>3. r \in CloudRequests /\ (r.current => r.doc = d /\ WorksOn(r)) /\ Aimed(r)
      BY <1>1, <1>3, <2>2, RequestRecords, WorksAimed
    <2> HIDE DEF r
    <2>4. Tried(d, prompts') /\ DocTrue(d)
      BY <1>3
    <2> QED
      BY <2>1, <2>2, <2>3, <2>4, SavedTrue
  <1> QED
    BY <1>2, <1>3

\* A request saves a copy that follows the one it had, and ends.
LEMMA SaveKept ==
    ASSUME CloudInv, NEW p \in Callers, NEW d, SaveAnd(p, d, "idle"), UNCHANGED prompts,
           creq[p].current => Kept(creq[p].doc, d)
    PROVE  CloudInv' /\ doc'.notice = doc.notice
  <1>1. CopyTrue(creq[p]) /\ prompts' = prompts /\ prompts' \in [Keys -> 0..1] /\ "idle" \in Steps
    BY DEF CloudInv, Steps
  <1>2. creq[p].current => DocTrue(d) /\ d.notice = creq[p].doc.notice /\ Tried(d, prompts')
    BY <1>1 DEF CopyTrue, Kept, Tried
  <1> QED
    BY <1>1, <1>2, SaveKeeps

\* The actions.

\* A lease ends in every copy.
WithoutLease(r) == [r EXCEPT !.doc.lease = FALSE]

\* A request whose lease has ended.
LEMMA WithoutLeaseTrue ==
    ASSUME NEW r \in CloudRequests
    PROVE  /\ WithoutLease(r) \in CloudRequests
           /\ WithoutLease(r).doc = PutLease(r.doc, FALSE)
           /\ WithoutLease(r).current <=> r.current
           /\ (r.current /\ DocTrue(r.doc) => DocTrue(WithoutLease(r).doc))
           /\ DocTrue(r.doc) /\ WorksOn(r) => WorksOn(WithoutLease(r))
           /\ Aimed(r) => Aimed(WithoutLease(r))
  <1> DEFINE e == PutLease(r.doc, FALSE)
             x == [r EXCEPT !.doc = e]
  <1>1. WithoutLease(r) = x
    BY DEF WithoutLease, PutLease
  <1>2. r.doc \in Docs
    BY DEF CloudRequests
  <1>3. e \in Docs
    BY <1>2 DEF PutLease, Docs
  <1>4. DocTrue(r.doc) => Aside(r.doc, e) /\ e.gen = r.doc.gen
    BY PutAside
  <1> HIDE DEF e
  <1>5. /\ x \in CloudRequests /\ x.doc = e /\ x.step = r.step /\ x.task = r.task
        /\ x.chat = r.chat /\ x.gen = r.gen
        /\ x.current <=> r.current
    BY <1>3 DEF CloudRequests
  <1> HIDE DEF x
  <1>6. DocTrue(r.doc) => DocTrue(e) /\ e.task = r.doc.task /\ e.chat = r.doc.chat /\ e.gen = r.doc.gen
    BY <1>4 DEF Aside
  <1>7. DocTrue(r.doc) => (Copied(x) <=> Copied(r))
    BY <1>5, <1>6 DEF Copied
  <1>8. DocTrue(r.doc) => (HasChat(x.doc, x.task) <=> HasChat(r.doc, r.task))
    BY <1>5, <1>6 DEF HasChat, ChatOf
  <1>9. DocTrue(r.doc) /\ WorksOn(r) => WorksOn(x)
    BY <1>5, <1>6, <1>7, <1>8 DEF WorksOn
  <1>10. Aimed(r) => Aimed(x)
    BY <1>5 DEF Aimed
  <1> QED
    BY <1>1, <1>5, <1>6, <1>9, <1>10 DEF e

\* The lease expires.
LEMMA LeaseExpiresKeeps ==
    ASSUME CloudInv, LeaseExpires
    PROVE  CloudInv' /\ doc'.notice = doc.notice
  <1>1. doc' = PutLease(doc, FALSE) /\ prompts' = prompts
    BY DEF LeaseExpires, PutLease
  <1>2. DocTrue(doc) /\ Tried(doc, prompts) /\ prompts \in [Keys -> 0..1]
        /\ creq \in [Callers -> CloudRequests]
    BY DEF CloudInv
  <1>3. Aside(doc, PutLease(doc, FALSE))
    BY <1>2, PutAside
  <1>4. DocTrue(doc') /\ Tried(doc', prompts') /\ doc'.notice = doc.notice
    BY <1>1, <1>2, <1>3 DEF Aside, SameEvents, Tried
  <1>5. creq' = [q \in Callers |-> WithoutLease(creq[q])]
    BY DEF LeaseExpires, WithoutLease
  <1>6. ASSUME NEW q \in Callers PROVE creq'[q] \in CloudRequests /\ CopyTrue(creq[q])'
    <2>1. creq'[q] = WithoutLease(creq[q])
      BY <1>5
    <2>2. creq[q] \in CloudRequests /\ CopyTrue(creq[q])
      BY <1>2 DEF CloudInv
    <2>3. /\ creq'[q] \in CloudRequests
          /\ creq'[q].doc = PutLease(creq[q].doc, FALSE)
          /\ creq'[q].current <=> creq[q].current
          /\ Aimed(creq[q]) => Aimed(creq'[q])
          /\ DocTrue(creq[q].doc) /\ WorksOn(creq[q]) => WorksOn(creq'[q])
      BY <2>1, <2>2, WithoutLeaseTrue
    <2>4. CASE ~creq[q].current
      BY <2>2, <2>3, <2>4 DEF CopyTrue
    <2>5. CASE creq[q].current
      <3>1. /\ DocTrue(creq[q].doc) /\ Tried(creq[q].doc, prompts)
            /\ creq[q].doc.notice = doc.notice /\ WorksOn(creq[q])
        BY <2>2, <2>5 DEF CopyTrue
      <3>2. Aside(creq[q].doc, creq'[q].doc)
        BY <2>3, <3>1, PutAside
      <3>3. /\ DocTrue(creq'[q].doc) /\ Tried(creq'[q].doc, prompts')
            /\ creq'[q].doc.notice = doc'.notice
        BY <1>1, <1>4, <3>1, <3>2 DEF Aside, SameEvents, Tried
      <3> QED
        BY <2>2, <2>3, <3>1, <3>3 DEF CopyTrue
    <2> QED
      BY <2>4, <2>5
  <1>7. creq' \in [Callers -> CloudRequests]
    BY <1>5, <1>6
  <1> QED
    BY <1>1, <1>2, <1>4, <1>6, <1>7 DEF CloudInv

\* The edits of a collaboration.
LEMMA EditsKeep ==
    ASSUME CloudInv, AcquireLease \/ ReleaseLease \/ AddGoal \/ UpdateGoal \/ PauseResume
    PROVE  CloudInv' /\ doc'.notice = doc.notice
  <1>1. DocTrue(doc)
    BY DEF CloudInv
  <1>2. /\ Kept(doc, [doc EXCEPT !.lease = TRUE]) /\ Kept(doc, [doc EXCEPT !.lease = FALSE])
        /\ Kept(doc, [doc EXCEPT !.goal = "open"]) /\ Kept(doc, [doc EXCEPT !.goal = "closed"])
        /\ Kept(doc, [doc EXCEPT !.status = "active"])
    BY <1>1, PartsKept
  <1>3. CASE AcquireLease
    BY <1>2, <1>3, EditKeeps DEF AcquireLease
  <1>4. CASE ReleaseLease
    BY <1>2, <1>4, EditKeeps DEF ReleaseLease
  <1>5. CASE AddGoal
    BY <1>2, <1>5, EditKeeps DEF AddGoal
  <1>6. CASE UpdateGoal
    BY <1>2, <1>6, EditKeeps DEF UpdateGoal
  <1>7. CASE PauseResume
    BY <1>2, <1>7, EditKeeps DEF PauseResume
  <1> QED
    BY <1>3, <1>4, <1>5, <1>6, <1>7

\* A task is added or changes its status.
LEMMA TaskEditsKeep ==
    ASSUME CloudInv, NEW t \in CTasks, AddTask(t) \/ UpdateTask(t)
    PROVE  CloudInv' /\ doc'.notice = doc.notice
  <1>1. DocTrue(doc)
    BY DEF CloudInv
  <1>2. CASE AddTask(t)
    <2>1. PICK target \in BOOLEAN : Edit(WithTask(doc, t, target))
      BY <1>2 DEF AddTask
    <2>2. doc.task[t].status = "none"
      BY <1>2 DEF AddTask, MayAddTask
    <2>3. Kept(doc, WithTask(doc, t, target))
      BY <1>1, <2>2, WithTaskKept
    <2> QED
      BY <2>1, <2>3, EditKeeps
  <1>3. CASE UpdateTask(t)
    <2>1. PICK s \in {"blocked", "dropped", "done", "queued"} :
             MayBecome(doc, t, s) /\ Edit([doc EXCEPT !.task[t].status = s])
      BY <1>3 DEF UpdateTask
    <2>2. s = "done" => Evidence(doc, t)
      BY <2>1 DEF MayBecome
    <2>3. s = "queued" => doc.task[t].chat = "none"
      BY <2>1 DEF MayBecome
    <2>4. s = "done" => Proven(doc, t)
      BY <2>2 DEF Proven
    <2>5. s \in {"queued", "creating", "create_in_doubt", "active", "result_available", "done",
                 "blocked", "dropped"}
      OBVIOUS
    <2>6. Kept(doc, [doc EXCEPT !.task[t].status = s])
      BY <1>1, <2>3, <2>4, <2>5, StatusKept
    <2> QED
      BY <2>1, <2>6, EditKeeps
  <1> QED
    BY <1>2, <1>3

\* An event is ingested, a decision is asked for or made.
LEMMA EventEditsKeep ==
    ASSUME CloudInv, NEW t \in CTasks, IngestEvent(t) \/ RequestDecision(t) \/ ResolveDecision(t)
    PROVE  CloudInv' /\ doc'.notice = doc.notice
  <1>1. DocTrue(doc) /\ doc \in Docs
    BY DEF CloudInv, DocTrue
  <1>2. CASE IngestEvent(t)
    <2> DEFINE n == <<t, doc.task[t].gen>>
    <2>1. PICK r \in Results :
            Edit([doc EXCEPT !.turn[n] = [NoEvent EXCEPT !.status = "pending", !.result = r],
                             !.task[t].status = IF r = "ready" THEN "result_available" ELSE @])
      BY <1>2 DEF IngestEvent
    <2>2. doc.turn[n].status = "none" /\ doc.task[t].status # "none" /\ doc.task[t].chat # "none"
      BY <1>2 DEF IngestEvent
    <2>3. n \in CTasks \X Gens
      BY <1>1, ChatOfTask, TaskParts
    <2> HIDE DEF n
    <2>4. Kept(doc, [doc EXCEPT !.turn[n] = [NoEvent EXCEPT !.status = "pending", !.result = r],
                                !.task[t].status = IF r = "ready" THEN "result_available" ELSE @])
      BY <1>1, <2>2, <2>3, IngestKept
    <2> QED
      BY <2>1, <2>4, EditKeeps
  <1>3. CASE RequestDecision(t)
    <2>1. doc.decision[t] = "none" /\ Edit([doc EXCEPT !.decision[t] = "requested"])
      BY <1>3 DEF RequestDecision
    <2>2. Kept(doc, [doc EXCEPT !.decision[t] = "requested"])
      BY <1>1, <2>1, DecisionKept
    <2> QED
      BY <2>1, <2>2, EditKeeps
  <1>4. CASE ResolveDecision(t)
    <2>1. doc.decision[t] = "requested"
      BY <1>4 DEF ResolveDecision
    <2>2. PICK s \in {"approved", "none"} : Edit([doc EXCEPT !.decision[t] = s])
      BY <1>4 DEF ResolveDecision
    <2>3. Kept(doc, [doc EXCEPT !.decision[t] = s])
      BY <1>1, <2>1, DecisionKept
    <2> QED
      BY <2>2, <2>3, EditKeeps
  <1> QED
    BY <1>2, <1>3, <1>4

\* An event is acknowledged, perhaps the last one.
LEMMA AckEventKeeps ==
    ASSUME CloudInv, NEW p \in Callers, NEW n \in CTasks \X Gens, AckEvent(p, n)
    PROVE  CloudInv' /\ doc'.notice = doc.notice
  <1>1. DocTrue(doc)
    BY DEF CloudInv
  <1>2. PICK t \in CTasks : n[1] = t
    OBVIOUS
  <1>3. PICK d : /\ Kept(doc, d)
                 /\ IF ReadyToClose(d) THEN Begin(p, "none", "close", [d EXCEPT !.status = "closing"])
                                       ELSE Edit(d)
    <2>1. CASE /\ doc.turn[n].status # "none"
               /\ LET d == Advanced([doc EXCEPT !.turn[n].status = "acked"], n[1], doc.turn[n].result)
                  IN  IF ReadyToClose(d) THEN Begin(p, "none", "close", [d EXCEPT !.status = "closing"])
                                         ELSE Edit(d)
      <3> DEFINE d == Advanced([doc EXCEPT !.turn[n].status = "acked"], n[1], doc.turn[n].result)
      <3>1. Kept(doc, d)
        BY <1>1, <1>2, <2>1, AckedTurnKept
      <3>2. IF ReadyToClose(d) THEN Begin(p, "none", "close", [d EXCEPT !.status = "closing"]) ELSE Edit(d)
        BY <2>1
      <3> HIDE DEF d
      <3> QED
        BY <3>1, <3>2, Zenon
    <2>2. CASE /\ doc.notice[n].status # "none"
               /\ LET d == Advanced(doc, n[1], doc.notice[n].result)
                  IN  IF ReadyToClose(d) THEN Begin(p, "none", "close", [d EXCEPT !.status = "closing"])
                                         ELSE Edit(d)
      <3> DEFINE d == Advanced(doc, n[1], doc.notice[n].result)
      <3>1. Kept(doc, d)
        BY <1>1, <1>2, <2>2, AckedNoticeKept
      <3>2. IF ReadyToClose(d) THEN Begin(p, "none", "close", [d EXCEPT !.status = "closing"]) ELSE Edit(d)
        BY <2>2
      <3> HIDE DEF d
      <3> QED
        BY <3>1, <3>2, Zenon
    <2>3. \/ /\ doc.turn[n].status # "none"
             /\ LET d == Advanced([doc EXCEPT !.turn[n].status = "acked"], n[1], doc.turn[n].result)
                IN  IF ReadyToClose(d) THEN Begin(p, "none", "close", [d EXCEPT !.status = "closing"])
                                       ELSE Edit(d)
          \/ /\ doc.notice[n].status # "none"
             /\ LET d == Advanced(doc, n[1], doc.notice[n].result)
                IN  IF ReadyToClose(d) THEN Begin(p, "none", "close", [d EXCEPT !.status = "closing"])
                                       ELSE Edit(d)
      BY Zenon DEF AckEvent
    <2> QED
      BY <2>1, <2>2, <2>3
  <1>4. CASE ReadyToClose(d)
    <2> DEFINE e == [d EXCEPT !.status = "closing"]
    <2>1. Begin(p, "none", "close", e)
      BY <1>3, <1>4
    <2>2. Kept(d, e)
      BY <1>3, PartsKept DEF Kept
    <2> HIDE DEF e
    <2>3. Kept(doc, e)
      BY <1>3, <2>2, KeptOn
    <2>4. WorksOn(HeldBy("none", "close", e)) /\ "close" \in Steps
      BY DEF WorksOn, HeldBy, Steps
    <2> QED
      BY <2>1, <2>3, <2>4, BeginKeeps
  <1>5. CASE ~ReadyToClose(d)
    BY <1>3, <1>5, EditKeeps
  <1> QED
    BY <1>4, <1>5

\* What is known of a copy that is current.
LEMMA CurrentCopy ==
    ASSUME CloudInv, NEW p \in Callers, creq[p].current,
           creq[p].step \in {"activate", "activate_new", "register", "send", "recover", "continue",
                             "rotate", "delete"}
    PROVE  /\ DocTrue(creq[p].doc) /\ Tried(creq[p].doc, prompts) /\ WorksOn(creq[p])
           /\ creq[p].task \in CTasks /\ Mine(p) \in Keys
           /\ creq[p].doc.task[creq[p].task].chat = creq[p].chat /\ creq[p].chat \in Kinds
           /\ creq[p].doc.task[creq[p].task].gen = creq[p].gen
           /\ Mine(p) = ChatOf(creq[p].doc, creq[p].task)
  <1>1. /\ DocTrue(creq[p].doc) /\ Tried(creq[p].doc, prompts) /\ WorksOn(creq[p])
        /\ creq[p] \in CloudRequests
    BY DEF CloudInv, CopyTrue
  <1>2. Copied(creq[p]) /\ creq[p].chat \in Kinds
    BY <1>1 DEF WorksOn
  <1>3. creq[p].gen \in Gens
    BY <1>1 DEF CloudRequests
  <1> QED
    BY <1>1, <1>2, <1>3 DEF Copied, Mine, Keys, ChatOf

\* task.dispatch.
LEMMA DispatchKeeps ==
    ASSUME CloudInv, NEW p \in Callers, NEW t \in CTasks, Dispatch(p, t)
    PROVE  CloudInv' /\ doc'.notice = doc.notice
  <1>1. DocTrue(doc) /\ doc \in Docs /\ Tried(doc, prompts) /\ prompts \in [Keys -> 0..1]
    BY DEF CloudInv, DocTrue
  <1>2. Kept(doc, doc)
    BY <1>1 DEF Kept
  <1>3. CASE DispatchActive(p, t)
    <2> DEFINE step == IF doc.task[t].chat = "reuse" /\ ~doc.task[t].delivered THEN "register" ELSE "activate"
    <2>1. HasChat(doc, t) /\ Begin(p, t, step, doc)
      BY <1>3 DEF DispatchActive
    <2>2. doc.task[t].chat \in Kinds
      BY <1>1, <2>1, ChatOfTask
    <2>3. /\ step = "register" => doc.task[t].chat = "reuse" /\ ~doc.task[t].delivered
          /\ step \in {"register", "activate"}
      OBVIOUS
    <2> HIDE DEF step
    <2>4. step \in Steps
      BY <2>3 DEF Steps
    <2>5. WorksOn(HeldBy(t, step, doc))
      BY <1>1, <2>2, <2>3, <2>4, HeldWorks
    <2> QED
      BY <1>2, <2>1, <2>4, <2>5, BeginKeeps
  <1>4. CASE DispatchNew(p, t)
    <2> DEFINE e == [doc EXCEPT !.creates = IF @ < MaxCreates THEN @ + 1 ELSE @,
                                !.task[t].status = "creating"]
    <2>a. BeginSaved(p, t, "create", doc) \/ BeginSaved(p, t, "create", e)
      BY <1>4, Zenon DEF DispatchNew
    <2>b. Kept(doc, e)
      BY <1>1, CreatingKept, Zenon
    <2> HIDE DEF e
    <2>1. PICK d \in {doc, e} : BeginSaved(p, t, "create", d)
      BY <2>a
    <2>2. Kept(doc, d)
      BY <1>2, <2>b
    <2>3. DocTrue(d) /\ d \in Docs /\ d.notice = doc.notice /\ Tried(d, prompts)
      BY <1>1, <2>2 DEF Kept, Tried, DocTrue
    <2>4. "create" \in Steps
      BY DEF Steps
    <2>5. WorksOn(HeldBy(t, "create", d))
      BY <2>3, <2>4, HeldWorks
    <2>6. doc' = d /\ prompts' = prompts /\ creq' = Holding(Outdated(p), p, t, "create", d)
      BY <2>1 DEF BeginSaved
    <2> QED
      BY <1>1, <2>3, <2>4, <2>5, <2>6, BeginSavedKeeps
  <1>5. CASE DispatchExisting(p, t)
    <2> DEFINE k == <<t, doc.task[t].gen, "reuse">>
               d == [doc EXCEPT !.task[t] = [@ EXCEPT !.status = "active", !.chat = "reuse",
                                                      !.target = TRUE, !.delivered = FALSE],
                                !.chat[k] = [NoChat EXCEPT !.status = "active"]]
    <2>1. doc.task[t].status = "queued" /\ Begin(p, t, "register", d)
      BY <1>5 DEF DispatchExisting
    <2>2. Kept(doc, d) /\ d.task[t] = GivenReuse(doc.task[t])
      BY <1>1, <2>1, ExistingKept
    <2> HIDE DEF d
    <2>3. d \in Docs /\ "register" \in Steps
      BY <2>2 DEF Kept, DocTrue, Steps
    <2>4. d.task[t].chat = "reuse" /\ ~d.task[t].delivered
      BY <1>1, <2>2, ChatOfTask, GivenIs
    <2>5. WorksOn(HeldBy(t, "register", d))
      BY <2>3, <2>4, HeldWorks DEF Kinds
    <2> QED
      BY <2>1, <2>2, <2>3, <2>5, BeginKeeps
  <1> QED
    BY <1>3, <1>4, <1>5 DEF Dispatch

\* session.create.
LEMMA CreateKeeps ==
    ASSUME CloudInv, NEW p \in Callers, CreateAnswers(p) \/ CreateFails(p)
    PROVE  CloudInv' /\ doc'.notice = doc.notice
  <1>1. DocTrue(doc) /\ doc \in Docs /\ Tried(doc, prompts) /\ prompts \in [Keys -> 0..1]
        /\ CopyTrue(creq[p])
    BY DEF CloudInv, DocTrue
  <1>2. creq[p].step = "create" /\ creq[p].task \in CTasks /\ prompts' = prompts
    BY <1>1 DEF CreateAnswers, CreateFails, CopyTrue, Aimed
  <1>3. PICK t \in CTasks : t = creq[p].task
    BY <1>2
  <1>4. CASE CreateAnswers(p) /\ MayPersist(t, creq[p].gen)
    <2>1. doc.task[t].chat \in {"none", "new"}
      BY <1>4 DEF MayPersist
    <2>2. Kept(doc, Persisted(t)) /\ Persisted(t).task[t] = GivenNew(doc.task[t])
      BY <1>1, <2>1, PersistedKept
    <2>3. PICK d : d = Persisted(t)
      OBVIOUS
    <2>4. DocTrue(d) /\ d \in Docs /\ d.notice = doc.notice /\ Tried(d, prompts)
      BY <1>1, <2>2, <2>3 DEF Kept, Tried, DocTrue
    <2>5. d.task[t].chat = "new" /\ "activate_new" \in Steps
      BY <1>1, <2>2, <2>3, ChatOfTask, GivenIs DEF Steps
    <2>6. WorksOn(HeldBy(t, "activate_new", d))
      BY <2>4, <2>5, HeldWorks DEF Kinds
    <2>7. doc' = d /\ creq' = Holding(Outdated(p), p, t, "activate_new", d)
      BY <1>3, <1>4, <2>3 DEF CreateAnswers
    <2> QED
      BY <1>1, <1>2, <2>4, <2>5, <2>6, <2>7, BeginSavedKeeps
  <1>5. CASE CreateAnswers(p) /\ ~MayPersist(t, creq[p].gen)
    <2>1. End(p) /\ doc' = doc
      BY <1>3, <1>5 DEF CreateAnswers
    <2> QED
      BY <1>1, <1>2, <2>1, EndKeeps
  <1>6. CASE CreateFails(p)
    <2> DEFINE d == [creq[p].doc EXCEPT !.task[t].status = "create_in_doubt"]
    <2>1. SaveAnd(p, d, "idle")
      BY <1>3, <1>6 DEF CreateFails
    <2>2. ASSUME creq[p].current PROVE Kept(creq[p].doc, d)
      <3>1. DocTrue(creq[p].doc)
        BY <1>1, <2>2 DEF CopyTrue
      <3> QED
        BY <3>1, StatusKept
    <2> HIDE DEF d
    <2> QED
      BY <1>2, <2>1, <2>2, SaveKept
  <1> QED
    BY <1>4, <1>5, <1>6

\* How far the route of a CHAT came.
LEMMA ActivateKeeps ==
    ASSUME CloudInv, NEW p \in Callers, Activate(p)
    PROVE  CloudInv' /\ doc'.notice = doc.notice
  <1>1. prompts' = prompts /\ prompts \in [Keys -> 0..1] /\ creq[p].step \in {"activate", "activate_new"}
    BY DEF Activate, CloudInv
  <1>2. ASSUME NEW got \in Callbacks, SaveAnd(p, [creq[p].doc EXCEPT !.chat[Mine(p)].callback = got], "idle")
        PROVE  CloudInv' /\ doc'.notice = doc.notice
    <2> DEFINE d == [creq[p].doc EXCEPT !.chat[Mine(p)].callback = got]
    <2>1. ASSUME creq[p].current PROVE Kept(creq[p].doc, d)
      BY <1>1, <2>1, CurrentCopy, CallbackKept
    <2>2. SaveAnd(p, d, "idle")
      BY <1>2
    <2> HIDE DEF d
    <2> QED
      BY <1>1, <2>1, <2>2, SaveKept
  <1>3. CASE End(p) /\ doc' = doc
    BY <1>1, <1>3, EndKeeps
  <1> QED
    BY <1>2, <1>3 DEF Activate

\* The route of an existing CHAT is registered before the prompt is sent.
LEMMA RegisterKeeps ==
    ASSUME CloudInv, NEW p \in Callers, Register(p)
    PROVE  CloudInv' /\ doc'.notice = doc.notice
  <1>1. prompts' = prompts /\ prompts \in [Keys -> 0..1] /\ creq[p].step = "register"
        /\ creq[p] \in CloudRequests /\ "send" \in Steps /\ "send" # "idle"
    BY DEF Register, CloudInv, Steps
  <1>2. ASSUME NEW got \in {"registered", "armed"},
               SaveAnd(p, [creq[p].doc EXCEPT !.chat[Mine(p)].callback = got], "send")
        PROVE  CloudInv' /\ doc'.notice = doc.notice
    <2> DEFINE d == [creq[p].doc EXCEPT !.chat[Mine(p)].callback = got]
    <2>1. got \in Callbacks
      BY DEF Callbacks
    <2>2. ASSUME creq[p].current
          PROVE  Kept(creq[p].doc, d) /\ d.task = creq[p].doc.task
      BY <1>1, <2>1, <2>2, CurrentCopy, CallbackKept
    <2>3. SaveAnd(p, d, "send")
      BY <1>2
    <2> HIDE DEF d
    <2>4. ASSUME creq[p].current
          PROVE  /\ DocTrue(d) /\ d.notice = creq[p].doc.notice /\ Tried(d, prompts')
                 /\ WorksOn(GoesOn(creq[p], d, "send"))
      <3>1. Kept(creq[p].doc, d) /\ d.task = creq[p].doc.task
        BY <2>2, <2>4
      <3>2. /\ Tried(creq[p].doc, prompts) /\ WorksOn(creq[p]) /\ creq[p].task \in CTasks
            /\ creq[p].doc.task[creq[p].task].chat = creq[p].chat /\ creq[p].chat \in Kinds
            /\ creq[p].doc.task[creq[p].task].gen = creq[p].gen
        BY <1>1, <2>4, CurrentCopy
      <3>3. creq[p].chat = "reuse" /\ ~creq[p].doc.task[creq[p].task].delivered
        BY <1>1, <3>2 DEF WorksOn
      <3>4. DocTrue(d) /\ d.notice = creq[p].doc.notice /\ Tried(d, prompts') /\ d \in Docs
        BY <1>1, <3>1, <3>2 DEF Kept, Tried, DocTrue
      <3>5. PICK r : r = GoesOn(creq[p], d, "send")
        OBVIOUS
      <3>6. /\ r.doc = d /\ r.step = "send" /\ r.task = creq[p].task /\ r.chat = creq[p].chat
            /\ r.gen = creq[p].gen
        BY <1>1, <3>4, <3>5, RequestRecords
      <3>7. WorksOn(r)
        BY <3>1, <3>2, <3>3, <3>6 DEF WorksOn, Copied
      <3> QED
        BY <3>4, <3>5, <3>7
    <2> QED
      BY <1>1, <2>3, <2>4, SaveKeeps
  <1>3. CASE End(p) /\ doc' = doc
    BY <1>1, <1>3, EndKeeps
  <1> QED
    BY <1>2, <1>3 DEF Register

\* The prompt was sent or refused.
LEMMA SendKeeps ==
    ASSUME CloudInv, NEW p \in Callers, Sent(p) \/ Refused(p)
    PROVE  CloudInv' /\ doc'.notice = doc.notice
  <1>1. prompts' = prompts /\ creq[p].step = "send"
    BY DEF Sent, Refused
  <1>2. ASSUME creq[p].current
        PROVE  /\ DocTrue(creq[p].doc) /\ creq[p].task \in CTasks /\ Mine(p) \in Keys
               /\ ~creq[p].doc.task[creq[p].task].delivered
    BY <1>1, <1>2, CurrentCopy DEF WorksOn
  <1>3. PICK t, k, c : t = creq[p].task /\ k = Mine(p) /\ c = creq[p].doc
    OBVIOUS
  <1>4. CASE Sent(p)
    <2>1. PICK delivered \in BOOLEAN, armed \in BOOLEAN :
            SaveAnd(p, [c EXCEPT !.task[t].delivered = delivered,
                                 !.chat[k].callback = IF armed THEN "armed" ELSE @], "idle")
      BY <1>3, <1>4, Zenon DEF Sent
    <2> DEFINE d == [c EXCEPT !.task[t].delivered = delivered,
                              !.chat[k].callback = IF armed THEN "armed" ELSE @]
    <2>2. ASSUME creq[p].current PROVE Kept(c, d)
      <3>1. DocTrue(c) /\ t \in CTasks /\ k \in Keys /\ ~c.task[t].delivered
        BY <1>2, <1>3, <2>2
      <3> QED
        BY <3>1, SentKept, Zenon
    <2>3. SaveAnd(p, d, "idle")
      BY <2>1, Zenon
    <2> HIDE DEF d
    <2> QED
      BY <1>1, <1>3, <2>2, <2>3, SaveKept
  <1>5. CASE Refused(p)
    <2> DEFINE d == [c EXCEPT !.chat[k] = [@ EXCEPT !.status = "released", !.callback = "none"],
                              !.task[t] = [@ EXCEPT !.status = "queued", !.chat = "none"]]
               e == [c EXCEPT !.chat[k].status = "release_pending", !.task[t].status = "blocked"]
    <2>1. SaveAnd(p, d, "idle") \/ SaveAnd(p, e, "idle")
      BY <1>3, <1>5, Zenon DEF Refused
    <2>2. ASSUME creq[p].current PROVE Kept(c, d) /\ Kept(c, e)
      <3>1. DocTrue(c) /\ t \in CTasks /\ k \in Keys /\ ~c.task[t].delivered
        BY <1>2, <1>3, <2>2
      <3> QED
        BY <3>1, RefusedKept, HeldBackKept, Zenon
    <2> HIDE DEF d, e
    <2> QED
      BY <1>1, <1>3, <2>1, <2>2, SaveKept
  <1> QED
    BY <1>4, <1>5

\* status.poll.
LEMMA PollKeeps ==
    ASSUME CloudInv, NEW p \in Callers,
           (\E t \in CTasks : PollBegin(p, t)) \/ PollAnswer(p) \/ PollFails(p)
    PROVE  CloudInv' /\ doc'.notice = doc.notice
  <1>1. DocTrue(doc) /\ doc \in Docs /\ prompts \in [Keys -> 0..1] /\ Kept(doc, doc)
    BY DEF CloudInv, DocTrue, Kept
  <1>2. ASSUME NEW t \in CTasks, PollBegin(p, t)
        PROVE  CloudInv' /\ doc'.notice = doc.notice
    <2>1. "close" \in Steps /\ "recover" \in Steps
      BY DEF Steps
    <2>2. CASE Begin(p, t, "close", doc)
      <3>1. WorksOn(HeldBy(t, "close", doc))
        BY <1>1, <2>1, HeldWorks
      <3> QED
        BY <1>1, <2>1, <2>2, <3>1, BeginKeeps
    <2>3. CASE /\ HasChat(doc, t) /\ (doc.task[t].chat = "reuse" => doc.task[t].delivered)
               /\ Begin(p, t, "recover", doc)
      <3>1. doc.task[t].chat \in Kinds
        BY <1>1, <2>3, ChatOfTask
      <3>2. WorksOn(HeldBy(t, "recover", doc))
        BY <1>1, <2>1, <2>3, <3>1, HeldWorks
      <3> QED
        BY <1>1, <2>1, <2>3, <3>2, BeginKeeps
    <2> QED
      BY <1>2, <2>2, <2>3 DEF PollBegin
  <1>3. PICK k, c : k = Mine(p) /\ c = creq[p].doc
    OBVIOUS
  <1>4. ASSUME creq[p].step = "recover", creq[p].current
        PROVE  /\ DocTrue(c) /\ Tried(c, prompts) /\ k \in Keys /\ k \notin NotYet(c)
               /\ c.chat[k].status # "none"
    <2>1. /\ DocTrue(c) /\ Tried(c, prompts) /\ WorksOn(creq[p]) /\ creq[p].task \in CTasks /\ k \in Keys
          /\ c.task[creq[p].task].chat = creq[p].chat /\ c.task[creq[p].task].gen = creq[p].gen
          /\ k = ChatOf(c, creq[p].task)
      BY <1>3, <1>4, CurrentCopy
    <2>2. HasChat(c, creq[p].task) /\ (creq[p].chat = "reuse" => c.task[creq[p].task].delivered)
      BY <1>3, <1>4, <2>1 DEF WorksOn
    <2>3. c.chat[k].status # "none"
      BY <2>1, <2>2 DEF HasChat
    <2>4. c.task[creq[p].task].gen \in Nat
      BY <2>1, ChatOfTask, TaskParts DEF DocTrue
    <2>5. k[1] = creq[p].task /\ k[2] = c.task[creq[p].task].gen /\ k[3] = creq[p].chat
      BY <2>1 DEF ChatOf
    <2>6. k \notin NotYet(c)
      BY <2>1, <2>2, <2>4, <2>5 DEF NotYet, Fresh
    <2> QED
      BY <2>1, <2>3, <2>6
  <1>5. CASE PollAnswer(p)
    <2> DEFINE d == [c EXCEPT !.chat[k].callback = "armed"]
               e == [d EXCEPT !.chat[k].stalled = FALSE, !.chat[k].attempts = 0]
    <2>1. creq[p].step = "recover"
      BY <1>5 DEF PollAnswer
    <2>2. CASE /\ SaveAnd(p, e, "idle")
               /\ prompts' = IF creq[p].current THEN [prompts EXCEPT ![k] = 0] ELSE prompts
      <3>1. ASSUME creq[p].current PROVE k \in Keys /\ Tried(c, prompts) /\ Counted(c, e, k, 0)
        <4>1. DocTrue(c) /\ k \in Keys /\ Tried(c, prompts)
          BY <1>4, <2>1, <3>1
        <4>2. Counted(c, e, k, 0)
          BY <4>1, WentOn, Zenon
        <4> QED
          BY <4>1, <4>2
      <3>2. SaveAnd(p, e, "idle")
        BY <2>2
      <3> HIDE DEF e
      <3>a. prompts' = prompts \/ prompts' = [prompts EXCEPT ![k] = 0]
        BY <2>2, Zenon
      <3>3. prompts' \in [Keys -> 0..1]
        BY <1>1, <3>a
      <3>4. ASSUME creq[p].current
            PROVE  DocTrue(e) /\ e.notice = creq[p].doc.notice /\ Tried(e, prompts')
        <4>1. prompts' = [prompts EXCEPT ![k] = 0]
          BY <2>2, <3>4
        <4>2. k \in Keys /\ Tried(c, prompts) /\ Counted(c, e, k, 0)
          BY <3>1, <3>4
        <4>3. prompts'[k] = 0 /\ \A o \in Keys : o # k => prompts'[o] = prompts[o]
          BY <1>1, <4>1, <4>2
        <4> QED
          BY <1>3, <4>2, <4>3 DEF Counted, Tried
      <3>5. ~creq[p].current => prompts' = prompts
        BY <2>2
      <3>6. "idle" \in Steps
        BY DEF Steps
      <3> QED
        BY <3>2, <3>3, <3>4, <3>5, <3>6, SaveKeeps
    <2>3. CASE \E quiet \in {d.chat[k].stalled} \cup (IF Continuing(k) THEN {} ELSE {TRUE}) :
                 SaveAnd(p, [d EXCEPT !.chat[k].stalled = quiet], "idle") /\ UNCHANGED prompts
      <3>1. PICK quiet \in {d.chat[k].stalled} \cup {TRUE} :
                 SaveAnd(p, [d EXCEPT !.chat[k].stalled = quiet], "idle") /\ UNCHANGED prompts
        BY <2>3, Zenon
      <3> DEFINE f == [d EXCEPT !.chat[k].stalled = quiet]
      <3>2. ASSUME creq[p].current PROVE Kept(c, f)
        <4>1. DocTrue(c) /\ k \in Keys /\ k \notin NotYet(c) /\ c.chat[k].status # "none"
          BY <1>4, <2>1, <3>2
        <4>2. d.chat[k] = CallbackAs(c.chat[k], "armed") /\ c.chat[k] \in ChatRecords
          <5>1. "armed" \in Callbacks
            BY DEF Callbacks
          <5>2. d.chat[k] = CallbackAs(c.chat[k], "armed")
            BY <4>1, <5>1, CallbackKept, Zenon
          <5> QED
            BY <4>1, <5>2, DocParts DEF DocTrue
        <4>3. CallbackAs(c.chat[k], "armed") \in ChatRecords
          BY <4>2, RecordsAs DEF Callbacks
        <4>4. quiet \in BOOLEAN
          BY <3>1, <4>2, <4>3 DEF ChatRecords
        <4> QED
          BY <4>1, <4>4, QuietKept, Zenon
      <3>3. SaveAnd(p, f, "idle")
        BY <3>1
      <3> HIDE DEF f
      <3> QED
        BY <1>3, <3>1, <3>2, <3>3, SaveKept
    <2> QED
      BY <1>3, <1>5, <2>2, <2>3, Zenon DEF PollAnswer
  <1>6. CASE PollFails(p)
    <2> DEFINE d == [c EXCEPT !.chat[k].callback = "registered"]
    <2>1. creq[p].step = "recover" /\ prompts' = prompts
      BY <1>6 DEF PollFails
    <2>2. SaveAnd(p, d, "idle") \/ (End(p) /\ doc' = doc)
      BY <1>3, <1>6 DEF PollFails
    <2>3. ASSUME creq[p].current PROVE Kept(c, d)
      BY <1>4, <2>1, <2>3, CallbackKept DEF Callbacks
    <2> HIDE DEF d
    <2>4. CASE SaveAnd(p, d, "idle")
      BY <1>3, <2>1, <2>3, <2>4, SaveKept
    <2>5. CASE End(p) /\ doc' = doc
      BY <1>1, <2>1, <2>5, EndKeeps
    <2> QED
      BY <2>2, <2>4, <2>5
  <1> QED
    BY <1>2, <1>5, <1>6

\* The prompt is counted before it is sent.
LEMMA ContinueKeeps ==
    ASSUME CloudInv, NEW p \in Callers, NEW t \in CTasks, ContinueBegin(p, t)
    PROVE  CloudInv' /\ doc'.notice = doc.notice
  <1>1. DocTrue(doc) /\ doc \in Docs /\ Tried(doc, prompts) /\ prompts \in [Keys -> 0..1]
    BY DEF CloudInv, DocTrue
  <1>2. PICK k : k = ChatOf(doc, t)
    OBVIOUS
  <1> DEFINE d == [doc EXCEPT !.chat[k].attempts = 1]
  <1>3. /\ HasChat(doc, t) /\ doc.chat[k].stalled /\ doc.chat[k].attempts = 0
        /\ doc' = d /\ creq' = Holding(Outdated(p), p, t, "continue", d)
        /\ prompts' = [prompts EXCEPT ![k] = @ + 1]
    BY <1>2, Zenon DEF ContinueBegin
  <1>4. k \in Keys /\ doc.task[t].chat \in Kinds
    BY <1>1, <1>2, <1>3, ChatOfTask
  <1>5. 1 \in 0..1
    OBVIOUS
  <1>6. Counted(doc, d, k, 1)
    <2>1. doc.chat[k].stalled
      BY <1>3
    <2> QED
      BY <1>1, <1>4, <1>5, <2>1, AttemptCounted, Zenon
  <1>7. prompts[k] = 0
    BY <1>1, <1>3, <1>4 DEF Tried
  <1>8. /\ prompts' \in [Keys -> 0..1]
        /\ \A o \in Keys : o # k => prompts'[o] = prompts[o]
    BY <1>1, <1>3, <1>4, <1>7
  <1>9. doc' = d /\ creq' = Holding(Outdated(p), p, t, "continue", d)
    BY <1>3
  <1> HIDE DEF d
  <1>10. DocTrue(d) /\ d \in Docs /\ d.notice = doc.notice /\ d.task = doc.task
    BY <1>6 DEF Counted, DocTrue
  <1>11. Tried(d, prompts')
    BY <1>1, <1>6, <1>8 DEF Counted, Tried
  <1>12. "continue" \in Steps
    BY DEF Steps
  <1>13. WorksOn(HeldBy(t, "continue", d))
    BY <1>4, <1>10, <1>12, HeldWorks
  <1> QED
    BY <1>8, <1>9, <1>10, <1>11, <1>12, <1>13, BeginSavedKeeps

\* The prompt was not sent, or it was or nobody knows.
LEMMA ContinueEndKeeps ==
    ASSUME CloudInv, NEW p \in Callers, ContinueUnsent(p) \/ ContinueEnds(p)
    PROVE  CloudInv' /\ doc'.notice = doc.notice
  <1>1. prompts \in [Keys -> 0..1] /\ creq[p].step = "continue"
    BY DEF CloudInv, ContinueUnsent, ContinueEnds
  <1>2. CASE ContinueEnds(p)
    BY <1>1, <1>2, EndKeeps DEF ContinueEnds
  <1>3. CASE ContinueUnsent(p)
    <2>1. PICK k, c : k = Mine(p) /\ c = creq[p].doc
      OBVIOUS
    <2> DEFINE d == [c EXCEPT !.chat[k].attempts = 0]
    <2>2. /\ SaveAnd(p, d, "idle")
          /\ prompts' = [prompts EXCEPT ![k] = IF @ > 0 THEN @ - 1 ELSE 0]
      BY <1>3, <2>1, Zenon DEF ContinueUnsent
    <2>3. ASSUME creq[p].current PROVE k \in Keys /\ Tried(c, prompts) /\ Counted(c, d, k, 0)
      <3>1. DocTrue(c) /\ k \in Keys /\ Tried(c, prompts)
        BY <1>1, <2>1, <2>3, CurrentCopy
      <3>2. 0 \in 0..1 /\ 0 # 1
        OBVIOUS
      <3>3. Counted(c, d, k, 0)
        BY <3>1, <3>2, AttemptCounted, Zenon
      <3> QED
        BY <3>1, <3>3
    <2>4. SaveAnd(p, d, "idle")
      BY <2>2
    <2> HIDE DEF d
    <2>5. /\ prompts' \in [Keys -> 0..1]
          /\ \A o \in Keys : o # k => prompts'[o] = prompts[o]
          /\ \A o \in Keys : prompts[o] = 0 => prompts'[o] = 0
          /\ k \in Keys => prompts'[k] = 0
      <3>1. prompts' = [prompts EXCEPT ![k] = IF @ > 0 THEN @ - 1 ELSE 0]
        BY <2>2, Zenon
      <3>2. CASE k \in Keys
        <4>1. (IF prompts[k] > 0 THEN prompts[k] - 1 ELSE 0) = 0
          BY <1>1, <3>2
        <4>2. prompts' = [prompts EXCEPT ![k] = 0]
          BY <3>1, <4>1
        <4> QED
          BY <1>1, <3>2, <4>2
      <3>3. CASE k \notin Keys
        <4>1. prompts' = prompts
          BY <1>1, <3>1, <3>3
        <4> QED
          BY <1>1, <3>3, <4>1
      <3> QED
        BY <3>2, <3>3
    <2>6. ASSUME creq[p].current
          PROVE  DocTrue(d) /\ d.notice = creq[p].doc.notice /\ Tried(d, prompts')
      BY <2>1, <2>3, <2>5, <2>6 DEF Counted, Tried
    <2>7. "idle" \in Steps
      BY DEF Steps
    <2> QED
      BY <2>4, <2>5, <2>6, <2>7, SaveKeeps
  <1> QED
    BY <1>2, <1>3

\* chat.rotate.
LEMMA RotateKeeps ==
    ASSUME CloudInv, NEW p \in Callers,
           (\E t \in CTasks : RotateBegin(p, t)) \/ Rotate(p)
    PROVE  CloudInv' /\ doc'.notice = doc.notice
  <1>1. DocTrue(doc) /\ doc \in Docs /\ prompts \in [Keys -> 0..1] /\ Kept(doc, doc)
        /\ CopyTrue(creq[p])
    BY DEF CloudInv, DocTrue, Kept
  <1>2. ASSUME NEW t \in CTasks, RotateBegin(p, t)
        PROVE  CloudInv' /\ doc'.notice = doc.notice
    <2>1. /\ HasChat(doc, t) /\ doc.task[t].gen < MaxGen /\ doc.gen < MaxGen
          /\ Begin(p, t, "rotate", doc) /\ "rotate" \in Steps
      BY <1>2 DEF RotateBegin, Steps
    <2>2. doc.task[t].chat \in Kinds
      BY <1>1, <2>1, ChatOfTask
    <2>3. WorksOn(HeldBy(t, "rotate", doc))
      BY <1>1, <2>1, <2>2, HeldWorks
    <2> QED
      BY <1>1, <2>1, <2>3, BeginKeeps
  <1>3. CASE Rotate(p)
    <2>1. /\ creq[p].step = "rotate" /\ prompts' = prompts
          /\ SaveAnd(p, Rotated(creq[p].doc, creq[p].task), "idle")
      BY <1>3 DEF Rotate
    <2>2. ASSUME creq[p].current PROVE Kept(creq[p].doc, Rotated(creq[p].doc, creq[p].task))
      <3>1. /\ DocTrue(creq[p].doc) /\ WorksOn(creq[p]) /\ creq[p].task \in CTasks
            /\ creq[p].doc.task[creq[p].task].chat \in Kinds
            /\ creq[p].doc.task[creq[p].task].gen = creq[p].gen
        BY <2>1, <2>2, CurrentCopy
      <3>2. creq[p].gen < MaxGen /\ creq[p].doc.gen < MaxGen
        BY <2>1, <3>1 DEF WorksOn
      <3> QED
        BY <3>1, <3>2, RotatedKept
    <2> QED
      BY <2>1, <2>2, SaveKept
  <1> QED
    BY <1>2, <1>3

\* chat.delete.
LEMMA DeleteKeeps ==
    ASSUME CloudInv, NEW p \in Callers,
           (\E t \in CTasks : DeleteBegin(p, t)) \/ DeleteChat(p) \/ UnregisterFails(p)
    PROVE  CloudInv' /\ doc'.notice = doc.notice
  <1>1. DocTrue(doc) /\ doc \in Docs /\ prompts \in [Keys -> 0..1] /\ Kept(doc, doc)
    BY DEF CloudInv, DocTrue, Kept
  <1>2. ASSUME NEW t \in CTasks, DeleteBegin(p, t)
        PROVE  CloudInv' /\ doc'.notice = doc.notice
    <2>1. HasChat(doc, t) /\ Begin(p, t, "delete", doc) /\ "delete" \in Steps
      BY <1>2 DEF DeleteBegin, Steps
    <2>2. doc.task[t].chat \in Kinds
      BY <1>1, <2>1, ChatOfTask
    <2>3. WorksOn(HeldBy(t, "delete", doc))
      BY <1>1, <2>1, <2>2, HeldWorks
    <2> QED
      BY <1>1, <2>1, <2>3, BeginKeeps
  <1>3. CASE DeleteChat(p)
    <2>1. PICK t, c : t = creq[p].task /\ c = creq[p].doc
      OBVIOUS
    <2> DEFINE d == [Unregistered(c, ChatOf(c, t)) EXCEPT
                       !.chat[ChatOf(c, t)].status = "deleted", !.decision[t] = "consumed",
                       !.task[t].status = "done"]
    <2>2. SaveAnd(p, d, "idle") \/ (End(p) /\ doc' = doc)
      BY <1>3, <2>1, Zenon DEF DeleteChat
    <2>3. creq[p].step = "delete" /\ prompts' = prompts
      BY <1>3 DEF DeleteChat
    <2>4. ASSUME creq[p].current PROVE Kept(c, d)
      <3>1. DocTrue(c) /\ t \in CTasks /\ c.task[t].chat \in Kinds
        BY <2>1, <2>3, <2>4, CurrentCopy
      <3> QED
        BY <3>1, DeletedKept, Zenon
    <2> HIDE DEF d
    <2>5. CASE SaveAnd(p, d, "idle")
      BY <2>1, <2>3, <2>4, <2>5, SaveKept
    <2>6. CASE End(p) /\ doc' = doc
      BY <1>1, <2>3, <2>6, EndKeeps
    <2> QED
      BY <2>2, <2>5, <2>6
  <1>4. CASE UnregisterFails(p)
    BY <1>1, <1>4, EndKeeps DEF UnregisterFails
  <1> QED
    BY <1>2, <1>3, <1>4

\* close.
LEMMA CloseKeeps ==
    ASSUME CloudInv, NEW p \in Callers, CloseBegin(p) \/ Close(p)
    PROVE  CloudInv' /\ doc'.notice = doc.notice
  <1>1. DocTrue(doc) /\ doc \in Docs /\ CopyTrue(creq[p])
    BY DEF CloudInv, DocTrue
  <1>2. CASE CloseBegin(p)
    <2> DEFINE d == [doc EXCEPT !.status = "closing"]
    <2>1. Begin(p, "none", "close", d)
      BY <1>2 DEF CloseBegin
    <2>2. Kept(doc, d)
      BY <1>1, PartsKept
    <2> HIDE DEF d
    <2>3. WorksOn(HeldBy("none", "close", d)) /\ "close" \in Steps
      BY DEF WorksOn, HeldBy, Steps
    <2> QED
      BY <2>1, <2>2, <2>3, BeginKeeps
  <1>3. CASE Close(p)
    <2>1. PICK c : c = creq[p].doc
      OBVIOUS
    <2>2. PICK ks \in SUBSET Live(c), s \in {"closing", "completed"} :
            SaveAnd(p, [Shut(c, ks) EXCEPT !.status = s], "idle")
      BY <1>3, <2>1, Zenon DEF Close
    <2> DEFINE d == [Shut(c, ks) EXCEPT !.status = s]
    <2>3. SaveAnd(p, d, "idle")
      BY <2>2
    <2>4. ASSUME creq[p].current PROVE Kept(c, d)
      <3>1. DocTrue(c)
        BY <1>1, <2>1, <2>4 DEF CopyTrue
      <3> QED
        BY <3>1, ShutKept, Zenon
    <2>5. prompts' = prompts
      BY <1>3 DEF Close
    <2> HIDE DEF d
    <2> QED
      BY <2>1, <2>3, <2>4, <2>5, SaveKept
  <1> QED
    BY <1>2, <1>3

\* The requests end with the Hub.
LEMMA EndsKeep ==
    ASSUME CloudInv, creq' = [p \in Callers |-> Free], UNCHANGED <<doc, prompts>>
    PROVE  CloudInv' /\ doc'.notice = doc.notice
  <1>1. Free \in CloudRequests /\ ~Free.current /\ Aimed(Free)
    BY RequestRecords
  <1> QED
    BY <1>1 DEF CloudInv, CopyTrue

\* Every step of a collaboration keeps the invariant, and the results.
LEMMA CloudStep ==
    ASSUME CloudInv, CloudNext
    PROVE  CloudInv' /\ doc'.notice = doc.notice
  <1>1. CASE EditNext
    <2>1. CASE LeaseExpires
      BY <2>1, LeaseExpiresKeeps
    <2>2. CASE ReleaseLease \/ AddGoal \/ UpdateGoal \/ PauseResume
      BY <2>2, EditsKeep
    <2>3. ASSUME NEW t \in CTasks,
                 UpdateTask(t) \/ IngestEvent(t) \/ RequestDecision(t) \/ ResolveDecision(t)
          PROVE  CloudInv' /\ doc'.notice = doc.notice
      BY <2>3, TaskEditsKeep, EventEditsKeep
    <2> QED
      BY <1>1, <2>1, <2>2, <2>3 DEF EditNext
  <1>2. CASE CallNext
    <2>1. ASSUME NEW p \in Callers, NEW t \in CTasks,
                 \/ SimpleDispatch(p, t) \/ PollBegin(p, t) \/ ContinueBegin(p, t)
                 \/ RotateBegin(p, t) \/ DeleteBegin(p, t)
                 \/ \E g \in Gens : AckEvent(p, <<t, g>>)
          PROVE  CloudInv' /\ doc'.notice = doc.notice
      <3>1. CASE SimpleDispatch(p, t)
        BY <3>1, EditsKeep, TaskEditsKeep, DispatchKeeps DEF SimpleDispatch
      <3>2. CASE PollBegin(p, t)
        BY <3>2, PollKeeps
      <3>3. CASE ContinueBegin(p, t)
        BY <3>3, ContinueKeeps
      <3>4. CASE RotateBegin(p, t)
        BY <3>4, RotateKeeps
      <3>5. CASE DeleteBegin(p, t)
        BY <3>5, DeleteKeeps
      <3>6. ASSUME NEW g \in Gens, AckEvent(p, <<t, g>>)
            PROVE  CloudInv' /\ doc'.notice = doc.notice
        <4>1. <<t, g>> \in CTasks \X Gens
          OBVIOUS
        <4> QED
          BY <3>6, <4>1, AckEventKeeps
      <3> QED
        BY <2>1, <3>1, <3>2, <3>3, <3>4, <3>5, <3>6
    <2>2. ASSUME NEW p \in Callers,
                 \/ CreateAnswers(p) \/ CreateFails(p) \/ Activate(p) \/ Register(p) \/ Sent(p)
                 \/ Refused(p) \/ PollAnswer(p) \/ PollFails(p) \/ ContinueUnsent(p)
                 \/ ContinueEnds(p) \/ UnregisterFails(p) \/ Rotate(p) \/ DeleteChat(p)
                 \/ CloseBegin(p) \/ Close(p)
          PROVE  CloudInv' /\ doc'.notice = doc.notice
      <3>1. CASE CreateAnswers(p) \/ CreateFails(p)
        BY <3>1, CreateKeeps
      <3>2. CASE Activate(p)
        BY <3>2, ActivateKeeps
      <3>3. CASE Register(p)
        BY <3>3, RegisterKeeps
      <3>4. CASE Sent(p) \/ Refused(p)
        BY <3>4, SendKeeps
      <3>5. CASE PollAnswer(p) \/ PollFails(p)
        BY <3>5, PollKeeps
      <3>6. CASE ContinueUnsent(p) \/ ContinueEnds(p)
        BY <3>6, ContinueEndKeeps
      <3>7. CASE Rotate(p)
        BY <3>7, RotateKeeps
      <3>8. CASE UnregisterFails(p) \/ DeleteChat(p)
        BY <3>8, DeleteKeeps
      <3>9. CASE CloseBegin(p) \/ Close(p)
        BY <3>9, CloseKeeps
      <3> QED
        BY <2>2, <3>1, <3>2, <3>3, <3>4, <3>5, <3>6, <3>7, <3>8, <3>9
    <2>3. CASE HubEndsRequests
      BY <2>3, EndsKeep DEF HubEndsRequests
    <2> QED
      BY <1>2, <2>1, <2>2, <2>3 DEF CallNext
  <1> QED
    BY <1>1, <1>2 DEF CloudNext

\* The first state.
LEMMA CloudFirst ==
    ASSUME CloudInit
    PROVE  CloudInv
  <1>1. DocTrue(Empty)
    BY EmptyDoc
  <1>2. Free \in CloudRequests /\ ~Free.current /\ Aimed(Free)
    BY RequestRecords
  <1>3. Tried(doc, prompts) /\ prompts \in [Keys -> 0..1]
    BY DEF CloudInit, Tried
  <1> QED
    BY <1>1, <1>2, <1>3 DEF CloudInit, CloudInv, CopyTrue

(***************************************************************************)
(* The completions.                                                        *)
(***************************************************************************)
RowRecords == [state : {"none", "pending", "claimed", "acked"}, outcome : Outcomes,
               chat : Kinds \cup {"none"}, claim : Claims \cup {"none"}, fresh : BOOLEAN]
AckRecords == [step : {"idle", "apply", "refused"}, left : SUBSET Ids, digest : [CTasks -> 0..1]]

CompletionTypes ==
    /\ rows \in [Ids -> RowRecords]
    /\ acks \in [Claims -> AckRecords]
    /\ file \in [CTasks -> 0..1]

\* A completion is recorded once its row is acknowledged, and while a batch is
\* applied, once its row is no longer to be applied.
Recorded(n) == doc.notice[n].status = "acked"
RowTrue(i) == rows[i].state = "acked" /\ i[1] = "completion" => Recorded(Note(i))
BatchTrue(c) ==
    acks[c].step = "apply" =>
      \A i \in Ids : rows[i].state = "claimed" /\ rows[i].claim = c /\ i[1] = "completion"
                     /\ i \notin acks[c].left => Recorded(Note(i))

RecordInv == (\A i \in Ids : RowTrue(i)) /\ (\A c \in Claims : BatchTrue(c))

\* The parts of a notification id.
LEMMA IdParts ==
    ASSUME NEW i \in Ids
    PROVE  i[1] \in {"completion", "recovery"} /\ i[2] \in CTasks /\ i[3] \in Gens
           /\ Note(i) \in CTasks \X Gens /\ Note(i) = <<i[2], i[3]>>
  BY DEF Ids, Note

\* A result is recorded in the document.
LEMMA AppliedTrue ==
    ASSUME CloudInv, rows \in [Ids -> RowRecords], NEW i \in Ids, NEW digest \in 0..1, Applies(i, digest)
    PROVE  LET d == Applied(i, digest)
           IN  /\ DocTrue(d) /\ Tried(d, prompts)
               /\ d.notice[Note(i)].status = "acked"
               /\ \A n \in CTasks \X Gens : Recorded(n) => d.notice[n].status = "acked"
  <1> DEFINE n == Note(i)
             r == IF rows[i].outcome = "completed" THEN "ready" ELSE "failed"
             v == [status |-> "acked", result |-> r, digest |-> digest]
             e == PutNotice(doc, n, v)
  <1>1. DocTrue(doc) /\ Tried(doc, prompts)
    BY DEF CloudInv
  <1>2. n \in CTasks \X Gens /\ i[2] \in CTasks /\ i[3] \in Gens /\ n = <<i[2], i[3]>>
    BY IdParts
  <1>3. Applied(i, digest) = Advanced(e, i[2], r)
    BY DEF Applied, PutNotice
  <1>4. doc.notice[n].status = "acked" => doc.notice[n].result = r
    BY DEF Applies
  <1> HIDE DEF n
  <1>5. r \in Results
    BY DEF Results
  <1> HIDE DEF r
  <1>6. v \in EventRecords /\ v.status = "acked" /\ v.result = r
    BY <1>5 DEF EventRecords
  <1>7. Ready(doc.notice[n]) => Ready(v)
    BY <1>4, <1>6 DEF Ready
  <1> HIDE DEF v
  <1>8. /\ DocTrue(e) /\ e.turn = doc.turn /\ e.task = doc.task /\ e.chat = doc.chat
        /\ e.notice[n] = v
        /\ \A m \in CTasks \X Gens : m # n => e.notice[m] = doc.notice[m]
    <2>1. n \in CTasks \X Gens /\ v \in EventRecords /\ v.status # "pending"
      BY <1>2, <1>6
    <2> HIDE DEF e
    <2>2. LET f == PutNotice(doc, n, v)
          IN  /\ DocTrue(f) /\ f.turn = doc.turn /\ f.task = doc.task /\ f.chat = doc.chat
              /\ f.notice[n] = v
              /\ \A m \in CTasks \X Gens : m # n => f.notice[m] = doc.notice[m]
      BY <1>1, <1>7, <2>1, PutNoticeTrue
    <2> QED
      BY <2>2 DEF e
  <1> HIDE DEF e
  <1>9. r = "ready" => Proven(e, i[2])
    <2>1. r = "ready" => Ready(e.notice[<<i[2], i[3]>>])
      BY <1>2, <1>6, <1>8 DEF Ready
    <2> QED
      BY <1>2, <2>1, EvidenceIs DEF Proven
  <1>10. Kept(e, Advanced(e, i[2], r))
    BY <1>2, <1>8, <1>9, AdvancedKept
  <1>11. PICK f : f = Advanced(e, i[2], r)
    OBVIOUS
  <1>12. DocTrue(f) /\ Tried(f, prompts) /\ f.notice = e.notice
    BY <1>1, <1>8, <1>10, <1>11 DEF Kept, Tried
  <1>13. f.notice[n].status = "acked" /\ \A m \in CTasks \X Gens : Recorded(m) => f.notice[m].status = "acked"
    BY <1>6, <1>8, <1>12 DEF Recorded
  <1> QED
    BY <1>3, <1>11, <1>12, <1>13 DEF n

\* One notification of a batch is dealt with: what it does to the documents.
LEMMA ApplyKeeps ==
    ASSUME CloudInv, CompletionTypes, NEW c \in Claims, ApplyStep(c)
    PROVE  /\ CloudInv'
           /\ \A n \in CTasks \X Gens : Recorded(n) => Recorded(n)'
           /\ \E i \in acks[c].left :
                /\ i[1] = "completion" /\ acks'[c].step = "apply" => Recorded(Note(i))'
                /\ \/ acks' = [acks EXCEPT ![c].left = @ \ {i}]
                   \/ acks' = [acks EXCEPT ![c] = NoAck]
                   \/ acks' = [acks EXCEPT ![c] = [NoAck EXCEPT !.step = "refused", !.left = {i}]]
  <1>1. PICK i \in acks[c].left :
          \/ /\ i[1] = "recovery"
             /\ acks' = [acks EXCEPT ![c].left = @ \ {i}]
             /\ UNCHANGED docVars
          \/ /\ i[1] = "completion" /\ Applies(i, DigestOf(c, i))
             /\ Edit(Applied(i, DigestOf(c, i)))
             /\ \/ acks' = [acks EXCEPT ![c].left = @ \ {i}]
                \/ acks' = [acks EXCEPT ![c] = NoAck]
          \/ /\ i[1] = "completion" /\ ~Applies(i, DigestOf(c, i))
             /\ acks' = [acks EXCEPT ![c] = [NoAck EXCEPT !.step = "refused", !.left = {i}]]
             /\ UNCHANGED docVars
    BY Zenon DEF ApplyStep
  <1>2. acks[c] \in AckRecords /\ acks \in [Claims -> AckRecords] /\ rows \in [Ids -> RowRecords]
    BY DEF CompletionTypes
  <1>3. i \in Ids /\ i[2] \in CTasks
    BY <1>2, IdParts DEF AckRecords
  <1>4. DigestOf(c, i) \in 0..1
    <2>1. acks[c].digest[i[2]] \in 0..1
      BY <1>2, <1>3 DEF AckRecords
    <2> QED
      BY <2>1 DEF DigestOf
  <1>5. CASE UNCHANGED docVars
    <2>1. CloudInv' /\ \A n \in CTasks \X Gens : Recorded(n) => Recorded(n)'
      BY <1>5 DEF docVars, CloudInv, CopyTrue, Recorded, Tried
    <2>2. CASE i[1] = "recovery" /\ acks' = [acks EXCEPT ![c].left = @ \ {i}]
      BY <2>1, <2>2, Zenon
    <2>3. CASE acks' = [acks EXCEPT ![c] = [NoAck EXCEPT !.step = "refused", !.left = {i}]]
      <3>1. acks'[c] = [NoAck EXCEPT !.step = "refused", !.left = {i}]
        BY <1>2, <2>3
      <3>2. acks'[c].step = "refused"
        BY <3>1 DEF NoAck
      <3>3. acks'[c].step # "apply"
        BY <3>2
      <3> QED
        BY <2>1, <2>3, <3>3, Zenon
    <2>4. CASE Edit(Applied(i, DigestOf(c, i))) /\ Applies(i, DigestOf(c, i))
               /\ (\/ acks' = [acks EXCEPT ![c].left = @ \ {i}]
                   \/ acks' = [acks EXCEPT ![c] = NoAck])
      <3>1. Recorded(Note(i))'
        <4>1. PICK d : d = Applied(i, DigestOf(c, i))
          OBVIOUS
        <4>2. d.notice[Note(i)].status = "acked"
          BY <1>2, <1>3, <1>4, <2>4, <4>1, AppliedTrue
        <4>3. doc' = d
          BY <2>4, <4>1 DEF Edit
        <4> QED
          BY <4>2, <4>3 DEF Recorded, Note
      <3> QED
        BY <2>1, <2>4, <3>1, Zenon
    <2> QED
      BY <1>1, <2>2, <2>3, <2>4, Zenon
  <1>6. CASE /\ Applies(i, DigestOf(c, i)) /\ Edit(Applied(i, DigestOf(c, i)))
             /\ \/ acks' = [acks EXCEPT ![c].left = @ \ {i}]
                \/ acks' = [acks EXCEPT ![c] = NoAck]
    <2>1. PICK d : d = Applied(i, DigestOf(c, i))
      OBVIOUS
    <2>2. /\ DocTrue(d) /\ Tried(d, prompts)
          /\ d.notice[Note(i)].status = "acked"
          /\ \A n \in CTasks \X Gens : Recorded(n) => d.notice[n].status = "acked"
      BY <1>2, <1>3, <1>4, <1>6, <2>1, AppliedTrue
    <2>3. Edit(d)
      BY <1>6, <2>1
    <2>4. CloudInv' /\ doc' = d
      BY <2>2, <2>3, EditTrue DEF Edit
    <2>5. /\ Recorded(Note(i))'
          /\ \A n \in CTasks \X Gens : Recorded(n) => Recorded(n)'
      BY <2>2, <2>4 DEF Recorded, Note
    <2>6. CloudInv'
      BY <2>4
    <2> QED
      BY <1>6, <2>5, <2>6, Zenon
  <1> QED
    BY <1>1, <1>5, <1>6, Zenon

\* The records of rows and of acknowledgements.
LEMMA RowsAndAcks ==
    /\ NoRow \in RowRecords /\ NoRow.state = "none"
    /\ NoAck \in AckRecords /\ NoAck.step = "idle"
    /\ \A r \in RowRecords : \A o \in Outcomes : \A k \in Kinds \cup {"none"} :
         /\ [r EXCEPT !.state = "pending", !.outcome = o, !.chat = k] \in RowRecords
         /\ [r EXCEPT !.state = "pending", !.outcome = o, !.chat = k].state = "pending"
  <1>1. NoRow \in RowRecords /\ NoRow.state = "none"
    BY DEF NoRow, RowRecords, Outcomes
  <1>2. NoAck \in AckRecords /\ NoAck.step = "idle"
    BY DEF NoAck, AckRecords
  <1>3. ASSUME NEW r \in RowRecords, NEW o \in Outcomes, NEW k \in Kinds \cup {"none"}
        PROVE  /\ [r EXCEPT !.state = "pending", !.outcome = o, !.chat = k] \in RowRecords
               /\ [r EXCEPT !.state = "pending", !.outcome = o, !.chat = k].state = "pending"
    BY DEF RowRecords
  <1> QED
    BY <1>1, <1>2, <1>3

\* The rows after a step: those that say something else are neither
\* acknowledged nor claimed by a batch that is applied.
SameRow(i) == rows'[i] = rows[i]
LooseRow(i) == rows'[i] \in RowRecords /\ rows'[i].state = "pending"

\* A report is queued or upgraded.
LEMMA NotifyRows ==
    ASSUME CompletionTypes, DocTrue(doc), NEW t \in CTasks, NEW k \in {"completion", "recovery"},
           NEW o \in Outcomes, Notify(t, k, o)
    PROVE  /\ rows' \in [Ids -> RowRecords]
           /\ \A i \in Ids : SameRow(i) \/ LooseRow(i)
           /\ UNCHANGED <<docVars, acks, file>>
  <1> DEFINE j == <<k, t, doc.task[t].gen>>
  <1>1. doc.task[t] \in TaskRecords
    BY ChatOfTask DEF DocTrue
  <1>2. j \in Ids /\ j[2] = t
    BY <1>1, TaskParts DEF Ids
  <1>3. rows[j] \in RowRecords
    BY <1>2 DEF CompletionTypes
  <1>4. UpgradeNotification(j) \/ (rows[j].state = "none" /\ EnqueueNotification(j, o))
    BY DEF Notify
  <1>5. UNCHANGED <<docVars, acks, file>>
    BY DEF Notify
  <1> HIDE DEF j
  <1>6. CASE UpgradeNotification(j)
    <2> DEFINE r == [rows[j] EXCEPT !.outcome = "completed", !.state = "pending",
                                    !.claim = "none", !.fresh = FALSE]
    <2>1. rows' = [rows EXCEPT ![j] = r]
      BY <1>6 DEF UpgradeNotification
    <2>2. r \in RowRecords /\ r.state = "pending"
      BY <1>3 DEF RowRecords, Outcomes
    <2> HIDE DEF r
    <2>3. rows' \in [Ids -> RowRecords] /\ rows'[j] = r /\ \A i \in Ids : i # j => rows'[i] = rows[i]
      BY <1>2, <2>1, <2>2 DEF CompletionTypes
    <2> QED
      BY <1>5, <2>2, <2>3 DEF SameRow, LooseRow
  <1>7. CASE rows[j].state = "none" /\ EnqueueNotification(j, o)
    <2> DEFINE r == [NoRow EXCEPT !.state = "pending", !.outcome = o, !.chat = doc.task[j[2]].chat]
    <2>1. rows' = [rows EXCEPT ![j] = r]
      BY <1>7 DEF EnqueueNotification
    <2>2. doc.task[j[2]].chat \in Kinds \cup {"none"}
      BY <1>1, <1>2, TaskParts
    <2>3. NoRow \in RowRecords
      BY RowsAndAcks
    <2>4. r \in RowRecords /\ r.state = "pending"
      BY <2>2, <2>3, RowsAndAcks, Zenon
    <2> HIDE DEF r
    <2>5. rows' \in [Ids -> RowRecords] /\ rows'[j] = r /\ \A i \in Ids : i # j => rows'[i] = rows[i]
      BY <1>2, <2>1, <2>4 DEF CompletionTypes
    <2> QED
      BY <1>5, <2>4, <2>5 DEF SameRow, LooseRow
  <1> QED
    BY <1>4, <1>6, <1>7

\* A row that is claimed.
ClaimedBy(r, c) == [r EXCEPT !.state = "claimed", !.claim = c, !.fresh = TRUE]

\* A batch is claimed: a row is as it was, pending, or of the new claim.
LEMMA ClaimRows ==
    ASSUME CompletionTypes, NEW c \in Claims, Claim(c)
    PROVE  /\ rows' \in [Ids -> RowRecords]
           /\ \A i \in Ids : \/ SameRow(i) \/ LooseRow(i)
                             \/ rows'[i].state = "claimed" /\ rows'[i].claim = c
           /\ UNCHANGED <<docVars, acks, file>>
  <1>1. ASSUME NEW i \in Ids
        PROVE  Returned[i] \in RowRecords /\ (Returned[i] = rows[i] \/ Returned[i].state = "pending")
    <2>1. rows[i] \in RowRecords
      BY DEF CompletionTypes
    <2>2. \A r \in RowRecords : /\ [r EXCEPT !.state = "pending", !.claim = "none"] \in RowRecords
                                /\ [r EXCEPT !.state = "pending", !.claim = "none"].state = "pending"
      BY DEF RowRecords
    <2> QED
      BY <2>1, <2>2 DEF Returned
  <1>2. Returned = [i \in Ids |-> Returned[i]]
    BY DEF Returned
  <1>3. UNCHANGED <<docVars, acks, file>>
    BY DEF Claim
  <1>4. CASE rows' = Returned
    <2>1. rows' \in [Ids -> RowRecords]
      BY <1>1, <1>2, <1>4
    <2> QED
      BY <1>1, <1>3, <1>4, <2>1 DEF SameRow, LooseRow
  <1>5. CASE \E batch \in SUBSET {i \in Ids : Returned[i].state = "pending"} :
               rows' = [i \in Ids |-> IF i \in batch
                                      THEN [Returned[i] EXCEPT !.state = "claimed", !.claim = c, !.fresh = TRUE]
                                      ELSE Returned[i]]
    <2>1. PICK batch : rows' = [i \in Ids |-> IF i \in batch
                                      THEN [Returned[i] EXCEPT !.state = "claimed", !.claim = c, !.fresh = TRUE]
                                      ELSE Returned[i]]
      BY <1>5
    <2>2. ASSUME NEW r \in RowRecords
          PROVE  /\ ClaimedBy(r, c) \in RowRecords
                 /\ ClaimedBy(r, c).state = "claimed" /\ ClaimedBy(r, c).claim = c
      BY DEF RowRecords, ClaimedBy
    <2>3. ASSUME NEW i \in Ids
          PROVE  /\ rows'[i] \in RowRecords
                 /\ \/ SameRow(i) \/ LooseRow(i)
                    \/ rows'[i].state = "claimed" /\ rows'[i].claim = c
      <3>1. CASE i \in batch
        <4>1. rows'[i] = ClaimedBy(Returned[i], c)
          BY <2>1, <3>1 DEF ClaimedBy
        <4> QED
          BY <1>1, <2>2, <4>1
      <3>2. CASE i \notin batch
        <4>1. rows'[i] = Returned[i]
          BY <2>1, <3>2
        <4> QED
          BY <1>1, <4>1 DEF SameRow, LooseRow
      <3> QED
        BY <3>1, <3>2
    <2>4. rows' = [i \in Ids |-> rows'[i]]
      BY <2>1
    <2>5. rows' \in [Ids -> RowRecords]
      BY <2>3, <2>4
    <2> QED
      BY <1>3, <2>3, <2>5
  <1> QED
    BY <1>4, <1>5 DEF Claim

\* A claim expires.
LEMMA ExpiresRows ==
    ASSUME CompletionTypes, NEW c \in Claims, ClaimExpires(c)
    PROVE  /\ rows' \in [Ids -> RowRecords]
           /\ \A i \in Ids : rows'[i].state = rows[i].state /\ rows'[i].claim = rows[i].claim
           /\ UNCHANGED <<docVars, acks, file>>
  <1>1. \A r \in RowRecords : /\ [r EXCEPT !.fresh = FALSE] \in RowRecords
                              /\ [r EXCEPT !.fresh = FALSE].state = r.state
                              /\ [r EXCEPT !.fresh = FALSE].claim = r.claim
    BY DEF RowRecords
  <1>2. ASSUME NEW i \in Ids
        PROVE  /\ rows'[i] \in RowRecords
               /\ rows'[i].state = rows[i].state /\ rows'[i].claim = rows[i].claim
    <2>1. rows[i] \in RowRecords
      BY DEF CompletionTypes
    <2>2. rows'[i] = rows[i] \/ rows'[i] = [rows[i] EXCEPT !.fresh = FALSE]
      BY DEF ClaimExpires
    <2> QED
      BY <1>1, <2>1, <2>2
  <1>3. rows' = [i \in Ids |-> rows'[i]]
    BY DEF ClaimExpires
  <1>4. rows' \in [Ids -> RowRecords]
    BY <1>2, <1>3
  <1> QED
    BY <1>2, <1>4 DEF ClaimExpires

\* A batch is acknowledged.
LEMMA AckEndRows ==
    ASSUME CompletionTypes, NEW c \in Claims, AckEnd(c)
    PROVE  /\ rows' \in [Ids -> RowRecords]
           /\ \A i \in Ids : /\ rows'[i].claim = rows[i].claim
                             /\ rows'[i].state = IF rows[i].state = "claimed" /\ rows[i].claim = c
                                                 THEN "acked" ELSE rows[i].state
           /\ acks' = [acks EXCEPT ![c] = NoAck]
           /\ acks[c].step = "apply" /\ acks[c].left = {}
           /\ UNCHANGED <<docVars, file>>
  <1>1. \A r \in RowRecords : /\ [r EXCEPT !.state = "acked"] \in RowRecords
                              /\ [r EXCEPT !.state = "acked"].state = "acked"
                              /\ [r EXCEPT !.state = "acked"].claim = r.claim
    BY DEF RowRecords
  <1>2. ASSUME NEW i \in Ids
        PROVE  /\ rows'[i] \in RowRecords
               /\ rows'[i].claim = rows[i].claim
               /\ rows'[i].state = IF rows[i].state = "claimed" /\ rows[i].claim = c
                                   THEN "acked" ELSE rows[i].state
    <2>1. rows[i] \in RowRecords
      BY DEF CompletionTypes
    <2>2. CASE rows[i].state = "claimed" /\ rows[i].claim = c
      <3>1. rows'[i] = [rows[i] EXCEPT !.state = "acked"]
        BY <2>2 DEF AckEnd
      <3> QED
        BY <1>1, <2>1, <2>2, <3>1
    <2>3. CASE ~(rows[i].state = "claimed" /\ rows[i].claim = c)
      <3>1. rows'[i] = rows[i]
        BY <2>3 DEF AckEnd
      <3> QED
        BY <2>1, <2>3, <3>1
    <2> QED
      BY <2>2, <2>3
  <1>3. rows' = [i \in Ids |-> rows'[i]]
    BY DEF AckEnd
  <1>4. rows' \in [Ids -> RowRecords]
    BY <1>2, <1>3
  <1> QED
    BY <1>2, <1>4 DEF AckEnd

\* Types, and what holds of the documents.
CompletionInv == CloudInv /\ CompletionTypes

\* An acknowledgement is begun.
LEMMA AckBeginIs ==
    ASSUME CompletionTypes, NEW c \in Claims, AckBegin(c)
    PROVE  /\ acks' \in [Claims -> AckRecords]
           /\ acks'[c].left = Of(c)
           /\ \A o \in Claims : o # c => acks'[o] = acks[o]
  <1> DEFINE r == [step |-> "apply", left |-> Of(c), digest |-> file]
  <1>1. acks' = [acks EXCEPT ![c] = r]
    BY DEF AckBegin
  <1>2. r \in AckRecords /\ r.left = Of(c)
    <2>1. Of(c) \in SUBSET Ids
      BY DEF Of
    <2> QED
      BY <2>1 DEF AckRecords, CompletionTypes
  <1> HIDE DEF r
  <1> QED
    BY <1>1, <1>2 DEF CompletionTypes

\* A notification of a batch is dealt with: the batch.
LEMMA ApplyIs ==
    ASSUME CompletionTypes, NEW c \in Claims, NEW i \in acks[c].left,
           \/ acks' = [acks EXCEPT ![c].left = @ \ {i}]
           \/ acks' = [acks EXCEPT ![c] = NoAck]
           \/ acks' = [acks EXCEPT ![c] = [NoAck EXCEPT !.step = "refused", !.left = {i}]]
    PROVE  /\ acks' \in [Claims -> AckRecords]
           /\ acks'[c].step = "apply" => acks[c].step = "apply" /\ acks'[c].left = acks[c].left \ {i}
           /\ \A o \in Claims : o # c => acks'[o] = acks[o]
  <1>1. acks \in [Claims -> AckRecords] /\ acks[c] \in AckRecords /\ i \in Ids
    BY DEF CompletionTypes, AckRecords
  <1>2. CASE acks' = [acks EXCEPT ![c].left = @ \ {i}]
    <2> DEFINE r == [acks[c] EXCEPT !.left = @ \ {i}]
    <2>1. acks' = [acks EXCEPT ![c] = r]
      BY <1>2
    <2>2. r \in AckRecords /\ r.step = acks[c].step /\ r.left = acks[c].left \ {i}
      BY <1>1 DEF AckRecords
    <2> HIDE DEF r
    <2> QED
      BY <1>1, <2>1, <2>2
  <1>3. CASE acks' = [acks EXCEPT ![c] = NoAck]
    <2>1. NoAck \in AckRecords /\ NoAck.step = "idle"
      BY RowsAndAcks
    <2> QED
      BY <1>1, <1>3, <2>1
  <1>4. CASE acks' = [acks EXCEPT ![c] = [NoAck EXCEPT !.step = "refused", !.left = {i}]]
    <2> DEFINE r == [NoAck EXCEPT !.step = "refused", !.left = {i}]
    <2>1. acks' = [acks EXCEPT ![c] = r]
      BY <1>4
    <2>2. \A a \in AckRecords : /\ [a EXCEPT !.step = "refused", !.left = {i}] \in AckRecords
                                /\ [a EXCEPT !.step = "refused", !.left = {i}].step = "refused"
      BY <1>1 DEF AckRecords
    <2>3. r \in AckRecords /\ r.step = "refused"
      BY <2>2, RowsAndAcks, Zenon
    <2> HIDE DEF r
    <2> QED
      BY <1>1, <2>1, <2>3
  <1> QED
    BY <1>2, <1>3, <1>4

\* The types and the documents, step by step.
LEMMA CompletionStepKeeps ==
    ASSUME CompletionInv, [CompletionNext]_ccVars
    PROVE  CompletionInv'
  <1>1. CloudInv /\ CompletionTypes /\ DocTrue(doc)
    BY DEF CompletionInv, CloudInv
  <1>2. ASSUME UNCHANGED docVars PROVE CloudInv'
    BY <1>1, <1>2 DEF docVars, CloudInv, CopyTrue, Tried
  <1>3. CASE CloudNext /\ UNCHANGED rowVars
    BY <1>1, <1>3, CloudStep DEF CompletionInv, rowVars, CompletionTypes
  <1>4. ASSUME NEW t \in CTasks, FileChanges(t) PROVE CompletionInv'
    <2>1. file' \in [CTasks -> 0..1]
      BY <1>1, <1>4 DEF FileChanges, CompletionTypes
    <2> QED
      BY <1>1, <1>2, <1>4, <2>1 DEF FileChanges, CompletionTypes, CompletionInv
  <1>5. ASSUME NEW t \in CTasks, NEW k \in {"completion", "recovery"}, NEW o \in Outcomes, Notify(t, k, o)
        PROVE  CompletionInv'
    BY <1>1, <1>2, <1>5, NotifyRows DEF CompletionTypes, CompletionInv
  <1>6. ASSUME NEW c \in Claims, Claim(c) PROVE CompletionInv'
    BY <1>1, <1>2, <1>6, ClaimRows DEF CompletionTypes, CompletionInv
  <1>7. ASSUME NEW c \in Claims, ClaimExpires(c) PROVE CompletionInv'
    BY <1>1, <1>2, <1>7, ExpiresRows DEF CompletionTypes, CompletionInv
  <1>8. ASSUME NEW c \in Claims, AckBegin(c) PROVE CompletionInv'
    <2>1. acks' \in [Claims -> AckRecords]
      BY <1>1, <1>8, AckBeginIs
    <2> QED
      BY <1>1, <1>2, <1>8, <2>1 DEF AckBegin, CompletionTypes, CompletionInv
  <1>9. ASSUME NEW c \in Claims, ApplyStep(c) PROVE CompletionInv'
    <2>1. CloudInv' /\ UNCHANGED <<rows, file>>
      BY <1>1, <1>9, ApplyKeeps DEF ApplyStep
    <2>2. acks' \in [Claims -> AckRecords]
      BY <1>1, <1>9, ApplyKeeps, ApplyIs, Zenon
    <2> QED
      BY <1>1, <2>1, <2>2 DEF CompletionTypes, CompletionInv
  <1>10. ASSUME NEW c \in Claims, AckEnd(c) PROVE CompletionInv'
    <2>1. /\ rows' \in [Ids -> RowRecords] /\ acks' = [acks EXCEPT ![c] = NoAck]
          /\ UNCHANGED <<docVars, file>>
      BY <1>1, <1>10, AckEndRows
    <2>2. acks' \in [Claims -> AckRecords]
      BY <1>1, <2>1, RowsAndAcks DEF CompletionTypes
    <2> QED
      BY <1>1, <1>2, <2>1, <2>2 DEF CompletionTypes, CompletionInv
  <1>11. CASE HubEnds
    <2>1. creq' = [p \in Callers |-> Free] /\ UNCHANGED <<doc, prompts>> /\ UNCHANGED <<rows, file>>
          /\ acks' = [c \in Claims |-> NoAck]
      BY <1>11 DEF HubEnds
    <2>2. acks' \in [Claims -> AckRecords]
      BY <2>1, RowsAndAcks
    <2>3. CloudInv'
      BY <1>1, <2>1, EndsKeep
    <2> QED
      BY <1>1, <2>1, <2>2, <2>3 DEF CompletionTypes, CompletionInv
  <1>12. CASE UNCHANGED ccVars
    BY <1>1, <1>2, <1>12 DEF ccVars, CompletionTypes, CompletionInv
  <1> QED
    BY <1>3, <1>4, <1>5, <1>6, <1>7, <1>8, <1>9, <1>10, <1>11, <1>12 DEF CompletionNext, CompletionStep

\* The first state.
LEMMA CompletionFirst ==
    ASSUME CloudInit, CompletionInit
    PROVE  CompletionInv /\ RecordInv
  <1>1. CloudInv
    BY CloudFirst
  <1>2. CompletionTypes
    <2>1. NoRow \in RowRecords /\ NoAck \in AckRecords
      BY RowsAndAcks
    <2>2. rows \in [Ids -> RowRecords]
      BY <2>1 DEF CompletionInit
    <2>3. acks \in [Claims -> AckRecords]
      BY <2>1 DEF CompletionInit
    <2>4. file \in [CTasks -> 0..1]
      BY DEF CompletionInit
    <2> QED
      BY <2>2, <2>3, <2>4 DEF CompletionTypes
  <1>3. RecordInv
    <2>1. \A i \in Ids : rows[i].state = "none"
      BY RowsAndAcks DEF CompletionInit
    <2>2. \A c \in Claims : acks[c].step = "idle"
      BY RowsAndAcks DEF CompletionInit
    <2> QED
      BY <2>1, <2>2 DEF RecordInv, RowTrue, BatchTrue
  <1> QED
    BY <1>1, <1>2, <1>3 DEF CompletionInv

\* A prompt is on record at most once: a CHAT that stalled is told to continue
\* at most once until it is seen to go on
\* (cloudCollaborationContinueChat saves the attempt before it calls the Node).
THEOREM ContinuesOnce == CompletionSpec => []ContinueOnce
  <1>1. CloudInit /\ CompletionInit => CompletionInv
    BY CompletionFirst
  <1>2. CompletionInv /\ [CompletionNext]_ccVars => CompletionInv'
    BY CompletionStepKeeps
  <1>3. CompletionInv => ContinueOnce
    BY DEF CompletionInv, CloudInv, ContinueOnce
  <1> QED
    BY <1>1, <1>2, <1>3, PTL DEF CompletionSpec

\* A task of a collaboration is done on the evidence of an acknowledged result,
\* or with the deletion that the controller approved: whatever copy a request
\* saved, and whichever of its results was late.
THEOREM DoneByEvidence == CompletionSpec => []DoneHasEvidence
  <1>1. CloudInit /\ CompletionInit => CompletionInv
    BY CompletionFirst
  <1>2. CompletionInv /\ [CompletionNext]_ccVars => CompletionInv'
    BY CompletionStepKeeps
  <1>3. CompletionInv => DoneHasEvidence
    BY DEF CompletionInv, CloudInv, DocTrue, Proven, DoneHasEvidence
  <1> QED
    BY <1>1, <1>2, <1>3, PTL DEF CompletionSpec

\* Rows that stay or are pending, and results that stay, change nothing for
\* the batches that go on as they are.
LEMMA RecordStays ==
    ASSUME RecordInv, NEW c \in Claims,
           \A n \in CTasks \X Gens : Recorded(n) => Recorded(n)',
           \A i \in Ids : \/ SameRow(i) \/ LooseRow(i)
                          \/ rows'[i].state = rows[i].state /\ rows'[i].claim = rows[i].claim,
           acks'[c].step = "apply" => acks[c].step = "apply" /\ acks'[c].left = acks[c].left
    PROVE  (\A i \in Ids : RowTrue(i)') /\ BatchTrue(c)'
  <1>1. ASSUME NEW i \in Ids
        PROVE  /\ Note(i) \in CTasks \X Gens /\ Note(i)' = Note(i)
               /\ rows'[i].state \in {"acked", "claimed"} =>
                     rows'[i].state = rows[i].state /\ rows'[i].claim = rows[i].claim
    BY IdParts DEF SameRow, LooseRow, Note
  <1>2. ASSUME NEW i \in Ids PROVE RowTrue(i)'
    BY <1>1 DEF RecordInv, RowTrue
  <1>3. BatchTrue(c)'
    BY <1>1 DEF RecordInv, BatchTrue
  <1> QED
    BY <1>2, <1>3

\* The rows and the batches, step by step.
LEMMA RecordStepKeeps ==
    ASSUME "reclaim" \notin AckFaults, CompletionInv, RecordInv, [CompletionNext]_ccVars
    PROVE  RecordInv'
  <1>1. CloudInv /\ CompletionTypes /\ DocTrue(doc)
    BY DEF CompletionInv, CloudInv
  <1>2. ASSUME doc'.notice = doc.notice, UNCHANGED acks,
               \A i \in Ids : \/ SameRow(i) \/ LooseRow(i)
                              \/ rows'[i].state = rows[i].state /\ rows'[i].claim = rows[i].claim
        PROVE  RecordInv'
    <2>1. \A n \in CTasks \X Gens : Recorded(n) => Recorded(n)'
      BY <1>2 DEF Recorded
    <2>2. ASSUME NEW c \in Claims PROVE BatchTrue(c)'
      BY <1>2, <2>1, RecordStays
    <2>3. ASSUME NEW i \in Ids PROVE RowTrue(i)'
      BY <1>2, <2>1, IdParts DEF RecordInv, RowTrue, SameRow, LooseRow, Note
    <2> QED
      BY <2>2, <2>3 DEF RecordInv
  <1>3. CASE CloudNext /\ UNCHANGED rowVars
    <2>1. doc'.notice = doc.notice
      BY <1>1, <1>3, CloudStep
    <2> QED
      BY <1>2, <1>3, <2>1 DEF rowVars, SameRow
  <1>4. CASE UNCHANGED ccVars \/ \E t \in CTasks : FileChanges(t)
    BY <1>2, <1>4 DEF FileChanges, ccVars, docVars, SameRow
  <1>5. ASSUME NEW t \in CTasks, NEW k \in {"completion", "recovery"}, NEW o \in Outcomes, Notify(t, k, o)
        PROVE  RecordInv'
    BY <1>1, <1>2, <1>5, NotifyRows DEF docVars
  <1>6. ASSUME NEW c \in Claims, Claim(c) PROVE RecordInv'
    <2>1. /\ \A i \in Ids : \/ SameRow(i) \/ LooseRow(i)
                            \/ rows'[i].state = "claimed" /\ rows'[i].claim = c
          /\ acks' = acks /\ doc' = doc
      BY <1>1, <1>6, ClaimRows DEF docVars
    <2>2. acks[c].step # "apply"
      BY <1>6 DEF Claim
    <2>3. ASSUME NEW i \in Ids PROVE RowTrue(i)'
      BY <2>1 DEF RecordInv, RowTrue, SameRow, LooseRow, Recorded, Note
    <2>4. ASSUME NEW o \in Claims PROVE BatchTrue(o)'
      BY <2>1, <2>2 DEF RecordInv, BatchTrue, SameRow, LooseRow, Recorded, Note
    <2> QED
      BY <2>3, <2>4 DEF RecordInv
  <1>7. ASSUME NEW c \in Claims, ClaimExpires(c) PROVE RecordInv'
    BY <1>1, <1>2, <1>7, ExpiresRows DEF docVars
  <1>8. ASSUME NEW c \in Claims, AckBegin(c) PROVE RecordInv'
    <2>1. acks'[c].left = Of(c) /\ (\A o \in Claims : o # c => acks'[o] = acks[o])
          /\ rows' = rows /\ doc' = doc
      BY <1>1, <1>8, AckBeginIs DEF AckBegin, docVars
    <2>2. ASSUME NEW i \in Ids PROVE RowTrue(i)'
      BY <2>1 DEF RecordInv, RowTrue, Recorded, Note
    <2>3. ASSUME NEW o \in Claims PROVE BatchTrue(o)'
      <3>1. CASE o = c
        BY <2>1, <3>1 DEF BatchTrue, Of
      <3>2. CASE o # c
        BY <2>1, <3>2 DEF RecordInv, BatchTrue, Recorded, Note
      <3> QED
        BY <3>1, <3>2
    <2> QED
      BY <2>2, <2>3 DEF RecordInv
  <1>9. ASSUME NEW c \in Claims, ApplyStep(c) PROVE RecordInv'
    <2>1. /\ \A n \in CTasks \X Gens : Recorded(n) => Recorded(n)'
          /\ rows' = rows
      BY <1>1, <1>9, ApplyKeeps DEF ApplyStep
    <2>2. PICK i \in acks[c].left :
             /\ i[1] = "completion" /\ acks'[c].step = "apply" => Recorded(Note(i))'
             /\ acks'[c].step = "apply" => acks[c].step = "apply" /\ acks'[c].left = acks[c].left \ {i}
             /\ \A o \in Claims : o # c => acks'[o] = acks[o]
      BY <1>1, <1>9, ApplyKeeps, ApplyIs, Zenon
    <2>3. ASSUME NEW j \in Ids PROVE RowTrue(j)'
      BY <2>1, IdParts DEF RecordInv, RowTrue, Note
    <2>4. ASSUME NEW o \in Claims PROVE BatchTrue(o)'
      <3>1. CASE o = c
        <4> SUFFICES ASSUME acks'[c].step = "apply", NEW j \in Ids,
                            rows[j].state = "claimed", rows[j].claim = c, j[1] = "completion",
                            j \notin acks'[c].left
                     PROVE  Recorded(Note(j))'
          BY <2>1, <3>1 DEF BatchTrue
        <4>1. CASE j = i
          BY <2>2, <4>1
        <4>2. CASE j # i
          <5>1. j \notin acks[c].left /\ acks[c].step = "apply"
            BY <2>2, <4>2
          <5>2. Recorded(Note(j)) /\ Note(j) \in CTasks \X Gens /\ Note(j)' = Note(j)
            BY <5>1, IdParts DEF RecordInv, BatchTrue, Note
          <5> QED
            BY <2>1, <5>2
        <4> QED
          BY <4>1, <4>2
      <3>2. CASE o # c
        BY <2>1, <2>2, <3>2, IdParts DEF RecordInv, BatchTrue, Note
      <3> QED
        BY <3>1, <3>2
    <2> QED
      BY <2>3, <2>4 DEF RecordInv
  <1>10. ASSUME NEW c \in Claims, AckEnd(c) PROVE RecordInv'
    <2>1. /\ \A i \in Ids : /\ rows'[i].claim = rows[i].claim
                            /\ rows'[i].state = IF rows[i].state = "claimed" /\ rows[i].claim = c
                                                THEN "acked" ELSE rows[i].state
          /\ acks' = [acks EXCEPT ![c] = NoAck]
          /\ acks[c].step = "apply" /\ acks[c].left = {} /\ doc' = doc
      BY <1>1, <1>10, AckEndRows DEF docVars
    <2>2. acks'[c].step = "idle" /\ \A o \in Claims : o # c => acks'[o] = acks[o]
      BY <1>1, <2>1, RowsAndAcks DEF CompletionTypes
    <2>3. ASSUME NEW i \in Ids PROVE RowTrue(i)'
      <3>1. CASE rows[i].state = "claimed" /\ rows[i].claim = c
        BY <2>1, <3>1 DEF RecordInv, BatchTrue, RowTrue, Recorded, Note
      <3>2. CASE ~(rows[i].state = "claimed" /\ rows[i].claim = c)
        BY <2>1, <3>2 DEF RecordInv, RowTrue, Recorded, Note
      <3> QED
        BY <3>1, <3>2
    <2>4. ASSUME NEW o \in Claims PROVE BatchTrue(o)'
      <3>1. CASE o = c
        BY <2>2, <3>1 DEF BatchTrue
      <3>2. CASE o # c
        BY <2>1, <2>2, <3>2 DEF RecordInv, BatchTrue, Recorded, Note
      <3> QED
        BY <3>1, <3>2
    <2> QED
      BY <2>3, <2>4 DEF RecordInv
  <1>11. CASE HubEnds
    <2>1. \A c \in Claims : acks'[c].step = "idle"
      BY <1>11, RowsAndAcks DEF HubEnds
    <2>2. rows' = rows /\ doc' = doc
      BY <1>11 DEF HubEnds
    <2> QED
      BY <2>1, <2>2 DEF RecordInv, RowTrue, BatchTrue, Recorded, Note
  <1> QED
    BY <1>3, <1>4, <1>5, <1>6, <1>7, <1>8, <1>9, <1>10, <1>11 DEF CompletionNext, CompletionStep

\* A completion whose notification is acknowledged is in its document, if no
\* claim is asked for again while it is acknowledged: whatever ran out, was
\* retried or ended with the Hub on the way (AcknowledgeCloudCompletionClaim
\* marks every row of the claim, and the batch has recorded each of them).
THEOREM AcksAreRecorded ==
    ASSUME "reclaim" \notin AckFaults
    PROVE  CompletionSpec => []AckedIsRecorded
  <1>1. CloudInit /\ CompletionInit => CompletionInv /\ RecordInv
    BY CompletionFirst
  <1>2. CompletionInv /\ RecordInv /\ [CompletionNext]_ccVars => (CompletionInv /\ RecordInv)'
    BY CompletionStepKeeps, RecordStepKeeps
  <1>3. CompletionInv /\ RecordInv => AckedIsRecorded
    BY DEF RecordInv, RowTrue, AckedIsRecorded, Recorded
  <1> QED
    BY <1>1, <1>2, <1>3, PTL DEF CompletionSpec
=============================================================================
