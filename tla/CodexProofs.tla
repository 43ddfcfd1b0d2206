------------------------------ MODULE CodexProofs ------------------------------
(***************************************************************************)
(* The proofs that the Codex adapter is sound, for any number of callers,  *)
(* threads, processes, requests, turns and questions.  The actions are     *)
(* first grouped by what they do (CodexStep), and each part of the         *)
(* invariant is kept by every group:                                       *)
(*   BaseInv      types, who has the lock of a thread, who holds           *)
(*                startGate, what is in the standard streams;              *)
(*   RequestInv   whose requests are registered, and who waits;            *)
(*   QuestionInv  who may still answer a question;                         *)
(*   TurnInv      what goes on in a thread is recorded, or its caller      *)
(*                waits.  It holds as long as no caller is cancelled.      *)
(***************************************************************************)
EXTENDS CodexAdapter, FiniteSetTheorems, SequenceTheorems, TLAPS

-----------------------------------------------------------------------------
(***************************************************************************)
(* Types, and what a step of a goroutine does to what                      *)
(* the goroutines do.                                                      *)
(***************************************************************************)
ThreadsOrNone == CThreads \cup {NoThread}
TurnNos == 0..MaxTurns
CodexSteps == {"idle", "gate", "publish", "hello", "init", "send", "wait", "unload", "target",
               "respond", "responded"}
CallRows == [op : COps, step : CodexSteps, rpc : CRpcs, s : ThreadsOrNone, id : Nat, gen : Nat,
             turn : TurnNos]
Requests == [id : Nat, rpc : CRpcs, s : ThreadsOrNone, turn : TurnNos]
MessageKinds == {"answer", "started", "completed", "ask", "resolved", "config"}
MessageResults == {"", "none", "ok", "error", "missing", "early", "exited"}
Messages == [kind : MessageKinds, n : Nat, turn : TurnNos, result : MessageResults]
AnswerResults == CResults \ {"none"}
Replies == [result : CResults, turn : TurnNos]
TurnRows == [s : ThreadsOrNone, gen : Nat, state : {"none", "running", "ended", "lost"}]
ProcStates == {"none", "live", "closing", "dead", "reaped"}
CodexRows == [gen : 0..MaxServers, cur : BOOLEAN, quarantined : BOOLEAN, configErr : BOOLEAN,
              closed : BOOLEAN, gate : Users \cup {NoUser}, nextID : 0..MaxRequests]

CodexTypes ==
    /\ codex \in CodexRows /\ proc \in [Servers -> ProcStates]
    /\ inbox \in [Servers -> SUBSET Requests] /\ pipe \in [Servers -> Seq(Messages)]
    /\ pend \in [ReqIds -> Nat] /\ reply \in [ReqIds -> Replies]
    /\ active \in [CThreads -> [turn : TurnNos, gen : Nat]]
    /\ waiting \in [Questions -> [gen : Nat, turn : TurnNos, responding : BOOLEAN]]
    /\ tlock \in [CThreads -> Users \cup {NoUser}]
    /\ ccall \in [Users -> CallRows] /\ turns \in [Turns -> TurnRows]
    /\ posed \in [Servers -> Nat] /\ answers \in [Servers -> [Questions -> Nat]]

\* Only u goes on.
OnlyCall(u) == ccall' \in [Users -> CallRows] /\ \A v \in Users \ {u} : ccall'[v] = ccall[v]

\* What u does changes in its step and its request only.
Same(u, step, r) ==
    LET c == ccall[u] d == ccall'[u] IN
    /\ d.step = step /\ d.rpc = r /\ d.op = c.op /\ d.s = c.s /\ d.id = c.id /\ d.gen = c.gen
    /\ d.turn = c.turn

\* To.
LEMMA ToRow ==
    ASSUME CodexTypes, NEW u \in Users, NEW step \in CodexSteps, To(u, step)
    PROVE  OnlyCall(u) /\ Same(u, step, ccall[u].rpc)
<1>1. ccall \in [Users -> CallRows] /\ ccall[u] \in CallRows
  BY DEF CodexTypes
<1> DEFINE x == [ccall[u] EXCEPT !.step = step]
<1>2. /\ x \in CallRows /\ x.step = step /\ x.rpc = ccall[u].rpc /\ x.op = ccall[u].op
      /\ x.s = ccall[u].s /\ x.id = ccall[u].id /\ x.gen = ccall[u].gen /\ x.turn = ccall[u].turn
  BY <1>1 DEF CallRows
<1>3. ccall' = [ccall EXCEPT ![u] = x]
  BY <1>1 DEF To
<1> HIDE DEF x
<1> QED
  BY <1>1, <1>2, <1>3 DEF OnlyCall, Same

\* Ask.
LEMMA AskRow ==
    ASSUME CodexTypes, NEW u \in Users, NEW r \in CRpcs, Ask(u, r)
    PROVE  OnlyCall(u) /\ Same(u, "gate", r)
<1>1. ccall \in [Users -> CallRows] /\ ccall[u] \in CallRows
  BY DEF CodexTypes
<1> DEFINE x == [ccall[u] EXCEPT !.step = "gate", !.rpc = r]
<1>2. /\ x \in CallRows /\ x.step = "gate" /\ x.rpc = r /\ x.op = ccall[u].op
      /\ x.s = ccall[u].s /\ x.id = ccall[u].id /\ x.gen = ccall[u].gen /\ x.turn = ccall[u].turn
  BY <1>1 DEF CallRows, CodexSteps
<1>3. ccall' = [ccall EXCEPT ![u] = x]
  BY <1>1 DEF Ask
<1> HIDE DEF x
<1> QED
  BY <1>1, <1>2, <1>3 DEF OnlyCall, Same

\* A call at rest.
LEMMA IdleRow == IdleCall \in CallRows /\ IdleCall.step = "idle" /\ IdleCall.rpc = "none"
                 /\ IdleCall.op = "none"
BY CodexAssumption DEF IdleCall, CallRows, COps, CodexSteps, CRpcs, ThreadsOrNone, TurnNos

\* Returns.
LEMMA ReturnsRow ==
    ASSUME CodexTypes, NEW u \in Users, Returns(u)
    PROVE  /\ OnlyCall(u) /\ ccall'[u] = IdleCall
           /\ tlock' \in [CThreads -> Users \cup {NoUser}]
           /\ \A s \in CThreads : tlock'[s] = IF tlock[s] = u THEN NoUser ELSE tlock[s]
<1>1. ccall \in [Users -> CallRows] /\ tlock \in [CThreads -> Users \cup {NoUser}]
  BY DEF CodexTypes
<1>2. OnlyCall(u) /\ ccall'[u] = IdleCall
  BY <1>1, IdleRow DEF Returns, OnlyCall
<1> QED
  BY <1>1, <1>2 DEF Returns

\* A call begins, for a turn or for none.
Begins(u, op, s, r) ==
    ccall' = [ccall EXCEPT ![u] = [New(op, s) EXCEPT !.step = "gate", !.rpc = r]]
BeginsFor(u, op, s, r, t) ==
    ccall' = [ccall EXCEPT ![u] = [New(op, s) EXCEPT !.step = "gate", !.rpc = r, !.turn = t]]

\* A call that begins.
LEMMA NewRow ==
    ASSUME CodexTypes, NEW u \in Users, NEW op \in COps, NEW s \in ThreadsOrNone,
           NEW r \in CRpcs, NEW t \in TurnNos,
           BeginsFor(u, op, s, r, t) \/ (Begins(u, op, s, r) /\ t = 0)
    PROVE  /\ OnlyCall(u) /\ ccall'[u].op = op /\ ccall'[u].step = "gate" /\ ccall'[u].rpc = r
           /\ ccall'[u].s = s /\ ccall'[u].turn = t
<1>1. ccall \in [Users -> CallRows]
  BY DEF CodexTypes
<1> DEFINE x == [New(op, s) EXCEPT !.step = "gate", !.rpc = r, !.turn = t]
<1>2. New(op, s) \in CallRows /\ New(op, s).op = op /\ New(op, s).s = s /\ New(op, s).turn = 0
  BY IdleRow DEF New, CallRows, IdleCall
<1>3. [New(op, s) EXCEPT !.step = "gate", !.rpc = r] = [[New(op, s) EXCEPT !.step = "gate", !.rpc = r] EXCEPT !.turn = 0]
  <2> DEFINE n == New(op, s)
             y == [n EXCEPT !.step = "gate", !.rpc = r]
  <2> HIDE DEF n
  <2>1. y.turn = 0 /\ y \in CallRows
    BY <1>2 DEF CallRows, CodexSteps, n
  <2> QED
    BY <2>1 DEF CallRows, n
<1>4. /\ x \in CallRows /\ x.op = op /\ x.step = "gate" /\ x.rpc = r /\ x.s = s /\ x.turn = t
  <2> DEFINE n == New(op, s)
  <2> HIDE DEF n
  <2> QED
    BY <1>2 DEF CallRows, CodexSteps, n
<1>5. ccall' = [ccall EXCEPT ![u] = x]
  <2> DEFINE n == New(op, s)
  <2> HIDE DEF n
  <2> QED
    BY <1>3 DEF n, Begins, BeginsFor
<1> HIDE DEF x
<1> QED
  BY <1>1, <1>4, <1>5 DEF OnlyCall

-----------------------------------------------------------------------------
(***************************************************************************)
(* Who has the lock of a thread.                                           *)
(***************************************************************************)
LocksThread(u) == ccall[u].op = "turn" \/ (ccall[u].op = "steer" /\ ccall[u].rpc = "resume")

LocksTrue ==
    \A u \in Users : /\ ccall[u].rpc = "turn" => ccall[u].op = "turn"
                     /\ LocksThread(u) => ccall[u].s \in CThreads /\ tlock[ccall[u].s] = u
                     /\ ccall[u].rpc = "interrupt" => ccall[u].turn \in Turns
                     /\ ccall[u].op = "steer" => ccall[u].rpc \in {"query", "resume"}
                     /\ ccall[u].step \in {"unload", "target"} => ccall[u].op = "unload"

LocksKept(u) == \A v \in Users \ {u}, s \in CThreads : tlock[s] = v => tlock'[s] = v

\* A goroutine that waits for the answer of turn/start.
Starting(u) == ccall[u].step = "wait" /\ ccall[u].rpc = "turn"

\* A step of a call that asks for nothing yet: the adapter keeps its process and
\* its requests, and a turn begins with the lock of a thread that has none.
CallGoesOn(u) ==
    /\ UNCHANGED <<codex, proc, inbox, pipe, turns, posed, pend, reply, waiting, answers>>
    /\ OnlyCall(u) /\ LocksKept(u) /\ tlock' \in [CThreads -> Users \cup {NoUser}]
    /\ ccall[u].step \in {"idle", "wait", "unload"} /\ ccall'[u].step \in {"idle", "gate", "target"}
    /\ ccall'[u].rpc = "turn" => ccall'[u].op = "turn"
    /\ LocksThread(u)' => ccall'[u].s \in CThreads /\ tlock'[ccall'[u].s] = u
    /\ ccall'[u].rpc = "interrupt" => ccall'[u].turn \in Turns
    /\ ccall'[u].op = "steer" => ccall'[u].rpc \in {"query", "resume"}
    /\ ccall'[u].step = "target" => ccall'[u].op = "unload"
    /\ ccall'[u].op = "turn" =>
           \/ ccall[u].op = "turn" /\ ccall'[u].s = ccall[u].s /\ ~Starting(u)
           \/ active[ccall'[u].s].turn = 0 /\ tlock[ccall'[u].s] = NoUser
    /\ (active' = active /\ ~Starting(u)) \/ TurnStarted(u)

\* ensureThreadLoadedLocked begins a call.
LEMMA LoadRow ==
    ASSUME CodexTypes, NEW u \in Users, NEW op \in COps, NEW s \in CThreads, NEW r \in CRpcs,
           EnsureThreadLoadedLocked(u, op, s, r)
    PROVE  /\ OnlyCall(u) /\ ccall'[u].op = op /\ ccall'[u].step = "gate"
           /\ ccall'[u].rpc \in {r, "resume"} /\ ccall'[u].s = s
<1> DEFINE x == IF loaded[s] = codex.gen /\ codex.gen > 0 THEN r ELSE "resume"
<1>1. x \in CRpcs /\ x \in {r, "resume"}
  BY DEF CRpcs
<1> HIDE DEF x
<1>2. Begins(u, op, s, x)
  BY DEF EnsureThreadLoadedLocked, Begins, x
<1>3. "gate" \in CodexSteps /\ s \in ThreadsOrNone /\ 0 \in TurnNos
  BY CodexAssumption DEF CodexSteps, ThreadsOrNone, TurnNos
<1> QED
  BY <1>1, <1>2, <1>3, NewRow

\* Query needs no thread.
LEMMA QueryBegins ==
    ASSUME CodexTypes, LocksTrue, NEW u \in CCallers, Query(u)
    PROVE  CallGoesOn(u)
<1>1. u \in Users /\ NoThread \in ThreadsOrNone /\ 0 \in TurnNos /\ "query" \in COps /\ "query" \in CRpcs
  BY CodexAssumption DEF Users, ThreadsOrNone, TurnNos, COps, CRpcs
<1>2. /\ UNCHANGED <<codex, proc, inbox, pipe, turns, posed, pend, reply, waiting, answers, active, tlock>>
      /\ ccall[u].step = "idle" /\ Begins(u, "query", NoThread, "query")
  BY DEF Query, serverVars, adapterVars, Idle, At, Begins
<1>3. OnlyCall(u) /\ ccall'[u].op = "query" /\ ccall'[u].step = "gate" /\ ccall'[u].rpc = "query"
  BY <1>1, <1>2, NewRow
<1>4. LocksKept(u) /\ tlock' \in [CThreads -> Users \cup {NoUser}]
  BY <1>2 DEF LocksKept, CodexTypes
<1> QED
  BY <1>2, <1>3, <1>4 DEF CallGoesOn, LocksThread, Starting

\* A call begins.
LEMMA CallBegins ==
    ASSUME CodexTypes, LocksTrue, NEW u \in CCallers, NEW s \in CThreads,
           CodexCalls(u, s)
    PROVE  CallGoesOn(u)
<1>1. u \in Users /\ NoUser \notin Users
  BY CodexAssumption DEF Users
<1>2. /\ UNCHANGED <<codex, proc, inbox, pipe, turns, posed, pend, reply, waiting, answers, active>>
      /\ ccall[u].step = "idle"
  BY DEF CodexCalls, StartCodexTurn, SteerTurn, StartThread, InterruptTurn, ArchiveThread,
     UnarchiveThread, DeleteThread, serverVars, adapterVars, Idle, At
<1>3. ~Starting(u)
  BY <1>2 DEF Starting
<1>4. tlock \in [CThreads -> Users \cup {NoUser}] /\ active[s].turn \in TurnNos
  BY DEF CodexTypes
<1>5. ASSUME Locks(u, s)
      PROVE  /\ LocksKept(u) /\ tlock' \in [CThreads -> Users \cup {NoUser}] /\ tlock'[s] = u
             /\ tlock[s] = NoUser
  BY <1>1, <1>4, <1>5 DEF Locks, LocksKept
<1>6. "gate" \in CodexSteps /\ s \in ThreadsOrNone /\ NoThread \in ThreadsOrNone /\ 0 \in TurnNos
  BY CodexAssumption DEF CodexSteps, ThreadsOrNone, TurnNos
<1>7. ASSUME StartCodexTurn(u, s) PROVE CallGoesOn(u)
  <2>1. /\ OnlyCall(u) /\ ccall'[u].op = "turn" /\ ccall'[u].step = "gate"
        /\ ccall'[u].rpc \in {"turn", "resume"} /\ ccall'[u].s = s
    BY <1>1, <1>7, LoadRow DEF StartCodexTurn, COps, CRpcs
  <2>2. Locks(u, s) /\ active[s].turn = 0
    BY <1>7 DEF StartCodexTurn
  <2> QED
    BY <1>2, <1>3, <1>5, <2>1, <2>2 DEF CallGoesOn, LocksThread
<1>8. ASSUME SteerTurn(u, s) PROVE CallGoesOn(u)
  <2>1. /\ OnlyCall(u) /\ ccall'[u].op = "steer" /\ ccall'[u].step = "gate"
        /\ ccall'[u].rpc \in {"query", "resume"} /\ ccall'[u].s = s
    BY <1>1, <1>8, LoadRow DEF SteerTurn, COps, CRpcs
  <2>2. /\ tlock[s] = NoUser
        /\ tlock' = [tlock EXCEPT ![s] = IF ccall'[u].rpc = "resume" THEN u ELSE @]
    BY <1>8 DEF SteerTurn
  <2>3. LocksKept(u) /\ tlock' \in [CThreads -> Users \cup {NoUser}]
    BY <1>1, <1>4, <2>2 DEF LocksKept
  <2>4. ccall'[u].rpc = "resume" => tlock'[s] = u
    BY <1>4, <2>2
  <2> QED
    BY <1>2, <1>3, <2>1, <2>3, <2>4 DEF CallGoesOn, LocksThread
<1>9. ASSUME ArchiveThread(u, s) PROVE CallGoesOn(u)
  <2>1. /\ OnlyCall(u) /\ ccall'[u].op = "archive" /\ ccall'[u].step = "gate"
        /\ ccall'[u].rpc \in {"archive", "resume"} /\ ccall'[u].s = s
    BY <1>1, <1>9, LoadRow DEF ArchiveThread, COps, CRpcs
  <2>2. Locks(u, s)
    BY <1>9 DEF ArchiveThread
  <2> QED
    BY <1>2, <1>3, <1>5, <2>1, <2>2 DEF CallGoesOn, LocksThread
<1>10. ASSUME NEW op \in {"create", "unarchive", "delete"}, NEW r \in {"thread", "unarchive", "delete"},
              Locks(u, s) \/ UNCHANGED tlock,
              Begins(u, op, s, r)
       PROVE  CallGoesOn(u)
  <2>1. op \in COps /\ r \in CRpcs
    BY DEF COps, CRpcs
  <2>3. OnlyCall(u) /\ ccall'[u].op = op /\ ccall'[u].step = "gate" /\ ccall'[u].rpc = r
    BY <1>1, <1>6, <1>10, <2>1, NewRow
  <2>4. LocksKept(u) /\ tlock' \in [CThreads -> Users \cup {NoUser}]
    BY <1>4, <1>5, <1>10 DEF LocksKept
  <2> QED
    BY <1>2, <1>3, <2>3, <2>4 DEF CallGoesOn, LocksThread
<1>11. ASSUME InterruptTurn(u, s) PROVE CallGoesOn(u)
  <2>1. "interrupt" \in COps /\ "interrupt" \in CRpcs
    BY DEF COps, CRpcs
  <2>2. BeginsFor(u, "interrupt", s, "interrupt", active[s].turn)
    BY <1>11 DEF InterruptTurn, BeginsFor
  <2>3. /\ OnlyCall(u) /\ ccall'[u].op = "interrupt" /\ ccall'[u].step = "gate"
        /\ ccall'[u].rpc = "interrupt" /\ ccall'[u].turn = active[s].turn
    BY <1>1, <1>4, <1>6, <2>1, <2>2, NewRow
  <2>4. active[s].turn \in Turns
    BY <1>4, <1>11, CodexAssumption DEF InterruptTurn, TurnNos, Turns
  <2>5. UNCHANGED tlock
    BY <1>11 DEF InterruptTurn
  <2> QED
    BY <1>2, <1>3, <1>4, <2>3, <2>4, <2>5 DEF CallGoesOn, LocksThread, LocksKept
<1>12. ASSUME StartThread(u, s) \/ UnarchiveThread(u, s) \/ DeleteThread(u, s)
       PROVE  CallGoesOn(u)
  <2>2. CASE StartThread(u, s)
    BY <1>10, <2>2 DEF StartThread, Begins
  <2>3. CASE UnarchiveThread(u, s)
    BY <1>10, <2>3 DEF UnarchiveThread, Begins
  <2>4. CASE DeleteThread(u, s)
    BY <1>10, <2>4 DEF DeleteThread, Begins
  <2> QED
    BY <1>12, <2>2, <2>3, <2>4
<1> QED
  BY <1>7, <1>8, <1>9, <1>11, <1>12 DEF CodexCalls

\* What a call got as an answer.
LEMMA GotMeans ==
    ASSUME NEW u, NEW r, Got(u, r) # "none"
    PROVE  ccall[u].step = "wait" /\ ccall[u].rpc = r /\ Got(u, r) = reply[ccall[u].id].result
BY DEF Got, At

\* A call goes on that has its answer, or an unload begins.
LEMMA CallGoes ==
    ASSUME CodexTypes, LocksTrue, NEW u \in Users,
           \/ TurnStarted(u) \/ ThreadResumed(u) \/ QueryAnswered(u) \/ ThreadStarted(u)
           \/ InterruptAnswered(u) \/ Archived(u) \/ Unarchived(u) \/ Deleted(u)
           \/ UnloadThreadForGeneration(u) \/ Unloaded(u)
    PROVE  CallGoesOn(u)
<1>1. NoUser \notin Users /\ tlock \in [CThreads -> Users \cup {NoUser}] /\ ccall[u] \in CallRows
  BY CodexAssumption DEF CodexTypes
<1>2. UNCHANGED <<codex, proc, inbox, pipe, turns, posed, pend, reply, waiting, answers>>
  BY DEF TurnStarted, ThreadResumed, QueryAnswered, ThreadStarted, InterruptAnswered, Archived,
     Unarchived, Deleted, UnloadThreadForGeneration, Unloaded, serverVars, adapterVars
<1>3. /\ ccall[u].step \in {"wait", "unload"}
      /\ (active' = active /\ ~Starting(u)) \/ TurnStarted(u)
  <2>1. CASE TurnStarted(u)
    BY <2>1, GotMeans DEF TurnStarted
  <2>2. CASE ThreadResumed(u)
    BY <2>2, GotMeans DEF ThreadResumed, Starting
  <2>3. CASE QueryAnswered(u)
    BY <2>3, GotMeans DEF QueryAnswered, Starting, adapterVars
  <2>4. CASE ThreadStarted(u)
    BY <2>4, GotMeans DEF ThreadStarted, Starting
  <2>5. CASE InterruptAnswered(u)
    BY <2>5, GotMeans DEF InterruptAnswered, Starting, adapterVars
  <2>6. CASE Archived(u)
    BY <2>6, GotMeans DEF Archived, Starting, adapterVars
  <2>7. CASE Unarchived(u)
    BY <2>7, GotMeans DEF Unarchived, Starting
  <2>8. CASE Deleted(u)
    BY <2>8, GotMeans DEF Deleted, Starting
  <2>9. CASE UnloadThreadForGeneration(u)
    BY <2>9 DEF UnloadThreadForGeneration, At, Starting, adapterVars
  <2>10. CASE Unloaded(u)
    BY <2>10, GotMeans DEF Unloaded, Starting, adapterVars
  <2> QED
    BY <2>1, <2>2, <2>3, <2>4, <2>5, <2>6, <2>7, <2>8, <2>9, <2>10
<1>4. ASSUME Returns(u) PROVE CallGoesOn(u)
  <2>1. /\ OnlyCall(u) /\ ccall'[u] = IdleCall /\ tlock' \in [CThreads -> Users \cup {NoUser}]
        /\ \A s \in CThreads : tlock'[s] = IF tlock[s] = u THEN NoUser ELSE tlock[s]
    BY <1>4, ReturnsRow
  <2>2. LocksKept(u)
    BY <2>1 DEF LocksKept
  <2> QED
    BY <1>2, <1>3, <2>1, <2>2, IdleRow DEF CallGoesOn, LocksThread
<1>6. ASSUME NEW r \in CRpcs, Ask(u, r), tlock' \in [CThreads -> Users \cup {NoUser}], LocksKept(u),
             ccall[u].op # "turn", ccall[u].op = "steer" => r = "query", r # "turn",
             r = "interrupt" => ccall[u].rpc = "interrupt"
      PROVE  CallGoesOn(u)
  <2>1. OnlyCall(u) /\ Same(u, "gate", r)
    BY <1>6, AskRow
  <2> QED
    BY <1>2, <1>3, <1>6, <2>1 DEF CallGoesOn, LocksThread, LocksTrue, Same
<1>7. UNCHANGED tlock => LocksKept(u) /\ tlock' \in [CThreads -> Users \cup {NoUser}]
  BY <1>1 DEF LocksKept
<1>8. CASE ThreadResumed(u)
  <2>1. CASE ccall[u].op = "turn" /\ Ask(u, "turn") /\ UNCHANGED tlock
    <3>1. OnlyCall(u) /\ Same(u, "gate", "turn") /\ ~Starting(u)
      BY <1>8, <2>1, AskRow, GotMeans DEF CRpcs, ThreadResumed, Starting
    <3> QED
      BY <1>2, <1>3, <1>7, <2>1, <3>1 DEF CallGoesOn, LocksThread, LocksTrue, Same
  <2>2. CASE ccall[u].op = "archive" /\ Ask(u, "archive") /\ UNCHANGED tlock
    BY <1>6, <1>7, <2>2 DEF CRpcs
  <2>3. CASE ccall[u].op = "steer" /\ Ask(u, "query") /\ tlock' = [tlock EXCEPT ![ccall[u].s] = NoUser]
    <3>1. tlock[ccall[u].s] = u
      BY <1>8, <2>3, GotMeans DEF ThreadResumed, LocksTrue, LocksThread
    <3>2. LocksKept(u) /\ tlock' \in [CThreads -> Users \cup {NoUser}]
      BY <1>1, <2>3, <3>1 DEF LocksKept
    <3> QED
      BY <1>6, <2>3, <3>2 DEF CRpcs
  <2>4. CASE Returns(u)
    BY <1>4, <2>4
  <2> QED
    BY <1>8, <2>1, <2>2, <2>3, <2>4 DEF ThreadResumed
<1>9. CASE InterruptAnswered(u)
  <2>1. CASE Ask(u, "interrupt") /\ UNCHANGED tlock
    <3>1. ccall[u].rpc = "interrupt" /\ ~Starting(u)
      BY <1>9, GotMeans DEF InterruptAnswered, Starting
    <3>2. OnlyCall(u) /\ Same(u, "gate", "interrupt")
      BY <2>1, AskRow DEF CRpcs
    <3> QED
      BY <1>2, <1>3, <1>7, <2>1, <3>1, <3>2 DEF CallGoesOn, LocksThread, LocksTrue, Same
  <2>2. CASE Returns(u)
    BY <1>4, <2>2
  <2> QED
    BY <1>9, <2>1, <2>2 DEF InterruptAnswered
<1>10. CASE Archived(u)
  <2>1. CASE Ask(u, "unsubscribe") /\ UNCHANGED tlock
    <3>1. ccall[u].rpc = "archive" /\ ~Starting(u)
      BY <1>10, GotMeans DEF Archived, Starting
    <3>2. OnlyCall(u) /\ Same(u, "gate", "unsubscribe")
      BY <2>1, AskRow DEF CRpcs
    <3> QED
      BY <1>2, <1>3, <1>7, <2>1, <3>1, <3>2 DEF CallGoesOn, LocksThread, LocksTrue, Same
  <2>2. CASE Returns(u)
    BY <1>4, <2>2
  <2> QED
    BY <1>10, <2>1, <2>2 DEF Archived
<1>11. CASE Unarchived(u)
  <2>1. CASE Ask(u, "resume") /\ UNCHANGED tlock
    <3>1. ccall[u].rpc = "unarchive" /\ ~Starting(u)
      BY <1>11, GotMeans DEF Unarchived, Starting
    <3>2. OnlyCall(u) /\ Same(u, "gate", "resume")
      BY <2>1, AskRow DEF CRpcs
    <3> QED
      BY <1>2, <1>3, <1>7, <2>1, <3>1, <3>2 DEF CallGoesOn, LocksThread, LocksTrue, Same
  <2>2. CASE Returns(u)
    BY <1>4, <2>2
  <2> QED
    BY <1>11, <2>1, <2>2 DEF Unarchived
<1>12. CASE UnloadThreadForGeneration(u)
  <2> DEFINE s == ccall[u].s
  <2>1. CASE Locks(u, s) /\ ccall' = [ccall EXCEPT ![u].step = "target", ![u].rpc = "unsubscribe"]
    <3>1. OnlyCall(u) /\ Same(u, "target", "unsubscribe")
      <4> DEFINE x == [ccall[u] EXCEPT !.step = "target", !.rpc = "unsubscribe"]
      <4>1. /\ x \in CallRows /\ x.step = "target" /\ x.rpc = "unsubscribe" /\ x.op = ccall[u].op
            /\ x.s = ccall[u].s /\ x.id = ccall[u].id /\ x.gen = ccall[u].gen
            /\ x.turn = ccall[u].turn
        BY <1>1 DEF CallRows, CodexSteps, CRpcs
      <4>2. ccall' = [ccall EXCEPT ![u] = x] /\ ccall \in [Users -> CallRows]
        BY <2>1 DEF CodexTypes
      <4> HIDE DEF x
      <4> QED
        BY <4>1, <4>2 DEF OnlyCall, Same
    <3>2. LocksKept(u) /\ tlock' \in [CThreads -> Users \cup {NoUser}]
      BY <1>1, <2>1 DEF LocksKept, Locks
    <3>3. ccall[u].op = "turn" => tlock[s] = u
      BY DEF LocksTrue, LocksThread
    <3>4. ~Starting(u) /\ tlock[s] = NoUser /\ ccall[u].op = "unload"
      BY <1>12, <2>1 DEF UnloadThreadForGeneration, At, Starting, Locks, LocksTrue
    <3> QED
      BY <1>1, <1>2, <1>3, <2>1, <3>1, <3>2, <3>3, <3>4 DEF CallGoesOn, LocksThread, Same
  <2>2. CASE Returns(u)
    BY <1>4, <2>2
  <2> QED
    BY <1>12, <2>1, <2>2 DEF UnloadThreadForGeneration
<1> QED
  BY <1>4, <1>8, <1>9, <1>10, <1>11, <1>12
     DEF TurnStarted, QueryAnswered, ThreadStarted, Deleted, Unloaded

-----------------------------------------------------------------------------
(***************************************************************************)
(* What a process has said and the adapter has not read yet.               *)
(***************************************************************************)
Said(g) == {pipe[g][i] : i \in 1..Len(pipe[g])}

\* The process g says the messages of M, the last of which alone need not be an answer.
PipeGrows(g, M) ==
    /\ pipe' \in [Servers -> Seq(Messages)] /\ \A h \in Servers \ {g} : pipe'[h] = pipe[h]
    /\ Said(g)' = Said(g) \cup M
    /\ Len(pipe'[g]) >= Len(pipe[g])
    /\ \A i \in 1..Len(pipe[g]) : pipe'[g][i] = pipe[g][i]
    /\ \A i \in 1..Len(pipe'[g]) : i > Len(pipe[g]) =>
           /\ pipe'[g][i] \in M
           /\ \A j \in 1..Len(pipe'[g]) : j > i => pipe'[g][i].kind = "answer"

\* The first message of g is read.
PipeReads(g) ==
    /\ pipe' \in [Servers -> Seq(Messages)] /\ \A h \in Servers \ {g} : pipe'[h] = pipe[h]
    /\ Len(pipe'[g]) = Len(pipe[g]) - 1
    /\ \A i \in 1..Len(pipe'[g]) : pipe'[g][i] = pipe[g][i + 1]
    /\ Head(pipe[g]) = pipe[g][1] /\ Head(pipe[g]) \in Said(g)
    /\ Said(g)' \subseteq Said(g)

\* The messages are messages.
LEMMA MessageRow ==
    ASSUME NEW kind \in MessageKinds, NEW n \in Nat, NEW t \in TurnNos, NEW r \in MessageResults
    PROVE  /\ Message(kind, n, t, r) \in Messages /\ Message(kind, n, t, r).kind = kind
           /\ Message(kind, n, t, r).n = n /\ Message(kind, n, t, r).turn = t
           /\ Message(kind, n, t, r).result = r
BY DEF Message, Messages

\* One message.
LEMMA SaysOne ==
    ASSUME CodexTypes, NEW g \in Servers, NEW m \in Messages, Says(g, <<m>>)
    PROVE  PipeGrows(g, {m})
<1> DEFINE p == pipe[g]
           q == pipe'[g]
<1>1. p \in Seq(Messages) /\ pipe \in [Servers -> Seq(Messages)]
  BY DEF CodexTypes
<1>2. q = p \o <<m>> /\ \A h \in Servers \ {g} : pipe'[h] = pipe[h]
  BY <1>1 DEF Says
<1>3. q \in Seq(Messages) /\ Len(q) = Len(p) + 1 /\ \A i \in 1..Len(p) : q[i] = p[i]
  BY <1>1, <1>2
<1>4. q[Len(p) + 1] = m
  BY <1>1, <1>2
<1>5. pipe' \in [Servers -> Seq(Messages)]
  BY <1>1, <1>2, <1>3 DEF Says
<1>6. Len(p) \in Nat
  BY <1>1
<1>7. {q[i] : i \in 1..Len(q)} = {p[i] : i \in 1..Len(p)} \cup {m}
  <2> HIDE DEF p, q
  <2>1. ASSUME NEW i \in 1..Len(q) PROVE q[i] \in {p[j] : j \in 1..Len(p)} \cup {m}
    BY <1>3, <1>4, <1>6
  <2>2. ASSUME NEW i \in 1..Len(p) PROVE q[i] = p[i] /\ i \in 1..Len(q)
    BY <1>3, <1>6
  <2>3. m = q[Len(q)] /\ Len(q) \in 1..Len(q)
    BY <1>3, <1>4, <1>6
  <2> QED
    BY <2>1, <2>2, <2>3
<1>8. \A i \in 1..Len(q) : i > Len(p) => q[i] = m /\ ~\E j \in 1..Len(q) : j > i
  <2> HIDE DEF p, q
  <2> QED
    BY <1>3, <1>4, <1>6
<1>9. Len(q) >= Len(p)
  BY <1>3, <1>6
<1> QED
  BY <1>2, <1>3, <1>5, <1>7, <1>8, <1>9 DEF PipeGrows, Said

\* An answer and a notification.
LEMMA SaysTwo ==
    ASSUME CodexTypes, NEW g \in Servers, NEW m \in Messages, NEW n \in Messages,
           Says(g, <<m>> \o <<n>>), m.kind = "answer"
    PROVE  PipeGrows(g, {m, n})
<1> DEFINE p == pipe[g]
           q == pipe'[g]
           w == <<m>> \o <<n>>
<1>0. w \in Seq(Messages) /\ Len(w) = 2 /\ w[1] = m /\ w[2] = n
  <2>1. <<m>> \in Seq(Messages) /\ <<n>> \in Seq(Messages)
    OBVIOUS
  <2> QED
    BY <2>1
<1>1. p \in Seq(Messages) /\ pipe \in [Servers -> Seq(Messages)]
  BY DEF CodexTypes
<1>2. q = p \o w /\ \A h \in Servers \ {g} : pipe'[h] = pipe[h]
  BY <1>1 DEF Says
<1>3. /\ q \in Seq(Messages) /\ Len(q) = Len(p) + 2 /\ \A i \in 1..Len(p) : q[i] = p[i]
      /\ q[Len(p) + 1] = m /\ q[Len(p) + 2] = n
  <2> HIDE DEF w, p, q
  <2>1. p \in Seq(Messages) /\ w \in Seq(Messages) /\ q = p \o w
    BY <1>0, <1>1, <1>2
  <2>2. q \in Seq(Messages) /\ Len(q) = Len(p) + Len(w)
    BY <2>1
  <2>3. \A i \in 1..Len(p) : q[i] = p[i]
    BY <2>1
  <2>4. \A i \in 1..Len(w) : q[Len(p) + i] = w[i]
    BY <2>1, ConcatProperties
  <2> QED
    BY <1>0, <2>2, <2>3, <2>4
<1>4. q[Len(p) + 1] = m /\ q[Len(p) + 2] = n
  BY <1>3
<1>5. pipe' \in [Servers -> Seq(Messages)]
  BY <1>1, <1>2, <1>3 DEF Says
<1>6. Len(p) \in Nat
  BY <1>1
<1>7. {q[i] : i \in 1..Len(q)} = {p[i] : i \in 1..Len(p)} \cup {m, n}
  <2> HIDE DEF p, q
  <2>1. ASSUME NEW i \in 1..Len(q) PROVE q[i] \in {p[j] : j \in 1..Len(p)} \cup {m, n}
    <3>1. i \in 1..Len(p) \/ i = Len(p) + 1 \/ i = Len(p) + 2
      BY <1>3, <1>6
    <3> QED
      BY <1>3, <1>4, <3>1
  <2>2. ASSUME NEW i \in 1..Len(p) PROVE q[i] = p[i] /\ i \in 1..Len(q)
    BY <1>3, <1>6
  <2>3. Len(p) + 1 \in 1..Len(q) /\ Len(p) + 2 \in 1..Len(q)
    BY <1>3, <1>6
  <2> QED
    BY <2>1, <2>2, <2>3, <1>4
<1>8. \A i \in 1..Len(q) : i > Len(p) => q[i] \in {m, n} /\ \A j \in 1..Len(q) : j > i => q[i] = m
  <2> HIDE DEF p, q
  <2> QED
    BY <1>3, <1>4, <1>6
<1>9. Len(q) >= Len(p)
  BY <1>3, <1>6
<1> QED
  BY <1>2, <1>3, <1>5, <1>7, <1>8, <1>9 DEF PipeGrows, Said

\* The reader takes the first message.
LEMMA ReadsOne ==
    ASSUME CodexTypes, NEW g \in Servers, pipe[g] # <<>>, pipe' = [pipe EXCEPT ![g] = Tail(@)]
    PROVE  PipeReads(g)
<1> DEFINE p == pipe[g]
           q == pipe'[g]
<1>1. p \in Seq(Messages) /\ pipe \in [Servers -> Seq(Messages)] /\ p # <<>>
  BY DEF CodexTypes
<1>2. q = Tail(p) /\ \A h \in Servers \ {g} : pipe'[h] = pipe[h]
  BY <1>1
<1>3. q \in Seq(Messages) /\ Len(q) = Len(p) - 1 /\ Head(p) = p[1] /\ Len(p) \in Nat /\ Len(p) > 0
      /\ \A i \in 1..Len(q) : q[i] = p[i + 1]
  BY <1>1, <1>2
<1>5. pipe' \in [Servers -> Seq(Messages)]
  BY <1>1, <1>2, <1>3
<1>6. {q[i] : i \in 1..Len(q)} \subseteq {p[i] : i \in 1..Len(p)} /\ p[1] \in {p[i] : i \in 1..Len(p)}
  <2> HIDE DEF p, q
  <2>1. ASSUME NEW i \in 1..Len(q) PROVE q[i] = p[i + 1] /\ i + 1 \in 1..Len(p)
    BY <1>3
  <2>2. 1 \in 1..Len(p)
    BY <1>3
  <2> QED
    BY <2>1, <2>2
<1> QED
  BY <1>2, <1>3, <1>5, <1>6 DEF PipeReads, Said

\* What is said is a message.
LEMMA SaidRow ==
    ASSUME CodexTypes, NEW g \in Servers, NEW m \in Said(g)
    PROVE  m \in Messages /\ m.kind \in MessageKinds /\ m.n \in Nat /\ m.turn \in TurnNos
           /\ m.result \in MessageResults
<1>1. pipe[g] \in Seq(Messages)
  BY DEF CodexTypes
<1>2. m \in Messages
  BY <1>1 DEF Said
<1> QED
  BY <1>2 DEF Messages

-----------------------------------------------------------------------------
(***************************************************************************)
(* What the goroutines do, step by step.                                   *)
(***************************************************************************)
\* u goes on and keeps to its locks.
CallStep(u) ==
    /\ OnlyCall(u) /\ LocksKept(u) /\ tlock' \in [CThreads -> Users \cup {NoUser}]
    /\ ccall'[u].rpc = "turn" => ccall'[u].op = "turn"
    /\ LocksThread(u)' => ccall'[u].s \in CThreads /\ tlock'[ccall'[u].s] = u
    /\ ccall'[u].rpc = "interrupt" => ccall'[u].turn \in Turns
    /\ ccall'[u].op = "steer" => ccall'[u].rpc \in {"query", "resume"}
    /\ ccall'[u].step \in {"unload", "target"} => ccall'[u].op = "unload"

\* Every step of a goroutine keeps to the locks.
LEMMA LocksStay ==
    ASSUME CodexTypes, LocksTrue,
           UNCHANGED <<ccall, tlock>> \/ \E u \in Users : CallStep(u)
    PROVE  LocksTrue' /\ ccall' \in [Users -> CallRows] /\ tlock' \in [CThreads -> Users \cup {NoUser}]
<1>1. CASE UNCHANGED <<ccall, tlock>>
  BY <1>1 DEF LocksTrue, LocksThread, CodexTypes
<1>2. ASSUME NEW u \in Users, CallStep(u)
      PROVE  LocksTrue' /\ ccall' \in [Users -> CallRows] /\ tlock' \in [CThreads -> Users \cup {NoUser}]
  <2>1. ASSUME NEW v \in Users \ {u}
        PROVE  /\ ccall'[v] = ccall[v]
               /\ LocksThread(v) => ccall[v].s \in CThreads /\ tlock'[ccall[v].s] = v
    BY <1>2, <2>1 DEF CallStep, OnlyCall, LocksKept, LocksTrue
  <2>2. \A v \in Users \ {u} : LocksThread(v)' = LocksThread(v)
    BY <2>1 DEF LocksThread
  <2> QED
    BY <1>2, <2>1, <2>2 DEF CallStep, OnlyCall, LocksTrue
<1> QED
  BY <1>1, <1>2

\* A call goes on with what it asks for.
LEMMA SameStep ==
    ASSUME CodexTypes, LocksTrue, NEW u \in Users, NEW step \in CodexSteps \ {"unload", "target"},
           OnlyCall(u), Same(u, step, ccall[u].rpc), UNCHANGED tlock
    PROVE  CallStep(u)
<1>1. LocksThread(u)' = LocksThread(u)
  BY DEF Same, LocksThread
<1>2. LocksKept(u) /\ tlock' \in [CThreads -> Users \cup {NoUser}]
  BY DEF LocksKept, CodexTypes
<1> QED
  BY <1>1, <1>2 DEF CallStep, Same, LocksTrue

\* A call returns.
LEMMA ReturnStep ==
    ASSUME CodexTypes, NEW u \in Users, Returns(u)
    PROVE  CallStep(u) /\ ccall'[u] = IdleCall
<1>1. /\ OnlyCall(u) /\ ccall'[u] = IdleCall /\ tlock' \in [CThreads -> Users \cup {NoUser}]
      /\ \A s \in CThreads : tlock'[s] = IF tlock[s] = u THEN NoUser ELSE tlock[s]
  BY ReturnsRow
<1>2. LocksKept(u)
  BY <1>1 DEF LocksKept
<1> QED
  BY <1>1, <1>2, IdleRow DEF CallStep, LocksThread

\* A step of a call that asks for nothing yet.
LEMMA GoesStep == ASSUME CodexTypes, NEW u \in Users, CallGoesOn(u) PROVE CallStep(u)
<1>1. ccall'[u].step # "unload"
  BY DEF CallGoesOn
<1> QED
  BY <1>1 DEF CallGoesOn, CallStep

-----------------------------------------------------------------------------
(***************************************************************************)
(* Who holds startGate, and the process.                                   *)
(***************************************************************************)
Holds(u) == ccall[u].step \in {"publish", "hello", "init"}
GateHeld == \A u \in Users : Holds(u) => codex.gate = u
Publishing(u) == ccall[u].step = "publish"
ServersTrue ==
    /\ \A g \in Servers : g < codex.gen => proc[g] = "reaped"
    /\ codex.cur => codex.gen \in Servers /\ proc[codex.gen] \in {"live", "closing", "dead"}
    /\ ~codex.cur /\ codex.gen > 0 => proc[codex.gen] = "reaped"
    /\ \A g \in Servers : g > codex.gen /\ proc[g] \notin {"none", "reaped"} =>
           g = codex.gen + 1 /\ \E u \in Users : Publishing(u)
    /\ \A u \in Users : Publishing(u) =>
           ~codex.cur /\ codex.gen < MaxServers /\ proc[codex.gen + 1] = "live"
    /\ codex.quarantined => codex.cur /\ proc[codex.gen] # "live"
    /\ codex.closed /\ codex.cur => proc[codex.gen] # "live"
    /\ \A u \in Users : ccall[u].step \in {"hello", "init"} => codex.gen \in Servers
ServerInv == GateHeld /\ ServersTrue

\* The fields of the adapter.
CodexIs(gen, cur, quarantined, configErr, closed, gate, nextID) ==
    /\ codex'.gen = gen /\ codex'.cur = cur /\ codex'.quarantined = quarantined
    /\ codex'.configErr = configErr /\ codex'.closed = closed /\ codex'.gate = gate
    /\ codex'.nextID = nextID /\ codex' \in CodexRows

\* A request is written.
Wrote(u, r, g, step) ==
    LET id == codex.nextID + 1 IN
    /\ id \in ReqIds /\ g \in Servers /\ proc[g] = "live" /\ g = codex.gen /\ codex.cur
    /\ CodexIs(codex.gen, codex.cur, codex.quarantined, codex.configErr, codex.closed,
               codex.gate, id)
    /\ pend' \in [ReqIds -> Nat] /\ pend'[id] = g /\ \A i \in ReqIds \ {id} : pend'[i] = pend[i]
    /\ inbox' \in [Servers -> SUBSET Requests] /\ \A h \in Servers \ {g} : inbox'[h] = inbox[h]
    /\ \E x \in Requests : /\ inbox'[g] = inbox[g] \cup {x}
                           /\ x.id = id /\ x.rpc = r /\ x.s = ccall[u].s /\ x.turn = ccall[u].turn
    /\ CallStep(u) /\ ccall'[u].step = step /\ ccall'[u].id = id /\ ccall'[u].gen = g
    /\ ccall'[u].op = ccall[u].op /\ ccall'[u].rpc = ccall[u].rpc /\ ccall'[u].s = ccall[u].s
    /\ ccall'[u].turn = ccall[u].turn
    /\ UNCHANGED <<proc, pipe, turns, posed, reply, active, waiting, tlock, answers>>

\* Write, through the current process.
LEMMA WriteMeans ==
    ASSUME CodexTypes, LocksTrue, ServerInv, NEW u \in Users, NEW r \in CRpcs,
           NEW step \in CodexSteps \ {"unload", "target"}, codex.cur, Write(u, r, codex.gen, step)
    PROVE  Wrote(u, r, codex.gen, step)
<1> DEFINE id == codex.nextID + 1
           g == codex.gen
<1>1. codex \in CodexRows /\ g \in Servers /\ ccall \in [Users -> CallRows] /\ ccall[u] \in CallRows
  BY DEF CodexTypes, ServerInv, ServersTrue
<1>2. codex.nextID < MaxRequests /\ codex.nextID \in Nat /\ id \in ReqIds /\ id \in 0..MaxRequests
      /\ id \in Nat
  BY <1>1, CodexAssumption DEF Write, CodexRows, ReqIds
<1>3. CodexIs(codex.gen, codex.cur, codex.quarantined, codex.configErr, codex.closed,
               codex.gate, id)
  <2>1. codex' = [codex EXCEPT !.nextID = id]
    BY DEF Write
  <2> HIDE DEF id
  <2> QED
    BY <1>1, <1>2, <2>1 DEF CodexIs, CodexRows
<1>4. pend' \in [ReqIds -> Nat] /\ pend'[id] = g /\ \A i \in ReqIds \ {id} : pend'[i] = pend[i]
  <2>1. pend' = [pend EXCEPT ![id] = g] /\ pend \in [ReqIds -> Nat] /\ g \in Nat
    BY <1>1 DEF Write, CodexTypes, Servers
  <2> HIDE DEF id
  <2> QED
    BY <1>2, <2>1
<1> DEFINE x == [id |-> id, rpc |-> r, s |-> ccall[u].s, turn |-> ccall[u].turn]
<1>5. x \in Requests
  BY <1>1, <1>2 DEF Requests, CallRows
<1>6. /\ inbox' \in [Servers -> SUBSET Requests] /\ \A h \in Servers \ {g} : inbox'[h] = inbox[h]
      /\ inbox'[g] = inbox[g] \cup {x}
  <2>1. inbox' = [inbox EXCEPT ![g] = @ \cup {x}] /\ inbox \in [Servers -> SUBSET Requests]
    BY DEF Write, CodexTypes
  <2> HIDE DEF x
  <2> QED
    BY <1>1, <1>5, <2>1
<1>7. x.id = id /\ x.rpc = r /\ x.s = ccall[u].s /\ x.turn = ccall[u].turn
  OBVIOUS
<1> DEFINE y == [ccall[u] EXCEPT !.step = step, !.id = id, !.gen = g]
<1>8. y \in CallRows /\ y.step = step /\ y.id = id /\ y.gen = g /\ y.op = ccall[u].op
      /\ y.rpc = ccall[u].rpc /\ y.s = ccall[u].s /\ y.turn = ccall[u].turn
  <2>1. g \in Nat
    BY <1>1 DEF Servers
  <2> HIDE DEF id, g
  <2> QED
    BY <1>1, <1>2, <2>1 DEF CallRows
<1>9. ccall' = [ccall EXCEPT ![u] = y]
  BY <1>1 DEF Write
<1>10. OnlyCall(u) /\ ccall'[u] = y
  <2> HIDE DEF y
  <2> QED
    BY <1>1, <1>8, <1>9 DEF OnlyCall
<1>11. CallStep(u)
  <2> HIDE DEF y
  <2>1. LocksThread(u)' = LocksThread(u)
    BY <1>8, <1>10 DEF LocksThread
  <2>2. LocksKept(u) /\ tlock' = tlock /\ tlock \in [CThreads -> Users \cup {NoUser}]
    BY DEF LocksKept, CodexTypes, Write
  <2> QED
    BY <1>8, <1>10, <2>1, <2>2 DEF CallStep, LocksTrue
<1>12. UNCHANGED <<proc, pipe, turns, posed, reply, active, waiting, tlock, answers>> /\ proc[g] = "live"
  BY DEF Write
<1> HIDE DEF x, y, id
<1>13. \E z \in Requests : /\ inbox'[g] = inbox[g] \cup {z}
                           /\ z.id = id /\ z.rpc = r /\ z.s = ccall[u].s /\ z.turn = ccall[u].turn
  BY <1>5, <1>6, <1>7
<1> QED
  BY <1>1, <1>2, <1>3, <1>4, <1>6, <1>8, <1>10, <1>11, <1>12, <1>13 DEF Wrote, id

-----------------------------------------------------------------------------
\* A process ends at most, or is stopped, and who publishes one goes on with it.
LEMMA ServerFrame ==
    ASSUME CodexTypes, ServerInv, codex' \in CodexRows, codex'.gen = codex.gen, codex'.cur = codex.cur,
           \A g \in Servers : \/ proc'[g] = proc[g]
                              \/ /\ g = codex.gen /\ codex.cur /\ proc'[g] \in {"closing", "dead"}
                                 /\ proc[g] \in {"live", "closing"},
           codex'.quarantined => codex.cur /\ proc'[codex.gen] # "live",
           codex'.closed /\ codex.cur => proc'[codex.gen] # "live",
           \A v \in Users : /\ Holds(v)' => codex'.gate = v
                            /\ Publishing(v)' <=> Publishing(v)
                            /\ ccall'[v].step \in {"hello", "init"} => codex.gen \in Servers
    PROVE  ServerInv'
<1>1. GateHeld'
  BY DEF GateHeld
<1>2. codex.gen \in 0..MaxServers /\ MaxServers \in Nat /\ codex \in CodexRows
      /\ Servers = 1..MaxServers
  BY CodexAssumption DEF CodexTypes, CodexRows, Servers
<1>3. /\ \A g \in Servers : g < codex.gen => proc[g] = "reaped"
      /\ codex.cur => codex.gen \in Servers /\ proc[codex.gen] \in {"live", "closing", "dead"}
      /\ ~codex.cur /\ codex.gen > 0 => proc[codex.gen] = "reaped"
      /\ \A g \in Servers : g > codex.gen /\ proc[g] \notin {"none", "reaped"} =>
           g = codex.gen + 1 /\ \E u \in Users : Publishing(u)
      /\ \A u \in Users : Publishing(u) =>
           ~codex.cur /\ codex.gen < MaxServers /\ proc[codex.gen + 1] = "live"
  BY DEF ServerInv, ServersTrue
<1>4. \A g \in Servers : g < codex.gen => proc'[g] = "reaped"
  BY <1>2, <1>3
<1>5. codex.cur => codex.gen \in Servers /\ proc'[codex.gen] \in {"live", "closing", "dead"}
  BY <1>3
<1>6. ~codex.cur /\ codex.gen > 0 => proc'[codex.gen] = "reaped"
  BY <1>2, <1>3
<1>7. \A g \in Servers : g > codex.gen /\ proc'[g] \notin {"none", "reaped"} =>
           g = codex.gen + 1 /\ \E u \in Users : Publishing(u)'
  BY <1>2, <1>3
<1>8. \A u \in Users : Publishing(u)' =>
           ~codex.cur /\ codex.gen < MaxServers /\ proc'[codex.gen + 1] = "live"
  BY <1>2, <1>3
<1>9. ServersTrue'
  BY <1>4, <1>5, <1>6, <1>7, <1>8 DEF ServersTrue
<1> QED
  BY <1>1, <1>9 DEF ServerInv

\* Nothing that the process depends on changes.
LEMMA ServerSame ==
    ASSUME CodexTypes, ServerInv, codex' \in CodexRows, codex'.gen = codex.gen, codex'.cur = codex.cur,
           codex'.quarantined = codex.quarantined, codex'.closed = codex.closed, codex'.gate = codex.gate,
           UNCHANGED proc,
           \A v \in Users : /\ Holds(v)' => Holds(v)
                            /\ Publishing(v)' <=> Publishing(v)
                            /\ ccall'[v].step \in {"hello", "init"} => ccall[v].step \in {"hello", "init"}
    PROVE  ServerInv'
<1>1. codex'.quarantined => codex.cur /\ proc'[codex.gen] # "live"
  BY DEF ServerInv, ServersTrue
<1>2. codex'.closed /\ codex.cur => proc'[codex.gen] # "live"
  BY DEF ServerInv, ServersTrue
<1>3. \A v \in Users : /\ Holds(v)' => codex'.gate = v
                       /\ Publishing(v)' <=> Publishing(v)
                       /\ ccall'[v].step \in {"hello", "init"} => codex.gen \in Servers
  BY DEF ServerInv, ServersTrue, GateHeld
<1>4. \A g \in Servers : proc'[g] = proc[g]
  OBVIOUS
<1> QED
  BY <1>1, <1>2, <1>3, <1>4, ServerFrame

\* The steps of the adapter that are about its process.
Processed(u) ==
    /\ UNCHANGED <<inbox, pipe, turns, posed, reply, active, waiting, answers>>
    /\ codex' \in CodexRows /\ codex'.nextID = codex.nextID /\ proc' \in [Servers -> ProcStates]
    /\ \/ codex'.gen = codex.gen /\ codex'.cur = codex.cur /\ codex'.configErr = codex.configErr
       \/ /\ ~codex.cur /\ codex'.cur /\ codex'.gen = codex.gen + 1 /\ codex'.gen \in Servers
          /\ UNCHANGED proc
    /\ \A g \in Servers : g <= codex.gen =>
           proc'[g] = proc[g] \/ (proc[g] = "live" /\ proc'[g] = "closing")
    /\ \/ UNCHANGED <<ccall, tlock>>
       \/ u \in Users /\ CallStep(u) /\ ccall'[u] = IdleCall
       \/ /\ u \in Users /\ CallStep(u) /\ ccall[u].step \in {"gate", "publish", "init"}
          /\ \E step \in {"send", "publish", "hello"} : Same(u, step, ccall[u].rpc)
    /\ \/ pend' = pend
       \/ /\ u \in Users /\ ccall[u].step \in {"wait", "init"} /\ ccall'[u] = IdleCall
          /\ pend' = [pend EXCEPT ![ccall[u].id] = 0]
    /\ ("cancel" \notin CodexFaults /\ u \in Users /\ ccall[u].step = "wait" /\ ccall[u].op # "unload")
           => ~(codex'.cur /\ codex'.gen = ccall[u].gen /\ proc'[ccall[u].gen] = "live")

\* stopProcess.
LEMMA StopMeans ==
    ASSUME CodexTypes, NEW g \in Nat
    PROVE  /\ StopProcess(g) \in [Servers -> ProcStates] /\ Stopped(g) \in [Servers -> ProcStates]
           /\ \A h \in Servers :
                 /\ Stopped(g)[h] = IF h = g /\ proc[h] = "live" THEN "closing" ELSE proc[h]
                 /\ StopProcess(g)[h] = IF codex.cur /\ codex.gen = g /\ h = g /\ proc[h] = "live"
                                        THEN "closing" ELSE proc[h]
<1>1. proc \in [Servers -> ProcStates]
  BY DEF CodexTypes
<1>2. /\ Stopped(g) \in [Servers -> ProcStates]
      /\ \A h \in Servers : Stopped(g)[h] = IF h = g /\ proc[h] = "live" THEN "closing" ELSE proc[h]
  BY <1>1 DEF Stopped, ProcStates
<1> QED
  BY <1>1, <1>2 DEF StopProcess

\* Nobody holds startGate while it is free or another's.
LEMMA GateFree ==
    ASSUME ServerInv, NEW u \in Users, codex.gate \in {NoUser, u}
    PROVE  \A v \in Users \ {u} : ~Holds(v)
BY CodexAssumption DEF ServerInv, GateHeld

\* One field of the adapter changes.
LEMMA CodexGate ==
    ASSUME codex \in CodexRows, NEW u \in Users \cup {NoUser}, codex' = [codex EXCEPT !.gate = u]
    PROVE  CodexIs(codex.gen, codex.cur, codex.quarantined, codex.configErr, codex.closed, u, codex.nextID)
BY DEF CodexIs, CodexRows

\* ensureStarted.
LEMMA EnsureStartedStep ==
    ASSUME CodexTypes, LocksTrue, ServerInv, NEW u \in Users, EnsureStarted(u)
    PROVE  Processed(u) /\ ServerInv'
<1> USE CodexAssumption
<1>1. /\ codex \in CodexRows /\ proc \in [Servers -> ProcStates] /\ ccall[u].step = "gate"
      /\ ccall \in [Users -> CallRows] /\ NoUser \notin Users /\ codex.gate \in {NoUser, u}
      /\ codex.gen \in 0..MaxServers
  BY DEF CodexTypes, EnsureStarted, At, CodexRows
<1>2. /\ UNCHANGED <<inbox, pipe, turns, posed, reply, active, waiting, answers, pend>>
  BY DEF EnsureStarted, serverVars
<1>3. \A v \in Users : ~Holds(v)
  BY <1>1, GateFree DEF Holds
<1>4. ASSUME UNCHANGED proc, codex' = [codex EXCEPT !.gate = NoUser],
             Returns(u) \/ (To(u, "send") /\ UNCHANGED tlock)
      PROVE  Processed(u) /\ ServerInv'
  <2>1. CodexIs(codex.gen, codex.cur, codex.quarantined, codex.configErr, codex.closed, NoUser, codex.nextID)
    BY <1>1, <1>4, CodexGate
  <2>2. CASE Returns(u)
    <3>1. CallStep(u) /\ ccall'[u] = IdleCall
      BY <2>2, ReturnStep
    <3>2. \A v \in Users : ~Holds(v)'
      BY <1>3, <3>1, IdleRow DEF Holds, CallStep, OnlyCall
    <3>3. Processed(u)
      BY <1>1, <1>2, <1>4, <2>1, <3>1 DEF Processed, CodexIs
    <3>4. ServerInv'
      BY <1>3, <1>4, <2>1, <3>2 DEF ServerInv, ServersTrue, GateHeld, CodexIs, Holds, Publishing
    <3> QED
      BY <3>3, <3>4
  <2>3. CASE To(u, "send") /\ UNCHANGED tlock
    <3>0. OnlyCall(u) /\ Same(u, "send", ccall[u].rpc)
      BY <2>3, ToRow DEF CodexSteps
    <3>1. CallStep(u)
      BY <2>3, <3>0, SameStep DEF CodexSteps
    <3>2. \A v \in Users : ~Holds(v)'
      BY <1>3, <3>0 DEF Holds, OnlyCall, Same
    <3>3. Processed(u)
      BY <1>1, <1>2, <1>4, <2>1, <3>0, <3>1 DEF Processed, CodexIs
    <3>4. ServerInv'
      BY <1>3, <1>4, <2>1, <3>2 DEF ServerInv, ServersTrue, GateHeld, CodexIs, Holds, Publishing
    <3> QED
      BY <3>3, <3>4
  <2> QED
    BY <1>4, <2>2, <2>3
<1>5. ASSUME codex.cur, codex' = [codex EXCEPT !.gate = u], UNCHANGED <<proc, tlock, ccall>>
      PROVE  Processed(u) /\ ServerInv'
  <2>1. CodexIs(codex.gen, codex.cur, codex.quarantined, codex.configErr, codex.closed, u, codex.nextID)
    BY <1>1, <1>5, CodexGate
  <2>2. Processed(u)
    BY <1>1, <1>2, <1>5, <2>1 DEF Processed, CodexIs
  <2>3. ServerInv'
    BY <1>3, <1>5, <2>1 DEF ServerInv, ServersTrue, GateHeld, CodexIs, Holds, Publishing
  <2> QED
    BY <2>2, <2>3
<1>6. ASSUME ~codex.closed, ~codex.cur, codex.gen < MaxServers, codex' = [codex EXCEPT !.gate = u],
             To(u, "publish"), proc' = [proc EXCEPT ![codex.gen + 1] = "live"], UNCHANGED tlock
      PROVE  Processed(u) /\ ServerInv'
  <2>1. CodexIs(codex.gen, codex.cur, codex.quarantined, codex.configErr, codex.closed, u, codex.nextID)
    BY <1>1, <1>6, CodexGate
  <2>2. OnlyCall(u) /\ Same(u, "publish", ccall[u].rpc)
    BY <1>6, ToRow DEF CodexSteps
  <2>3. CallStep(u)
    BY <1>6, <2>2, SameStep DEF CodexSteps
  <2>4. codex.gen + 1 \in Servers /\ codex.gen \in Nat
    BY <1>1, <1>6 DEF Servers
  <2>5. /\ proc' \in [Servers -> ProcStates] /\ proc'[codex.gen + 1] = "live"
        /\ \A h \in Servers : h # codex.gen + 1 => proc'[h] = proc[h]
    BY <1>1, <1>6, <2>4 DEF ProcStates
  <2>6. \A g \in Servers : g <= codex.gen => proc'[g] = proc[g]
    BY <2>4, <2>5 DEF Servers
  <2>7. Processed(u)
    BY <1>1, <1>2, <2>1, <2>2, <2>3, <2>5, <2>6 DEF Processed, CodexIs
  <2>8. \A v \in Users : v # u => ~Holds(v)'
    BY <1>3, <2>2 DEF Holds, OnlyCall
  <2>9. Publishing(u)' /\ GateHeld'
    BY <2>1, <2>2, <2>8 DEF Publishing, Same, GateHeld, CodexIs
  <2>10. \A v \in Users : ccall'[v].step \notin {"hello", "init"}
    BY <2>2, <2>8 DEF Holds, Same
  <2>11. \A g \in Servers : g > codex.gen /\ proc'[g] \notin {"none", "reaped"} => g = codex.gen + 1
    BY <1>3, <2>4, <2>5 DEF ServerInv, ServersTrue, Holds, Publishing
  <2>12. \A v \in Users : Publishing(v)' => v = u
    BY <2>8 DEF Publishing, Holds
  <2>13. \A g \in Servers : g < codex.gen => proc'[g] = "reaped"
    BY <2>4, <2>6 DEF ServerInv, ServersTrue, Servers
  <2>14. codex.gen > 0 => proc'[codex.gen] = "reaped"
    BY <1>6, <2>4, <2>6 DEF ServerInv, ServersTrue, Servers
  <2>15. ~codex.quarantined
    BY <1>6 DEF ServerInv, ServersTrue
  <2>16. ServersTrue'
    BY <1>6, <2>1, <2>5, <2>9, <2>10, <2>11, <2>13, <2>14, <2>15 DEF ServersTrue, CodexIs
  <2> QED
    BY <2>7, <2>9, <2>16 DEF ServerInv
<1> QED
  BY <1>4, <1>5, <1>6 DEF EnsureStarted, serverVars

\* publishStartedProcess.
LEMMA PublishStep ==
    ASSUME CodexTypes, LocksTrue, ServerInv, NEW u \in Users, PublishStartedProcess(u)
    PROVE  Processed(u) /\ ServerInv'
<1> USE CodexAssumption
<1>1. /\ codex \in CodexRows /\ proc \in [Servers -> ProcStates] /\ ccall[u].step = "publish"
      /\ ccall \in [Users -> CallRows] /\ NoUser \notin Users /\ codex.gate = u
      /\ codex.gen \in 0..MaxServers
  BY DEF CodexTypes, PublishStartedProcess, At, CodexRows, ServerInv, GateHeld, Holds
<1>2. /\ UNCHANGED <<inbox, pipe, turns, posed, reply, active, waiting, answers, pend>>
  BY DEF PublishStartedProcess, serverVars
<1>3. \A v \in Users \ {u} : ~Holds(v)
  BY <1>1, GateFree
<1>4. /\ ~codex.cur /\ codex.gen + 1 \in Servers /\ proc[codex.gen + 1] = "live" /\ codex.gen \in Nat
      /\ ~codex.quarantined
  BY <1>1 DEF ServerInv, ServersTrue, Publishing, Servers
<1>5. CASE codex.closed
  <2>0. Returns(u) /\ codex' = [codex EXCEPT !.gate = NoUser] /\ proc' = [proc EXCEPT ![codex.gen + 1] = "reaped"]
    BY <1>5 DEF PublishStartedProcess
  <2>1. CodexIs(codex.gen, codex.cur, codex.quarantined, codex.configErr, codex.closed, NoUser, codex.nextID)
    BY <1>1, <2>0, CodexGate
  <2>2. CallStep(u) /\ ccall'[u] = IdleCall
    BY <2>0, ReturnStep
  <2>3. /\ proc' \in [Servers -> ProcStates] /\ proc'[codex.gen + 1] = "reaped"
        /\ \A h \in Servers : h # codex.gen + 1 => proc'[h] = proc[h]
    BY <1>1, <1>4, <2>0 DEF ProcStates
  <2>4. \A g \in Servers : g <= codex.gen => proc'[g] = proc[g]
    BY <1>4, <2>3 DEF Servers
  <2>5. Processed(u)
    BY <1>1, <1>2, <2>1, <2>2, <2>3, <2>4 DEF Processed, CodexIs
  <2>6. \A v \in Users : ~Holds(v)'
    BY <1>3, <2>2, IdleRow DEF Holds, CallStep, OnlyCall
  <2>7. \A g \in Servers : g > codex.gen => proc'[g] \in {"none", "reaped"}
    BY <1>4, <2>3 DEF ServerInv, ServersTrue
  <2>8. /\ \A g \in Servers : g < codex.gen => proc'[g] = "reaped"
        /\ codex.gen > 0 => proc'[codex.gen] = "reaped"
    BY <1>1, <1>4, <2>4 DEF ServerInv, ServersTrue, Servers
  <2>9. ServerInv'
    BY <1>4, <2>1, <2>6, <2>7, <2>8 DEF ServerInv, ServersTrue, GateHeld, CodexIs, Holds, Publishing
  <2> QED
    BY <2>5, <2>9
<1>6. CASE ~codex.closed
  <2>0. /\ codex' = [codex EXCEPT !.gen = @ + 1, !.cur = TRUE, !.quarantined = FALSE, !.configErr = FALSE]
        /\ To(u, "hello") /\ UNCHANGED <<proc, tlock>>
    BY <1>6 DEF PublishStartedProcess
  <2>1. CodexIs(codex.gen + 1, TRUE, FALSE, FALSE, FALSE, u, codex.nextID)
    <3>1. codex.gen + 1 \in 0..MaxServers
      BY <1>4 DEF Servers
    <3> QED
      BY <1>1, <1>6, <2>0, <3>1 DEF CodexIs, CodexRows
  <2>2. OnlyCall(u) /\ Same(u, "hello", ccall[u].rpc)
    BY <2>0, ToRow DEF CodexSteps
  <2>3. CallStep(u)
    BY <2>0, <2>2, SameStep DEF CodexSteps
  <2>4. Processed(u)
    BY <1>1, <1>2, <1>4, <2>0, <2>1, <2>2, <2>3 DEF Processed, CodexIs
  <2>5. \A v \in Users \ {u} : ~Holds(v)'
    BY <1>3, <2>2 DEF Holds, OnlyCall
  <2>6. GateHeld' /\ \A v \in Users : ~Publishing(v)'
    BY <2>1, <2>2, <2>5 DEF GateHeld, CodexIs, Same, Publishing, Holds
  <2>7. /\ \A g \in Servers : g < codex.gen + 1 => proc[g] = "reaped"
        /\ \A g \in Servers : g > codex.gen + 1 => proc[g] \in {"none", "reaped"}
    BY <1>1, <1>4 DEF ServerInv, ServersTrue, Servers
  <2>8. ServersTrue'
    BY <1>4, <2>0, <2>1, <2>6, <2>7 DEF ServersTrue, CodexIs
  <2> QED
    BY <2>4, <2>6, <2>8 DEF ServerInv
<1> QED
  BY <1>5, <1>6

\* A call of ensureStarted ends, and the process is stopped or goes on.
LEMMA GateGiven ==
    ASSUME CodexTypes, LocksTrue, ServerInv, NEW u \in Users, ccall[u].step \in {"hello", "init"},
           codex' \in CodexRows, codex'.gen = codex.gen, codex'.cur = codex.cur,
           codex'.configErr = codex.configErr, codex'.closed = codex.closed, codex'.gate = NoUser,
           codex'.nextID = codex.nextID,
           NEW g \in Nat, proc' = StopProcess(g) \/ UNCHANGED proc,
           codex'.quarantined => codex.quarantined \/ (codex.cur /\ codex.gen = g /\ proc' = StopProcess(g)),
           UNCHANGED <<inbox, pipe, turns, posed, reply, active, waiting, answers>>,
           Returns(u) \/ (To(u, "send") /\ UNCHANGED tlock /\ ccall[u].step = "init"),
           UNCHANGED pend \/ (/\ ccall[u].step = "init" /\ Returns(u)
                              /\ pend' = [pend EXCEPT ![ccall[u].id] = 0])
    PROVE  Processed(u) /\ ServerInv'
<1> USE CodexAssumption
<1>1. codex.gate = u /\ NoUser \notin Users
  BY DEF ServerInv, GateHeld, Holds
<1>2. \A v \in Users \ {u} : ~Holds(v)
  BY <1>1, GateFree
<1>3. /\ proc' \in [Servers -> ProcStates]
      /\ \A h \in Servers : \/ proc'[h] = proc[h]
                            \/ /\ h = codex.gen /\ codex.cur /\ proc[h] = "live" /\ proc'[h] = "closing"
  BY StopMeans DEF CodexTypes
<1>4. /\ CallStep(u) /\ ~Holds(u)'
      /\ \/ ccall'[u] = IdleCall
         \/ Same(u, "send", ccall[u].rpc) /\ ccall[u].step = "init"
  <2>1. CASE Returns(u)
    BY <2>1, ReturnStep, IdleRow DEF Holds
  <2>2. CASE To(u, "send") /\ UNCHANGED tlock /\ ccall[u].step = "init"
    <3>1. OnlyCall(u) /\ Same(u, "send", ccall[u].rpc)
      BY <2>2, ToRow DEF CodexSteps
    <3>2. CallStep(u)
      BY <2>2, <3>1, SameStep DEF CodexSteps
    <3> QED
      BY <2>2, <3>1, <3>2 DEF Holds, Same
  <2> QED
    BY <2>1, <2>2
<1>5. pend' = pend \/ (/\ ccall[u].step = "init" /\ ccall'[u] = IdleCall
                       /\ pend' = [pend EXCEPT ![ccall[u].id] = 0])
  BY ReturnStep
<1>6. Processed(u)
  BY <1>3, <1>4, <1>5 DEF Processed
<1>7. \A v \in Users : ~Holds(v)' /\ ~Publishing(v)
  BY <1>2, <1>4 DEF Holds, Publishing, CallStep, OnlyCall
<1>8. /\ codex'.quarantined => codex.cur /\ proc'[codex.gen] # "live"
      /\ codex'.closed /\ codex.cur => proc'[codex.gen] # "live"
  <2>1. codex.cur => codex.gen \in Servers
    BY DEF ServerInv, ServersTrue
  <2>2. codex.quarantined => codex.cur /\ proc[codex.gen] # "live"
    BY DEF ServerInv, ServersTrue
  <2>3. codex.closed /\ codex.cur => proc[codex.gen] # "live"
    BY DEF ServerInv, ServersTrue
  <2>4. codex.cur /\ codex.gen = g /\ proc' = StopProcess(g) => proc'[codex.gen] # "live"
    BY <2>1, StopMeans
  <2> QED
    BY <1>3, <2>1, <2>2, <2>3, <2>4
<1>9. ServerInv'
  BY <1>3, <1>7, <1>8, ServerFrame DEF Holds, Publishing
<1> QED
  BY <1>6, <1>9

\* The end of the start of a process.
LEMMA InitializeStep ==
    ASSUME CodexTypes, LocksTrue, ServerInv, NEW u \in Users,
           Initialized(u) \/ InitializeLate(u) \/ (Initialize(u) /\ UNCHANGED pend /\ codex'.nextID = codex.nextID)
    PROVE  Processed(u) /\ ServerInv'
<1>1. codex \in CodexRows /\ ccall[u] \in CallRows /\ codex.nextID \in Nat /\ codex.gen \in Nat
  BY CodexAssumption DEF CodexTypes, CodexRows
<1>2. ccall[u].gen \in Nat
  BY <1>1 DEF CallRows
<1>3. CASE Initialized(u)
  <2>1. /\ codex' = [codex EXCEPT !.gate = NoUser] /\ ccall[u].step = "init"
        /\ UNCHANGED <<inbox, pipe, turns, posed, reply, active, waiting, answers, pend>>
        /\ proc' = StopProcess(ccall[u].gen) \/ UNCHANGED proc
        /\ Returns(u) \/ (To(u, "send") /\ UNCHANGED tlock)
    BY <1>3 DEF Initialized, At
  <2>2. CodexIs(codex.gen, codex.cur, codex.quarantined, codex.configErr, codex.closed, NoUser, codex.nextID)
    BY <1>1, <2>1, CodexGate
  <2> QED
    BY <1>2, <2>1, <2>2, GateGiven DEF CodexIs
<1>4. CASE InitializeLate(u)
  <2>1. /\ codex' = [codex EXCEPT !.gate = NoUser, !.quarantined = @ \/ (~codex.closed /\ IsCurrent(ccall[u].gen))]
        /\ ccall[u].step = "init" /\ pend' = [pend EXCEPT ![ccall[u].id] = 0]
        /\ UNCHANGED <<inbox, pipe, turns, posed, reply, active, waiting, answers>>
        /\ proc' = StopProcess(ccall[u].gen) /\ Returns(u)
    BY <1>4 DEF InitializeLate, At
  <2>2. CodexIs(codex.gen, codex.cur, codex.quarantined \/ (~codex.closed /\ IsCurrent(ccall[u].gen)), codex.configErr, codex.closed, NoUser, codex.nextID)
    <3> DEFINE x == codex.quarantined \/ (~codex.closed /\ IsCurrent(ccall[u].gen))
    <3>1. x \in BOOLEAN
      BY <1>1 DEF IsCurrent, CodexRows
    <3>2. codex' = [codex EXCEPT !.gate = NoUser, !.quarantined = x]
      BY <1>1, <2>1
    <3> HIDE DEF x
    <3>3. CodexIs(codex.gen, codex.cur, x, codex.configErr, codex.closed, NoUser, codex.nextID)
      BY <1>1, <3>1, <3>2 DEF CodexIs, CodexRows
    <3> QED
      BY <3>3 DEF x
  <2>3. codex'.quarantined => codex.quarantined \/ (codex.cur /\ codex.gen = ccall[u].gen /\ proc' = StopProcess(ccall[u].gen))
    BY <2>1, <2>2 DEF CodexIs, IsCurrent
  <2> QED
    BY <1>2, <2>1, <2>2, <2>3, GateGiven DEF CodexIs
<1>5. CASE Initialize(u) /\ UNCHANGED pend /\ codex'.nextID = codex.nextID
  <2>1. /\ codex' = [codex EXCEPT !.gate = NoUser] /\ ccall[u].step = "hello"
        /\ UNCHANGED <<inbox, pipe, turns, posed, reply, active, waiting, answers, pend>>
        /\ proc' = StopProcess(codex.gen) /\ Returns(u)
    <3>1. ASSUME Write(u, "initialize", codex.gen, "init") PROVE FALSE
      <4>1. codex' = [codex EXCEPT !.nextID = codex.nextID + 1] /\ codex.nextID < MaxRequests
        BY <3>1 DEF Write
      <4>2. codex'.nextID = codex.nextID + 1
        BY <1>1, <4>1 DEF CodexRows
      <4> QED
        BY <1>1, <1>5, <4>2
    <3> QED
      BY <1>5, <3>1 DEF Initialize, At
  <2>2. CodexIs(codex.gen, codex.cur, codex.quarantined, codex.configErr, codex.closed, NoUser, codex.nextID)
    BY <1>1, <2>1, CodexGate
  <2> QED
    BY <1>1, <2>1, <2>2, GateGiven DEF CodexIs
<1> QED
  BY <1>3, <1>4, <1>5

\* A caller gives up its request.
LEMMA GiveUpStep ==
    ASSUME CodexTypes, LocksTrue, ServerInv, NEW u \in Users, GiveUp(u)
    PROVE  Processed(u) /\ ServerInv'
<1> DEFINE g == ccall[u].gen
<1>1. codex \in CodexRows /\ ccall[u] \in CallRows /\ ccall[u].step = "wait" /\ proc \in [Servers -> ProcStates]
  BY DEF CodexTypes, GiveUp, At
<1>2. g \in Nat /\ (codex.cur => codex.gen \in Servers)
  BY <1>1 DEF CallRows, ServerInv, ServersTrue
<1>3. CallStep(u) /\ ccall'[u] = IdleCall /\ Returns(u)
  BY ReturnStep DEF GiveUp
<1>4. /\ pend' = [pend EXCEPT ![ccall[u].id] = 0]
      /\ UNCHANGED <<inbox, pipe, turns, posed, reply, active, waiting, answers>>
  BY DEF GiveUp
<1>5. \A v \in Users : /\ Holds(v)' => Holds(v)
                       /\ Publishing(v)' <=> Publishing(v)
                       /\ ccall'[v].step \in {"hello", "init"} => ccall[v].step \in {"hello", "init"}
  BY <1>1, <1>3, IdleRow DEF CallStep, OnlyCall, Holds, Publishing
<1>6. ASSUME ~codex.closed /\ IsCurrent(g), codex' = [codex EXCEPT !.quarantined = TRUE], proc' = Stopped(g)
      PROVE  Processed(u) /\ ServerInv'
  <2>1. CodexIs(codex.gen, codex.cur, TRUE, codex.configErr, codex.closed, codex.gate, codex.nextID)
    BY <1>1, <1>6 DEF CodexIs, CodexRows
  <2>2. codex.gen = g /\ codex.cur /\ g \in Servers
    BY <1>2, <1>6 DEF IsCurrent
  <2>3. /\ proc' \in [Servers -> ProcStates] /\ proc'[g] # "live"
        /\ \A h \in Servers : proc'[h] = proc[h] \/ (h = g /\ proc[h] = "live" /\ proc'[h] = "closing")
    BY <1>2, <1>6, <2>2, StopMeans
  <2>4. Processed(u)
    BY <1>1, <1>3, <1>4, <2>1, <2>2, <2>3 DEF Processed, CodexIs
  <2>5. \A v \in Users : /\ Holds(v)' => codex'.gate = v
                         /\ ccall'[v].step \in {"hello", "init"} => codex.gen \in Servers
    BY <1>2, <1>5, <2>1, <2>2 DEF ServerInv, GateHeld, CodexIs
  <2>6. ServerInv'
    BY <1>5, <2>1, <2>2, <2>3, <2>5, ServerFrame DEF CodexIs
  <2> QED
    BY <2>4, <2>6
<1>7. ASSUME UNCHANGED <<codex, proc>>,
             ("cancel" \notin CodexFaults /\ ccall[u].op # "unload") => codex.closed \/ ~IsCurrent(g)
      PROVE  Processed(u) /\ ServerInv'
  <2>1. ("cancel" \notin CodexFaults /\ ccall[u].op # "unload") => ~(codex.cur /\ codex.gen = g /\ proc[g] = "live")
    BY <1>7 DEF ServerInv, ServersTrue, IsCurrent
  <2>2. Processed(u)
    BY <1>1, <1>3, <1>4, <1>7, <2>1 DEF Processed
  <2>3. ServerInv'
    BY <1>1, <1>5, <1>7, ServerSame
  <2> QED
    BY <2>2, <2>3
<1> QED
  BY <1>6, <1>7 DEF GiveUp, QuarantineProcess

\* The adapter is closed.
LEMMA CloseStep ==
    ASSUME CodexTypes, LocksTrue, ServerInv, CloseAdapter
    PROVE  Processed(NoUser) /\ ServerInv'
<1>1. codex \in CodexRows /\ proc \in [Servers -> ProcStates] /\ codex.gen \in Nat
      /\ (codex.cur => codex.gen \in Servers) /\ NoUser \notin Users
  BY CodexAssumption DEF CodexTypes, CodexRows, ServerInv, ServersTrue
<1>2. /\ codex' = [codex EXCEPT !.closed = TRUE] /\ proc' = StopProcess(codex.gen)
      /\ UNCHANGED <<inbox, pipe, turns, posed, reply, active, waiting, answers, tlock, ccall, pend>>
  BY DEF CloseAdapter
<1>3. CodexIs(codex.gen, codex.cur, codex.quarantined, codex.configErr, TRUE, codex.gate, codex.nextID)
  BY <1>1, <1>2 DEF CodexIs, CodexRows
<1>4. /\ proc' \in [Servers -> ProcStates] /\ (codex.cur => proc'[codex.gen] # "live")
      /\ \A h \in Servers : proc'[h] = proc[h] \/ (h = codex.gen /\ codex.cur /\ proc[h] = "live" /\ proc'[h] = "closing")
  BY <1>1, <1>2, StopMeans
<1>5. Processed(NoUser)
  BY <1>1, <1>2, <1>3, <1>4 DEF Processed, CodexIs
<1>6. \A v \in Users : /\ Holds(v)' => codex'.gate = v
                       /\ Publishing(v)' <=> Publishing(v)
                       /\ ccall'[v].step \in {"hello", "init"} => codex.gen \in Servers
  BY <1>2, <1>3 DEF ServerInv, ServersTrue, GateHeld, CodexIs, Holds, Publishing
<1>7. codex'.quarantined => codex.cur /\ proc'[codex.gen] # "live"
  BY <1>3, <1>4 DEF ServerInv, ServersTrue, CodexIs
<1>8. ServerInv'
  BY <1>3, <1>4, <1>6, <1>7, ServerFrame DEF CodexIs
<1> QED
  BY <1>5, <1>8

\* A request that is not written.
LEMMA NotWritten ==
    ASSUME CodexTypes, LocksTrue, ServerInv, NEW u \in Users, ccall[u].step \in {"send", "target"},
           Returns(u), UNCHANGED <<serverVars, adapterVars, answers>>
    PROVE  Processed(u) /\ ServerInv'
<1>1. codex \in CodexRows /\ proc \in [Servers -> ProcStates]
  BY DEF CodexTypes
<1>2. CallStep(u) /\ ccall'[u] = IdleCall
  BY ReturnStep
<1>3. Processed(u)
  BY <1>1, <1>2 DEF Processed, serverVars, adapterVars
<1>4. \A v \in Users : /\ Holds(v)' => Holds(v)
                       /\ Publishing(v)' <=> Publishing(v)
                       /\ ccall'[v].step \in {"hello", "init"} => ccall[v].step \in {"hello", "init"}
  BY <1>2, IdleRow DEF CallStep, OnlyCall, Holds, Publishing
<1>5. ServerInv'
  BY <1>1, <1>4, ServerSame DEF serverVars, adapterVars
<1> QED
  BY <1>3, <1>5

\* A request is sent with the step that follows.
Sent(u) ==
    \/ ccall[u].step = "hello" /\ Wrote(u, "initialize", codex.gen, "init")
    \/ ccall[u].step = "send" /\ ~codex.configErr /\ Wrote(u, ccall[u].rpc, codex.gen, "wait")
    \/ ccall[u].step = "target" /\ ccall[u].gen = codex.gen /\ Wrote(u, "unsubscribe", codex.gen, "wait")

\* A request that is written leaves the process as it is.
LEMMA SentStep ==
    ASSUME CodexTypes, LocksTrue, ServerInv, NEW u \in Users, Sent(u)
    PROVE  ServerInv'
<1>1. PICK r \in CRpcs, step \in {"init", "wait"} : Wrote(u, r, codex.gen, step) /\ (step = "init" => ccall[u].step = "hello")
  <2>1. ccall[u].rpc \in CRpcs /\ "initialize" \in CRpcs /\ "unsubscribe" \in CRpcs
    BY DEF CodexTypes, CallRows, CRpcs
  <2> QED
    BY <2>1 DEF Sent
<1>2. \A v \in Users : /\ Holds(v)' => Holds(v)
                       /\ ccall'[v].step \in {"hello", "init"} => ccall[v].step \in {"hello", "init"}
  BY <1>1 DEF Wrote, CallStep, OnlyCall, Holds
<1>3. \A v \in Users : Publishing(v)' <=> Publishing(v)
  <2>1. ccall[u].step # "publish" /\ ccall'[u].step # "publish"
    BY <1>1 DEF Sent, Wrote
  <2> QED
    BY <1>1, <2>1 DEF Wrote, CallStep, OnlyCall, Publishing
<1> QED
  BY <1>1, <1>2, <1>3, ServerSame DEF Wrote, CodexIs

\* The requests of the adapter.
LEMMA RequestStep ==
    ASSUME CodexTypes, LocksTrue, ServerInv, NEW u \in Users,
           Initialize(u) \/ SendToServer(u) \/ RequestOnTarget(u)
    PROVE  (Sent(u) \/ Processed(u)) /\ ServerInv'
<1>1. ccall[u].rpc \in CRpcs /\ "initialize" \in CRpcs /\ "unsubscribe" \in CRpcs
      /\ "wait" \in CodexSteps \ {"unload", "target"} /\ "init" \in CodexSteps \ {"unload", "target"}
  BY DEF CodexTypes, CallRows, CRpcs, CodexSteps
<1>2. CASE Initialize(u)
  <2>1. CASE codex.cur /\ ~codex.configErr /\ Write(u, "initialize", codex.gen, "init")
    BY <1>1, <1>2, <2>1, WriteMeans, SentStep DEF Initialize, At, Sent
  <2>2. CASE codex' = [codex EXCEPT !.gate = NoUser] /\ UNCHANGED pend
    <3>1. codex'.nextID = codex.nextID
      BY <2>2 DEF CodexTypes, CodexRows
    <3> QED
      BY <1>2, <2>2, <3>1, InitializeStep
  <2> QED
    BY <1>2, <2>1, <2>2 DEF Initialize
<1>3. CASE SendToServer(u)
  <2>1. CASE codex.cur /\ ~codex.configErr /\ Write(u, ccall[u].rpc, codex.gen, "wait")
    BY <1>1, <1>3, <2>1, WriteMeans, SentStep DEF SendToServer, At, Sent
  <2>2. CASE Returns(u) /\ UNCHANGED <<serverVars, adapterVars, answers>>
    BY <1>3, <2>2, NotWritten DEF SendToServer, At
  <2> QED
    BY <1>3, <2>1, <2>2 DEF SendToServer
<1>4. CASE RequestOnTarget(u)
  <2>1. CASE IsCurrent(ccall[u].gen) /\ Write(u, "unsubscribe", ccall[u].gen, "wait")
    BY <1>1, <1>4, <2>1, WriteMeans, SentStep DEF RequestOnTarget, At, Sent, IsCurrent
  <2>2. CASE Returns(u) /\ UNCHANGED <<serverVars, adapterVars, answers>>
    BY <1>4, <2>2, NotWritten DEF RequestOnTarget, At
  <2> QED
    BY <1>4, <2>1, <2>2 DEF RequestOnTarget
<1> QED
  BY <1>2, <1>3, <1>4

-----------------------------------------------------------------------------
(***************************************************************************)
(* The steps about questions, the reader and the end of a process.         *)
(***************************************************************************)
WaitingRows == [gen : Nat, turn : TurnNos, responding : BOOLEAN]

\* A call claims, answers or removes a question.
Questioned(u) ==
    /\ UNCHANGED <<codex, proc, inbox, pipe, turns, posed, pend, reply, active>>
    /\ waiting' \in [Questions -> WaitingRows] /\ answers' \in [Servers -> [Questions -> Nat]]
    /\ CallStep(u)
    /\ ccall[u].step \in {"idle", "respond", "responded"}
    /\ ccall'[u].step \in {"idle", "respond", "responded"}
    /\ \/ ccall'[u] = IdleCall
       \/ ccall'[u].op = "respond" /\ ccall'[u].rpc = "none"
       \/ Same(u, "responded", ccall[u].rpc)

\* No question.
LEMMA NoQuestionRow == NoQuestion \in WaitingRows /\ NoQuestion.gen = 0 /\ ~NoQuestion.responding
BY CodexAssumption DEF NoQuestion, WaitingRows, TurnNos

\* A question of the table changes.
LEMMA WaitingRow ==
    ASSUME CodexTypes, NEW q, NEW x \in WaitingRows, waiting' = [waiting EXCEPT ![q] = x]
    PROVE  /\ waiting' \in [Questions -> WaitingRows] /\ (q \in Questions => waiting'[q] = x)
           /\ \A p \in Questions : p # q => waiting'[p] = waiting[p]
BY DEF CodexTypes, WaitingRows

\* A question is being responded to, or not.
LEMMA RespondingRow ==
    ASSUME CodexTypes, NEW q, NEW b \in BOOLEAN, waiting' = [waiting EXCEPT ![q].responding = b]
    PROVE  /\ waiting' \in [Questions -> WaitingRows]
           /\ q \in Questions => /\ waiting'[q].responding = b /\ waiting'[q].gen = waiting[q].gen
           /\ \A p \in Questions : p # q => waiting'[p] = waiting[p]
<1>1. waiting \in [Questions -> WaitingRows]
  BY DEF CodexTypes, WaitingRows
<1>2. CASE q \in Questions
  <2> DEFINE x == [waiting[q] EXCEPT !.responding = b]
  <2>1. x \in WaitingRows /\ x.responding = b /\ x.gen = waiting[q].gen
    BY <1>1, <1>2 DEF WaitingRows
  <2>2. waiting' = [waiting EXCEPT ![q] = x]
    BY <1>1, <1>2
  <2> HIDE DEF x
  <2> QED
    BY <1>2, <2>1, <2>2, WaitingRow
<1>3. CASE q \notin Questions
  BY <1>1, <1>3
<1> QED
  BY <1>2, <1>3

\* RespondPendingRequest.
LEMMA RespondStep ==
    ASSUME CodexTypes, LocksTrue, ServerInv, NEW u \in CCallers, NEW q \in Questions,
           RespondPendingRequest(u, q)
    PROVE  /\ Questioned(u) /\ ccall[u].step = "idle" /\ ccall'[u].step = "respond"
           /\ ccall'[u].id = q /\ ccall'[u].gen = waiting[q].gen
<1>1. u \in Users /\ ccall \in [Users -> CallRows] /\ waiting[q] \in WaitingRows /\ q \in Nat
  BY CodexAssumption DEF Users, CodexTypes, WaitingRows, Questions
<1> DEFINE n == New("respond", NoThread)
           x == [n EXCEPT !.step = "respond", !.id = q, !.gen = waiting[q].gen]
<1>2. n \in CallRows /\ n.op = "respond" /\ n.rpc = "none"
  BY IdleRow DEF New, CallRows, IdleCall, COps, ThreadsOrNone
<1>3. waiting[q].gen \in Nat
  BY <1>1 DEF WaitingRows
<1>4. x \in CallRows /\ x.op = "respond" /\ x.rpc = "none" /\ x.step = "respond" /\ x.id = q
      /\ x.gen = waiting[q].gen
  <2> HIDE DEF n
  <2> QED
    BY <1>1, <1>2, <1>3 DEF CallRows, CodexSteps
<1>5. ccall' = [ccall EXCEPT ![u] = x]
  BY DEF RespondPendingRequest
<1> HIDE DEF x
<1>6. OnlyCall(u) /\ ccall'[u] = x
  BY <1>1, <1>4, <1>5 DEF OnlyCall
<1>7. UNCHANGED <<codex, proc, inbox, pipe, turns, posed, pend, reply, active, answers, tlock>>
      /\ ccall[u].step = "idle"
  BY DEF RespondPendingRequest, serverVars, Idle, At
<1>8. waiting' \in [Questions -> WaitingRows]
  BY RespondingRow DEF RespondPendingRequest
<1>9. LocksKept(u) /\ tlock' \in [CThreads -> Users \cup {NoUser}]
  BY <1>7 DEF LocksKept, CodexTypes
<1>10. CallStep(u)
  BY <1>4, <1>6, <1>9 DEF CallStep, LocksThread
<1>11. answers' \in [Servers -> [Questions -> Nat]]
  BY <1>7 DEF CodexTypes
<1> QED
  BY <1>4, <1>6, <1>7, <1>8, <1>10, <1>11 DEF Questioned

\* WriteResponse: the answer is written, or the claim is given back.
LEMMA WriteResponseStep ==
    ASSUME CodexTypes, LocksTrue, ServerInv, NEW u \in Users, WriteResponse(u)
    PROVE  LET q == ccall[u].id
               g == ccall[u].gen IN
           /\ Questioned(u) /\ ccall[u].step = "respond" /\ q \in Nat
           /\ \/ /\ UNCHANGED waiting /\ codex.cur /\ codex.gen = g /\ g \in Servers
                 /\ ccall'[u].step = "responded"
                 /\ q \in Questions => answers'[g][q] = answers[g][q] + 1
                 /\ \A h \in Servers, p \in Questions : h # g \/ p # q => answers'[h][p] = answers[h][p]
              \/ /\ UNCHANGED answers /\ ccall'[u] = IdleCall
                 /\ waiting' = [waiting EXCEPT ![q].responding = FALSE]
<1> DEFINE q == ccall[u].id
           g == ccall[u].gen
<1>1. /\ UNCHANGED <<codex, proc, inbox, pipe, turns, posed, pend, reply, active>>
      /\ ccall[u].step = "respond"
  BY DEF WriteResponse, serverVars, At
<1>2. waiting \in [Questions -> WaitingRows] /\ answers \in [Servers -> [Questions -> Nat]] /\ q \in Nat
  BY DEF CodexTypes, WaitingRows, CallRows
<1>3. ASSUME codex.cur, codex.gen = g, answers' = [answers EXCEPT ![g][q] = @ + 1],
             To(u, "responded"), UNCHANGED <<waiting, tlock>>
      PROVE  /\ Questioned(u) /\ ccall'[u].step = "responded" /\ g \in Servers
             /\ q \in Questions => answers'[g][q] = answers[g][q] + 1
             /\ \A h \in Servers, p \in Questions : h # g \/ p # q => answers'[h][p] = answers[h][p]
  <2>1. OnlyCall(u) /\ Same(u, "responded", ccall[u].rpc)
    BY <1>3, ToRow DEF CodexSteps
  <2>2. CallStep(u)
    BY <1>3, <2>1, SameStep DEF CodexSteps
  <2>3. g \in Servers
    BY <1>3 DEF ServerInv, ServersTrue
  <2> DEFINE a == [answers[g] EXCEPT ![q] = @ + 1]
  <2>4. a \in [Questions -> Nat] /\ (q \in Questions => a[q] = answers[g][q] + 1)
        /\ \A p \in Questions : p # q => a[p] = answers[g][p]
    <3> DEFINE b == answers[g]
               r == ccall[u].id
    <3>1. b \in [Questions -> Nat]
      BY <1>2, <2>3
    <3> HIDE DEF b, r
    <3>2. \A p \in Questions : [b EXCEPT ![r] = @ + 1][p] = IF p = r THEN b[p] + 1 ELSE b[p]
      BY <3>1
    <3>3. [b EXCEPT ![r] = @ + 1] \in [Questions -> Nat]
      <4>1. \A p \in Questions : b[p] \in Nat /\ b[p] + 1 \in Nat
        BY <3>1
      <4>2. [b EXCEPT ![r] = @ + 1] = [p \in Questions |-> IF p = r THEN b[r] + 1 ELSE b[p]]
        BY <3>1
      <4> QED
        BY <4>1, <4>2
    <3>4. a = [b EXCEPT ![r] = @ + 1]
      BY DEF b, r
    <3> QED
      BY <3>2, <3>3, <3>4 DEF b, r
  <2>5. answers' = [answers EXCEPT ![g] = a]
    BY <1>3
  <2> HIDE DEF a
  <2>6. /\ answers' \in [Servers -> [Questions -> Nat]] /\ answers'[g] = a
        /\ \A h \in Servers : h # g => answers'[h] = answers[h]
    BY <1>2, <2>3, <2>4, <2>5
  <2>7. Questioned(u)
    BY <1>1, <1>2, <1>3, <2>1, <2>2, <2>6 DEF Questioned, Same
  <2> QED
    BY <2>1, <2>3, <2>4, <2>6, <2>7 DEF Same
<1>4. ASSUME waiting' = [waiting EXCEPT ![q].responding = FALSE], Returns(u), UNCHANGED answers
      PROVE  Questioned(u) /\ ccall'[u] = IdleCall
  <2>1. CallStep(u) /\ ccall'[u] = IdleCall
    BY <1>4, ReturnStep
  <2>2. waiting' \in [Questions -> WaitingRows]
    BY <1>4, RespondingRow
  <2> QED
    BY <1>1, <1>2, <1>4, <2>1, <2>2, IdleRow DEF Questioned
<1> QED
  BY <1>1, <1>2, <1>3, <1>4 DEF WriteResponse

\* The question is removed.
LEMMA RespondedStep ==
    ASSUME CodexTypes, LocksTrue, ServerInv, NEW u \in Users, Responded(u)
    PROVE  /\ Questioned(u) /\ ccall[u].step = "responded" /\ ccall'[u] = IdleCall
           /\ UNCHANGED answers
           /\ \A q \in Questions : waiting'[q] = waiting[q] \/ waiting'[q] = NoQuestion
<1>1. /\ UNCHANGED <<codex, proc, inbox, pipe, turns, posed, pend, reply, active, answers>>
      /\ ccall[u].step = "responded" /\ Returns(u)
      /\ waiting' = [waiting EXCEPT ![ccall[u].id] = NoQuestion]
  BY DEF Responded, serverVars, At
<1>2. CallStep(u) /\ ccall'[u] = IdleCall
  BY <1>1, ReturnStep
<1>3. /\ waiting' \in [Questions -> WaitingRows]
      /\ \A q \in Questions : waiting'[q] = waiting[q] \/ waiting'[q] = NoQuestion
  BY <1>1, NoQuestionRow, WaitingRow
<1>4. answers' \in [Servers -> [Questions -> Nat]]
  BY <1>1 DEF CodexTypes
<1> QED
  BY <1>1, <1>2, <1>3, <1>4, IdleRow DEF Questioned

-----------------------------------------------------------------------------
ActiveRows == [turn : TurnNos, gen : Nat]

\* What is sent to a process, and what it says.
InboxTrue ==
    \A g \in Servers : \A r \in inbox[g] :
        /\ r.id \in ReqIds /\ r.id <= codex.nextID /\ Runs(g) /\ g = codex.gen
        /\ r.rpc = "interrupt" => r.turn \in Turns
        /\ r.rpc = "turn" => r.s \in CThreads
MessagesTrue ==
    \A g \in Servers : \A m \in Said(g) :
        /\ m.kind = "answer" => m.result \in AnswerResults /\ m.n \in ReqIds /\ m.n <= codex.nextID
        /\ m.kind \in {"started", "completed"} => m.turn \in Turns
        /\ m.kind \in {"ask", "resolved"} => m.n \in Questions
RunningTrue ==
    \A t \in Turns : turns[t].state = "running" =>
        /\ turns[t].gen \in Servers /\ turns[t].gen = codex.gen /\ Runs(turns[t].gen)
        /\ turns[t].s \in CThreads
Waits(u) == ccall[u].step \in {"wait", "init"}
WaitsTrue ==
    \A u \in Users : Waits(u) =>
        /\ ccall[u].id \in ReqIds /\ ccall[u].id <= codex.nextID
        /\ ccall[u].gen \in Servers /\ ccall[u].gen <= codex.gen
BaseInv ==
    /\ CodexTypes /\ LocksTrue /\ ServerInv /\ InboxTrue /\ MessagesTrue /\ RunningTrue
    /\ WaitsTrue

\* What the reader does with a message of the current process.
ReadsAnswer(g, m) ==
    /\ m.kind = "answer" /\ UNCHANGED <<codex, active, waiting, ccall>>
    /\ pend' \in [ReqIds -> Nat] /\ reply' \in [ReqIds -> Replies]
    /\ \A i \in ReqIds : \/ pend'[i] = pend[i] /\ reply'[i] = reply[i]
                         \/ /\ i = m.n /\ pend[i] = g /\ pend'[i] = 0
                            /\ reply'[i].result = m.result /\ reply'[i].turn = m.turn
ReadsStart(g, m) ==
    /\ m.kind = "started" /\ UNCHANGED <<codex, pend, reply, waiting, ccall>>
    /\ active' \in [CThreads -> ActiveRows]
    /\ \A s \in CThreads : IF s = turns[m.turn].s THEN active'[s].turn = m.turn
                           ELSE active'[s] = active[s]
ReadsEnd(g, m) ==
    /\ m.kind = "completed" /\ UNCHANGED <<codex, pend, reply, waiting>>
    /\ active' \in [CThreads -> ActiveRows]
    /\ \A s \in CThreads : active'[s] = active[s] \/ s = turns[m.turn].s
    /\ \E u \in Users : /\ CallStep(u) /\ ccall[u].step = "idle" /\ ccall'[u].step = "unload"
                        /\ ccall'[u].op = "unload" /\ ccall'[u].rpc = "none"
ReadsAsk(g, m) ==
    /\ m.kind = "ask" /\ UNCHANGED <<codex, pend, reply, active, ccall>>
    /\ waiting' \in [Questions -> WaitingRows]
    /\ \A q \in Questions : \/ waiting'[q] = waiting[q]
                            \/ /\ q = m.n /\ waiting[q].gen = 0 /\ waiting'[q].gen = g
                               /\ ~waiting'[q].responding
ReadsSettled(g, m) ==
    /\ m.kind = "resolved" /\ UNCHANGED <<codex, pend, reply, active, ccall>>
    /\ waiting' \in [Questions -> WaitingRows]
    /\ \A q \in Questions : waiting'[q] = waiting[q] \/ waiting'[q] = NoQuestion
ReadsWarning(g, m) ==
    /\ m.kind = "config" /\ UNCHANGED <<pend, reply, active, waiting, ccall>>
    /\ CodexIs(codex.gen, codex.cur, codex.quarantined, TRUE, codex.closed, codex.gate, codex.nextID)
Reads(g, m) ==
    \/ ReadsAnswer(g, m) \/ ReadsStart(g, m) \/ ReadsEnd(g, m) \/ ReadsAsk(g, m)
    \/ ReadsSettled(g, m) \/ ReadsWarning(g, m)

\* readLoop.
LEMMA ReadStep ==
    ASSUME BaseInv, NEW g \in Servers, ReadLoop(g)
    PROVE  /\ PipeReads(g) /\ pipe[g][1] \in Said(g)
           /\ UNCHANGED <<proc, inbox, turns, posed, tlock, answers>>
           /\ \/ ~IsCurrent(g) /\ UNCHANGED <<codex, pend, reply, active, waiting, ccall>>
              \/ IsCurrent(g) /\ Reads(g, pipe[g][1])
<1> DEFINE m == pipe[g][1]
<1> USE CodexAssumption DEF BaseInv
<1>1. PipeReads(g) /\ m = Head(pipe[g]) /\ m \in Said(g)
  <2>1. PipeReads(g)
    BY ReadsOne DEF ReadLoop
  <2> QED
    BY <2>1 DEF PipeReads
<1>2. /\ m \in Messages /\ m.kind \in MessageKinds /\ m.n \in Nat /\ m.turn \in TurnNos
      /\ m.result \in MessageResults
  BY <1>1, SaidRow
<1>3. /\ m.kind \in {"started", "completed"} => m.turn \in Turns
      /\ m.kind \in {"ask", "resolved"} => m.n \in Questions
      /\ m.kind = "answer" => m.result \in CResults
  BY <1>1 DEF MessagesTrue, AnswerResults
<1>4. UNCHANGED <<proc, inbox, turns, posed, tlock, answers>>
  BY DEF ReadLoop
<1>5. g \in Nat /\ active \in [CThreads -> ActiveRows] /\ turns \in [Turns -> TurnRows]
      /\ ccall \in [Users -> CallRows] /\ codex \in CodexRows /\ waiting \in [Questions -> WaitingRows]
  BY DEF Servers, CodexTypes, ActiveRows, WaitingRows
<1>6. ASSUME m.kind = "answer", Delivered(g, m), UNCHANGED <<codex, active, waiting, ccall>>
      PROVE  ReadsAnswer(g, m)
  <2>1. pend \in [ReqIds -> Nat] /\ reply \in [ReqIds -> Replies]
    BY DEF CodexTypes
  <2>2. CASE UNCHANGED <<pend, reply>>
    BY <1>6, <2>1, <2>2 DEF ReadsAnswer
  <2>3. CASE /\ pend[m.n] = g /\ pend' = [pend EXCEPT ![m.n] = 0]
             /\ reply' = [reply EXCEPT ![m.n] = Answer(m.result, m.turn)]
    <3> DEFINE a == Answer(m.result, m.turn)
    <3>1. a \in Replies /\ a.result = m.result /\ a.turn = m.turn
      BY <1>2, <1>3, <1>6 DEF Answer, Replies
    <3>2. pend' \in [ReqIds -> Nat] /\ \A i \in ReqIds : pend'[i] = IF i = m.n THEN 0 ELSE pend[i]
      BY <2>1, <2>3
    <3>3. reply' = [reply EXCEPT ![m.n] = a]
      BY <2>3
    <3> HIDE DEF a
    <3>4. reply' \in [ReqIds -> Replies] /\ \A i \in ReqIds : reply'[i] = IF i = m.n THEN a ELSE reply[i]
      BY <2>1, <3>1, <3>3
    <3> QED
      BY <1>6, <2>3, <3>1, <3>2, <3>4 DEF ReadsAnswer
  <2> QED
    BY <1>6, <2>2, <2>3 DEF Delivered
<1>7. ASSUME m.kind = "started", Began(g, m), UNCHANGED <<codex, pend, reply, waiting, ccall>>
      PROVE  ReadsStart(g, m)
  <2> DEFINE s == turns[m.turn].s
             x == [turn |-> m.turn, gen |-> g]
  <2>1. x \in ActiveRows /\ x.turn = m.turn
    BY <1>2, <1>5 DEF ActiveRows
  <2>2. active' = [active EXCEPT ![s] = x]
    BY <1>7 DEF Began
  <2> HIDE DEF s, x
  <2>3. active' \in [CThreads -> ActiveRows] /\ \A v \in CThreads : active'[v] = IF v = s THEN x ELSE active[v]
    BY <1>5, <2>1, <2>2
  <2> QED
    BY <1>7, <2>1, <2>3 DEF ReadsStart, s
<1>8. ASSUME m.kind = "completed", Ended(g, m), UNCHANGED <<codex, pend, reply, waiting>>
      PROVE  ReadsEnd(g, m)
  <2> DEFINE s == turns[m.turn].s
             x == [turn |-> 0, gen |-> 0]
  <2>1. x \in ActiveRows
    BY <1>2, <1>5 DEF ActiveRows, TurnNos
  <2>2. active' = [active EXCEPT ![s] = x] \/ active' = active
    BY <1>8 DEF Ended
  <2>3. s \in ThreadsOrNone
    BY <1>3, <1>5, <1>8 DEF TurnRows
  <2>4. PICK u \in CUnloaders :
           /\ Idle(u)
           /\ ccall' = [ccall EXCEPT ![u] = [New("unload", s) EXCEPT !.step = "unload", !.gen = g]]
    BY <1>8 DEF Ended
  <2> HIDE DEF s, x
  <2>5. active' \in [CThreads -> ActiveRows] /\ \A v \in CThreads : active'[v] = active[v] \/ v = s
    BY <1>5, <2>1, <2>2
  <2>6. u \in Users /\ ccall[u].step = "idle"
    BY <2>4 DEF Users, Idle, At
  <2> DEFINE n == New("unload", s)
             c == [n EXCEPT !.step = "unload", !.gen = g]
  <2>7. n \in CallRows /\ n.op = "unload" /\ n.rpc = "none"
    BY <2>3, IdleRow DEF New, CallRows, IdleCall, COps
  <2>8. c \in CallRows /\ c.op = "unload" /\ c.rpc = "none" /\ c.step = "unload"
    <3> HIDE DEF n
    <3> QED
      BY <1>5, <2>7 DEF CallRows, CodexSteps
  <2>9. ccall' = [ccall EXCEPT ![u] = c]
    BY <2>4
  <2> HIDE DEF c
  <2>10. OnlyCall(u) /\ ccall'[u] = c
    BY <1>5, <2>6, <2>8, <2>9 DEF OnlyCall
  <2>11. LocksKept(u) /\ tlock' \in [CThreads -> Users \cup {NoUser}]
    BY <1>4 DEF LocksKept, CodexTypes
  <2>12. CallStep(u)
    BY <2>8, <2>10, <2>11 DEF CallStep, LocksThread
  <2> QED
    BY <1>8, <2>5, <2>6, <2>8, <2>10, <2>12 DEF ReadsEnd, s
<1>9. ASSUME m.kind = "ask", Asked(g, m), UNCHANGED <<codex, pend, reply, active, ccall>>
      PROVE  ReadsAsk(g, m)
  <2>1. CASE UNCHANGED waiting
    BY <1>5, <1>9, <2>1 DEF ReadsAsk
  <2>2. CASE /\ waiting[m.n].gen = 0
             /\ waiting' = [waiting EXCEPT ![m.n] = [gen |-> g, turn |-> m.turn, responding |-> FALSE]]
    <3> DEFINE x == [gen |-> g, turn |-> m.turn, responding |-> FALSE]
    <3>1. x \in WaitingRows /\ x.gen = g /\ ~x.responding
      BY <1>2, <1>5 DEF WaitingRows
    <3>2. waiting' = [waiting EXCEPT ![m.n] = x]
      BY <2>2
    <3> HIDE DEF x
    <3>3. /\ waiting' \in [Questions -> WaitingRows] /\ (m.n \in Questions => waiting'[m.n] = x)
          /\ \A p \in Questions : p # m.n => waiting'[p] = waiting[p]
      BY <3>1, <3>2, WaitingRow
    <3> QED
      BY <1>3, <1>9, <2>2, <3>1, <3>3 DEF ReadsAsk
  <2> QED
    BY <1>9, <2>1, <2>2 DEF Asked
<1>10. ASSUME m.kind = "resolved", UNCHANGED <<codex, pend, reply, active, ccall>>,
              waiting' = [waiting EXCEPT ![m.n] = IF @.gen = g THEN NoQuestion ELSE @]
       PROVE  ReadsSettled(g, m)
  <2> DEFINE x == IF waiting[m.n].gen = g THEN NoQuestion ELSE waiting[m.n]
  <2>1. m.n \in Questions /\ waiting[m.n] \in WaitingRows
    BY <1>3, <1>5, <1>10
  <2>2. x \in WaitingRows /\ x \in {NoQuestion, waiting[m.n]}
    BY <2>1, NoQuestionRow
  <2>3. waiting' = [waiting EXCEPT ![m.n] = x]
    BY <1>5, <1>10, <2>1
  <2> HIDE DEF x
  <2>4. /\ waiting' \in [Questions -> WaitingRows] /\ waiting'[m.n] = x
        /\ \A p \in Questions : p # m.n => waiting'[p] = waiting[p]
    BY <2>1, <2>2, <2>3, WaitingRow
  <2> QED
    BY <1>10, <2>2, <2>4 DEF ReadsSettled
<1>11. ASSUME m.kind = "config", codex' = [codex EXCEPT !.configErr = TRUE],
              UNCHANGED <<pend, reply, active, waiting, ccall>>
       PROVE  ReadsWarning(g, m)
  BY <1>5, <1>11 DEF ReadsWarning, CodexIs, CodexRows
<1>12. \/ ~IsCurrent(g) /\ UNCHANGED <<codex, pend, reply, active, waiting, ccall>>
       \/ IsCurrent(g) /\ Reads(g, m)
  <2>1. CASE ~IsCurrent(g)
    BY <2>1 DEF ReadLoop, adapterVars
  <2>2. CASE IsCurrent(g)
    <3> HIDE DEF m
    <3> QED
      BY <1>1, <1>6, <1>7, <1>8, <1>9, <1>10, <1>11, <2>2 DEF ReadLoop, Reads
  <2> QED
    BY <2>1, <2>2
<1> QED
  BY <1>1, <1>4, <1>12

-----------------------------------------------------------------------------
(***************************************************************************)
(* The end of a process, and the app-server.                               *)
(***************************************************************************)
\* The end of a process is handled.
Finishes(g) ==
    /\ UNCHANGED <<inbox, turns, posed, tlock, ccall, answers>>
    /\ g = codex.gen /\ codex.cur /\ proc[g] = "dead"
    /\ proc' \in [Servers -> ProcStates] /\ proc'[g] = "reaped"
    /\ \A h \in Servers \ {g} : proc'[h] = proc[h]
    /\ pipe' \in [Servers -> Seq(Messages)] /\ pipe'[g] = <<>>
    /\ \A h \in Servers \ {g} : pipe'[h] = pipe[h]
    /\ CodexIs(codex.gen, FALSE, FALSE, FALSE, codex.closed, codex.gate, codex.nextID)
    /\ pend' \in [ReqIds -> Nat] /\ reply' \in [ReqIds -> Replies]
    /\ \A i \in ReqIds : IF pend[i] = g THEN pend'[i] = 0 /\ reply'[i].result = "exited"
                         ELSE pend'[i] = pend[i] /\ reply'[i] = reply[i]
    /\ waiting' = [q \in Questions |-> NoQuestion]
    /\ active' \in [CThreads -> ActiveRows]

\* A process runs, or has ended, is the current one or about to be.
LEMMA CurrentProcess ==
    ASSUME BaseInv, NEW g \in Servers, proc[g] \in {"closing", "dead"} \/ (Runs(g) /\ codex.gen >= g)
    PROVE  g = codex.gen /\ codex.cur
<1>1. codex.gen \in Nat /\ Servers = 1..MaxServers /\ MaxServers \in Nat
  BY CodexAssumption DEF BaseInv, CodexTypes, CodexRows, Servers
<1>2. CASE g < codex.gen
  BY <1>2 DEF BaseInv, ServerInv, ServersTrue, Runs
<1>3. CASE g > codex.gen
  <2>1. proc[g] \in {"closing", "dead"}
    BY <1>1, <1>3
  <2>2. g = codex.gen + 1 /\ \E u \in Users : Publishing(u)
    BY <1>3, <2>1 DEF BaseInv, ServerInv, ServersTrue
  <2> QED
    BY <2>1, <2>2 DEF BaseInv, ServerInv, ServersTrue
<1>4. CASE g = codex.gen
  BY <1>1, <1>4 DEF BaseInv, ServerInv, ServersTrue, Runs
<1> QED
  BY <1>1, <1>2, <1>3, <1>4

\* waitLoop and finishProcess.
LEMMA FinishStep ==
    ASSUME BaseInv, NEW g \in Servers, FinishProcess(g)
    PROVE  Finishes(g) /\ ServerInv'
<1> USE CodexAssumption
<1>1. proc[g] = "dead" /\ g = codex.gen /\ codex.cur
  BY CurrentProcess DEF FinishProcess
<1>2. /\ codex \in CodexRows /\ proc \in [Servers -> ProcStates] /\ pipe \in [Servers -> Seq(Messages)]
      /\ pend \in [ReqIds -> Nat] /\ reply \in [ReqIds -> Replies]
  BY DEF BaseInv, CodexTypes
<1>3. UNCHANGED <<inbox, turns, posed, tlock, ccall, answers>>
  BY DEF FinishProcess
<1>4. /\ proc' \in [Servers -> ProcStates] /\ proc'[g] = "reaped"
      /\ \A h \in Servers \ {g} : proc'[h] = proc[h]
  BY <1>2 DEF FinishProcess, ProcStates
<1>5. /\ pipe' \in [Servers -> Seq(Messages)] /\ pipe'[g] = <<>>
      /\ \A h \in Servers \ {g} : pipe'[h] = pipe[h]
  <2>1. <<>> \in Seq(Messages)
    OBVIOUS
  <2>2. pipe' = [pipe EXCEPT ![g] = <<>>]
    BY DEF FinishProcess
  <2> QED
    BY <1>2, <2>1, <2>2
<1>6. CodexIs(codex.gen, FALSE, FALSE, FALSE, codex.closed, codex.gate, codex.nextID)
  <2>1. codex' = [codex EXCEPT !.cur = FALSE, !.quarantined = FALSE, !.configErr = FALSE]
    BY <1>1 DEF FinishProcess
  <2> QED
    BY <1>2, <2>1 DEF CodexIs, CodexRows
<1>7. /\ pend' \in [ReqIds -> Nat]
      /\ \A i \in ReqIds : pend'[i] = IF pend[i] = g THEN 0 ELSE pend[i]
  BY <1>2 DEF FinishProcess
<1>8. /\ reply' \in [ReqIds -> Replies]
      /\ \A i \in ReqIds : reply'[i] = IF pend[i] = g THEN Answer("exited", 0) ELSE reply[i]
  <2> DEFINE a == Answer("exited", 0)
  <2>1. a \in Replies
    BY DEF Answer, Replies, CResults, TurnNos
  <2>2. reply' = [i \in ReqIds |-> IF pend[i] = g THEN a ELSE reply[i]]
    BY DEF FinishProcess
  <2> HIDE DEF a
  <2>3. reply' \in [ReqIds -> Replies] /\ \A i \in ReqIds : reply'[i] = IF pend[i] = g THEN a ELSE reply[i]
    BY <1>2, <2>1, <2>2
  <2> QED
    BY <2>3 DEF a
<1>9. Answer("exited", 0).result = "exited"
  BY DEF Answer
<1>10. waiting' = [q \in Questions |-> NoQuestion]
  BY <1>1 DEF FinishProcess
<1>11. active' \in [CThreads -> ActiveRows]
  <2> DEFINE x == [turn |-> 0, gen |-> 0]
  <2>1. x \in ActiveRows
    BY DEF ActiveRows, TurnNos
  <2>2. active' = [s \in CThreads |-> x]
    BY <1>1 DEF FinishProcess
  <2> HIDE DEF x
  <2> QED
    BY <2>1, <2>2
<1>12. Finishes(g)
  BY <1>1, <1>3, <1>4, <1>5, <1>6, <1>7, <1>8, <1>9, <1>10, <1>11 DEF Finishes
<1>13. ServerInv'
  <2>1. GateHeld'
    BY <1>3, <1>6 DEF BaseInv, ServerInv, GateHeld, CodexIs, Holds
  <2>2. \A u \in Users : ~Publishing(u)
    BY <1>1 DEF BaseInv, ServerInv, ServersTrue
  <2>3. \A h \in Servers : h > codex.gen => proc'[h] \in {"none", "reaped"}
    BY <1>1, <1>4, <2>2 DEF BaseInv, ServerInv, ServersTrue
  <2>5. codex.gen \in Servers
    BY <1>1
  <2>6. \A h \in Servers : h < codex.gen => proc'[h] = "reaped"
    <3>1. \A h \in Servers : h < codex.gen => h # g /\ proc[h] = "reaped"
      BY <1>1 DEF BaseInv, ServerInv, ServersTrue, Servers
    <3> QED
      BY <1>4, <3>1
  <2>7. proc'[codex.gen] = "reaped"
    BY <1>1, <1>4
  <2>8. ServersTrue'
    BY <1>3, <1>6, <2>2, <2>3, <2>5, <2>6, <2>7 DEF ServersTrue, CodexIs, Publishing
  <2> QED
    BY <2>1, <2>8 DEF ServerInv
<1> QED
  BY <1>12, <1>13

\* A process ends.
Exits(g) ==
    /\ UNCHANGED <<codex, pipe, posed, pend, reply, active, waiting, tlock, ccall, answers>>
    /\ g = codex.gen /\ codex.cur /\ Runs(g)
    /\ proc' \in [Servers -> ProcStates] /\ proc'[g] = "dead"
    /\ \A h \in Servers \ {g} : proc'[h] = proc[h]
    /\ inbox' \in [Servers -> SUBSET Requests] /\ inbox'[g] = {}
    /\ \A h \in Servers \ {g} : inbox'[h] = inbox[h]
    /\ turns' \in [Turns -> TurnRows]
    /\ \A t \in Turns : /\ turns'[t].s = turns[t].s /\ turns'[t].gen = turns[t].gen
                        /\ IF turns[t].gen = g /\ turns[t].state = "running" THEN turns'[t].state = "lost"
                           ELSE turns'[t].state = turns[t].state

\* A process ends.
LEMMA ExitStep ==
    ASSUME BaseInv, NEW g \in Servers, Exit(g)
    PROVE  Exits(g) /\ ServerInv'
<1>1. /\ UNCHANGED <<codex, pipe, posed, pend, reply, active, waiting, tlock, ccall, answers>>
      /\ Runs(g) /\ codex.gen >= g
  BY DEF Exit, adapterVars, Runs
<1>2. g = codex.gen /\ codex.cur
  BY <1>1, CurrentProcess
<1>3. /\ proc \in [Servers -> ProcStates] /\ inbox \in [Servers -> SUBSET Requests]
      /\ turns \in [Turns -> TurnRows] /\ codex \in CodexRows
  BY DEF BaseInv, CodexTypes
<1>4. /\ proc' \in [Servers -> ProcStates] /\ proc'[g] = "dead"
      /\ \A h \in Servers \ {g} : proc'[h] = proc[h]
  BY <1>3 DEF Exit, ProcStates
<1>5. /\ inbox' \in [Servers -> SUBSET Requests] /\ inbox'[g] = {}
      /\ \A h \in Servers \ {g} : inbox'[h] = inbox[h]
  BY <1>3 DEF Exit
<1>6. /\ turns' \in [Turns -> TurnRows]
      /\ \A t \in Turns : /\ turns'[t].s = turns[t].s /\ turns'[t].gen = turns[t].gen
                          /\ IF turns[t].gen = g /\ turns[t].state = "running" THEN turns'[t].state = "lost"
                             ELSE turns'[t].state = turns[t].state
  <2> DEFINE x(t) == [turns[t] EXCEPT !.state = "lost"]
  <2>1. ASSUME NEW t \in Turns
        PROVE  x(t) \in TurnRows /\ x(t).s = turns[t].s /\ x(t).gen = turns[t].gen /\ x(t).state = "lost"
    BY <1>3 DEF TurnRows
  <2>2. turns' = [t \in Turns |-> IF turns[t].gen = g /\ turns[t].state = "running" THEN x(t) ELSE turns[t]]
    BY DEF Exit
  <2> HIDE DEF x
  <2> QED
    BY <1>3, <2>1, <2>2
<1>7. Exits(g)
  BY <1>1, <1>2, <1>4, <1>5, <1>6 DEF Exits
<1>8. \A v \in Users : /\ Holds(v)' => codex'.gate = v
                       /\ Publishing(v)' <=> Publishing(v)
                       /\ ccall'[v].step \in {"hello", "init"} => codex.gen \in Servers
  BY <1>1 DEF BaseInv, ServerInv, ServersTrue, GateHeld, Holds, Publishing
<1>9. ServerInv'
  <2>1. CodexTypes /\ ServerInv /\ codex' \in CodexRows /\ codex' = codex
    BY <1>1, <1>3 DEF BaseInv
  <2>2. \A h \in Servers : \/ proc'[h] = proc[h]
                           \/ /\ h = codex.gen /\ codex.cur /\ proc'[h] \in {"closing", "dead"}
                              /\ proc[h] \in {"live", "closing"}
    BY <1>1, <1>2, <1>4 DEF Runs
  <2>3. proc'[codex.gen] # "live"
    BY <1>2, <1>4
  <2> QED
    BY <1>2, <1>8, <2>1, <2>2, <2>3, ServerFrame
<1> QED
  BY <1>7, <1>9

-----------------------------------------------------------------------------
\* The process g says the messages of M.
Speaks(g, M) ==
    /\ UNCHANGED <<codex, proc, pend, reply, active, waiting, tlock, ccall, answers>>
    /\ Runs(g) /\ PipeGrows(g, M)

\* The turn t ends.
TurnEnded(t) ==
    /\ turns[t].state = "running" /\ turns' \in [Turns -> TurnRows]
    /\ turns'[t].state = "ended" /\ turns'[t].s = turns[t].s /\ turns'[t].gen = turns[t].gen
    /\ \A v \in Turns \ {t} : turns'[v] = turns[v]

\* A request is handled: with an answer alone, with a new turn, or with the end of one.
ServesPlain(g, r) ==
    /\ UNCHANGED turns
    /\ \E m \in Messages : /\ Speaks(g, {m}) /\ m.kind = "answer" /\ m.n = r.id /\ m.result \in AnswerResults
                           /\ r.rpc = "turn" => m.result # "ok"
ServesTurn(g, r) ==
    /\ r.rpc = "turn" /\ turns' \in [Turns -> TurnRows]
    /\ \E t \in Turns : \E m, n \in Messages :
           /\ turns[t].state = "none" /\ turns'[t].state = "running" /\ turns'[t].gen = g
           /\ turns'[t].s = r.s /\ \A v \in Turns \ {t} : turns'[v] = turns[v]
           /\ m.kind = "answer" /\ m.n = r.id /\ m.result = "ok" /\ m.turn = t
           /\ n.kind = "started" /\ n.turn = t
           /\ Speaks(g, {m, n})
ServesInterrupt(g, r) ==
    /\ r.rpc = "interrupt" /\ r.turn \in Turns /\ turns[r.turn].gen = g /\ TurnEnded(r.turn)
    /\ \E m, n \in Messages :
           /\ m.kind = "answer" /\ m.n = r.id /\ m.result = "ok"
           /\ n.kind = "completed" /\ n.turn = r.turn
           /\ Speaks(g, {m, n})
Serves(g, r) ==
    /\ r \in inbox[g] /\ UNCHANGED posed
    /\ inbox' \in [Servers -> SUBSET Requests] /\ inbox'[g] = inbox[g] \ {r}
    /\ \A h \in Servers \ {g} : inbox'[h] = inbox[h]
    /\ ServesPlain(g, r) \/ ServesTurn(g, r) \/ ServesInterrupt(g, r)

\* A turn ends.
LEMMA TurnEndedRow ==
    ASSUME CodexTypes, NEW t \in Turns, turns[t].state = "running",
           turns' = [turns EXCEPT ![t].state = "ended"]
    PROVE  TurnEnded(t)
<1> DEFINE x == [turns[t] EXCEPT !.state = "ended"]
<1>1. turns \in [Turns -> TurnRows]
  BY DEF CodexTypes
<1>2. x \in TurnRows /\ x.state = "ended" /\ x.s = turns[t].s /\ x.gen = turns[t].gen
  BY <1>1 DEF TurnRows
<1>3. turns' = [turns EXCEPT ![t] = x]
  BY <1>1
<1> HIDE DEF x
<1> QED
  BY <1>1, <1>2, <1>3 DEF TurnEnded

\* Serve.
LEMMA ServeStep ==
    ASSUME BaseInv, NEW g \in Servers, NEW r \in inbox[g], Serve(g, r)
    PROVE  Serves(g, r)
<1>1. /\ r \in Requests /\ r.id \in Nat /\ r.rpc \in CRpcs /\ r.s \in ThreadsOrNone /\ r.turn \in TurnNos
      /\ r.rpc = "interrupt" => r.turn \in Turns
      /\ CodexTypes
  BY DEF BaseInv, CodexTypes, Requests, InboxTrue
<1>2. /\ inbox' \in [Servers -> SUBSET Requests] /\ inbox'[g] = inbox[g] \ {r}
      /\ \A h \in Servers \ {g} : inbox'[h] = inbox[h]
  <2>1. inbox' = [inbox EXCEPT ![g] = @ \ {r}] /\ inbox \in [Servers -> SUBSET Requests]
    BY <1>1 DEF Serve, CodexTypes
  <2> QED
    BY <2>1
<1>3. UNCHANGED <<codex, proc, pend, reply, active, waiting, tlock, ccall, answers, posed>> /\ Runs(g)
  BY DEF Serve, adapterVars
<1>4. ASSUME NEW result \in AnswerResults, r.rpc = "turn" => result # "ok",
             Says(g, <<Message("answer", r.id, 0, result)>>), UNCHANGED turns
      PROVE  ServesPlain(g, r)
  <2> DEFINE m == Message("answer", r.id, 0, result)
  <2>0. "answer" \in MessageKinds /\ result \in MessageResults
    BY DEF MessageKinds, MessageResults, AnswerResults, CResults
  <2>00. 0 \in TurnNos
    BY CodexAssumption DEF TurnNos
  <2>1. /\ m \in Messages /\ m.kind = "answer" /\ m.n = r.id /\ m.result = result
    BY <1>1, <2>0, <2>00, MessageRow
  <2>2. Says(g, <<m>>)
    BY <1>4
  <2> HIDE DEF m
  <2>3. PipeGrows(g, {m})
    BY <1>1, <2>1, <2>2, SaysOne
  <2>4. Speaks(g, {m})
    BY <1>3, <2>3 DEF Speaks
  <2> QED
    BY <1>4, <2>1, <2>4 DEF ServesPlain
<1> DEFINE Both(k, t, v) == Says(g, <<Message("answer", r.id, t, "ok")>> \o <<Message(k, 0, v, "")>>)
       Tells(k, t, v) ==
               \E m, n \in Messages :
               /\ m.kind = "answer" /\ m.n = r.id /\ m.result = "ok" /\ m.turn = t
               /\ n.kind = k /\ n.turn = v
               /\ Speaks(g, {m, n})
<1> HIDE DEF Both, Tells
<1>5. ASSUME NEW k \in MessageKinds, NEW t \in TurnNos, NEW v \in TurnNos, Both(k, t, v)
      PROVE  Tells(k, t, v)
  <2> DEFINE m == Message("answer", r.id, t, "ok")
             n == Message(k, 0, v, "")
  <2>0. "answer" \in MessageKinds /\ "ok" \in MessageResults /\ "" \in MessageResults /\ 0 \in Nat
    BY DEF MessageKinds, MessageResults
  <2>1. m \in Messages /\ m.kind = "answer" /\ m.n = r.id /\ m.result = "ok" /\ m.turn = t
    BY <1>1, <2>0 DEF Message, Messages
  <2>11. n \in Messages /\ n.kind = k /\ n.turn = v
    BY <1>1, <2>0 DEF Message, Messages
  <2>2. Says(g, <<m>> \o <<n>>)
    BY <1>5 DEF Both
  <2> HIDE DEF m, n
  <2>3. PipeGrows(g, {m, n})
    BY <1>1, <2>1, <2>11, <2>2, SaysTwo
  <2>4. Speaks(g, {m, n})
    BY <1>3, <2>3 DEF Speaks
  <2> QED
    BY <2>1, <2>11, <2>4 DEF Tells
<1>6. ASSUME NEW t \in Turns, turns[t].state = "none", r.rpc = "turn",
             turns' = [turns EXCEPT ![t] = [s |-> r.s, gen |-> g, state |-> "running"]],
             Both("started", t, t)
      PROVE  ServesTurn(g, r)
  <2> DEFINE x == [s |-> r.s, gen |-> g, state |-> "running"]
  <2>1. x \in TurnRows /\ x.s = r.s /\ x.gen = g /\ x.state = "running"
    BY <1>1 DEF TurnRows, Servers
  <2>2. turns' = [turns EXCEPT ![t] = x]
    BY <1>6
  <2> HIDE DEF x
  <2>3. turns' \in [Turns -> TurnRows] /\ turns'[t] = x /\ \A v \in Turns \ {t} : turns'[v] = turns[v]
    BY <1>1, <2>1, <2>2 DEF CodexTypes
  <2>4. "started" \in MessageKinds /\ t \in TurnNos
    BY CodexAssumption DEF MessageKinds, TurnNos, Turns
  <2>5. Tells("started", t, t)
    BY <1>5, <1>6, <2>4
  <2> QED
    BY <1>6, <2>1, <2>3, <2>5 DEF ServesTurn, Tells
<1>7. ASSUME r.rpc = "interrupt", turns[r.turn].gen = g, turns[r.turn].state = "running",
             turns' = [turns EXCEPT ![r.turn].state = "ended"],
             Both("completed", 0, r.turn)
      PROVE  ServesInterrupt(g, r)
  <2>1. r.turn \in Turns /\ TurnEnded(r.turn)
    BY <1>1, <1>7, TurnEndedRow
  <2>2. "completed" \in MessageKinds /\ 0 \in TurnNos
    BY CodexAssumption DEF MessageKinds, TurnNos
  <2>3. Tells("completed", 0, r.turn)
    BY <1>1, <1>5, <1>7, <2>2
  <2> QED
    BY <1>7, <2>1, <2>3 DEF ServesInterrupt, Tells
<1>8. {"ok", "error", "missing", "early"} \subseteq AnswerResults
  BY DEF AnswerResults, CResults
<1>9. ServesPlain(g, r) \/ ServesTurn(g, r) \/ ServesInterrupt(g, r)
  BY <1>4, <1>6, <1>7, <1>8 DEF Serve, Both
<1> QED
  BY <1>2, <1>3, <1>9 DEF Serves

\* The other things that a process says.
EndsTurn(t) ==
    /\ turns[t].gen \in Servers /\ TurnEnded(t) /\ UNCHANGED <<inbox, posed>>
    /\ \E m \in Messages : m.kind = "completed" /\ m.turn = t /\ Speaks(turns[t].gen, {m})
Asks(t) ==
    LET g == turns[t].gen IN
    /\ g \in Servers /\ UNCHANGED <<inbox, turns>>
    /\ posed' \in [Servers -> Nat] /\ posed'[g] = posed[g] + 1 /\ posed'[g] \in Questions
    /\ \A h \in Servers \ {g} : posed'[h] = posed[h]
    /\ \E m \in Messages : m.kind = "ask" /\ m.n = posed'[g] /\ Speaks(g, {m})
Settles(g) ==
    /\ UNCHANGED <<inbox, turns, posed>>
    /\ \E m \in Messages : /\ m.kind \in {"resolved", "config"} /\ Speaks(g, {m})
                           /\ m.kind = "resolved" => m.n \in Questions

\* The app-server speaks of its own accord: a turn ends, it asks, or it warns.
LEMMA SpeakStep ==
    ASSUME BaseInv
    PROVE  /\ \A t \in Turns : TurnEnds(t) => EndsTurn(t)
           /\ \A t \in Turns : AskUser(t) => Asks(t)
           /\ \A g \in Servers : ConfigWarning(g) => Settles(g)
           /\ \A g \in Servers, q \in Questions : SettleQuestion(g, q) => Settles(g)
<1>1. /\ CodexTypes /\ 0 \in TurnNos /\ 0 \in Nat /\ Turns \subseteq TurnNos /\ Questions \subseteq Nat
      /\ "completed" \in MessageKinds /\ "ask" \in MessageKinds /\ "resolved" \in MessageKinds
      /\ "config" \in MessageKinds /\ "" \in MessageResults
  BY CodexAssumption DEF BaseInv, TurnNos, Turns, Questions, MessageKinds, MessageResults
<1> DEFINE One(g, k, n, t) == Says(g, <<Message(k, n, t, "")>>) /\ Runs(g)
           Tells(g, k, n, t) ==
               \E m \in Messages : m.kind = k /\ m.n = n /\ m.turn = t /\ Speaks(g, {m})
           Rest == UNCHANGED <<codex, proc, pend, reply, active, waiting, tlock, ccall, answers>>
<1> HIDE DEF One, Tells, Rest
<1>2. ASSUME NEW g \in Servers, NEW k \in MessageKinds, NEW n \in Nat, NEW t \in TurnNos,
             One(g, k, n, t), Rest
      PROVE  Tells(g, k, n, t)
  <2> DEFINE m == Message(k, n, t, "")
  <2>1. m \in Messages /\ m.kind = k /\ m.n = n /\ m.turn = t
    BY <1>1 DEF Message, Messages
  <2>2. Says(g, <<m>>) /\ Runs(g)
    BY <1>2 DEF One
  <2> HIDE DEF m
  <2>3. Speaks(g, {m})
    BY <1>1, <1>2, <2>1, <2>2, SaysOne DEF Speaks, Rest
  <2> QED
    BY <2>1, <2>3 DEF Tells
<1>3. ASSUME NEW t \in Turns, TurnEnds(t) PROVE EndsTurn(t)
  <2>1. turns[t].gen \in Servers
    BY <1>3 DEF TurnEnds, BaseInv, RunningTrue
  <2>2. TurnEnded(t)
    BY <1>1, <1>3, TurnEndedRow DEF TurnEnds
  <2>3. /\ One(turns[t].gen, "completed", 0, t) /\ Rest
        /\ UNCHANGED <<inbox, posed>>
    BY <1>3 DEF TurnEnds, adapterVars, One, Rest
  <2>4. Tells(turns[t].gen, "completed", 0, t)
    BY <1>1, <1>2, <2>1, <2>3
  <2> QED
    BY <2>1, <2>2, <2>3, <2>4 DEF EndsTurn, Tells
<1>4. ASSUME NEW t \in Turns, AskUser(t) PROVE Asks(t)
  <2> DEFINE g == turns[t].gen
  <2>1. g \in Servers
    BY <1>4 DEF AskUser, BaseInv, RunningTrue
  <2>2. /\ One(g, "ask", posed[g] + 1, t) /\ Rest
        /\ posed[g] < MaxQuestions /\ posed' = [posed EXCEPT ![g] = @ + 1]
        /\ UNCHANGED <<inbox, turns>>
    BY <1>4 DEF AskUser, adapterVars, One, Rest
  <2>3. posed \in [Servers -> Nat]
    BY <1>1 DEF CodexTypes
  <2> HIDE DEF g
  <2>4. /\ posed' \in [Servers -> Nat] /\ posed'[g] = posed[g] + 1 /\ posed'[g] \in Questions
        /\ \A h \in Servers \ {g} : posed'[h] = posed[h]
    <3>1. posed[g] \in Nat /\ posed[g] + 1 \in Nat /\ posed[g] + 1 \in 1..MaxQuestions
      BY <2>1, <2>2, <2>3, CodexAssumption
    <3> QED
      BY <2>1, <2>2, <2>3, <3>1 DEF Questions
  <2>5. Tells(g, "ask", posed[g] + 1, t)
    <3>1. posed[g] + 1 \in Nat
      BY <2>1, <2>3
    <3>2. t \in TurnNos
      BY <1>1
    <3> QED
      BY <1>1, <1>2, <2>1, <2>2, <3>1, <3>2
  <2> QED
    BY <2>1, <2>2, <2>4, <2>5 DEF Asks, g, Tells
<1>5. ASSUME NEW g \in Servers, ConfigWarning(g) PROVE Settles(g)
  <2>1. /\ One(g, "config", 0, 0) /\ Rest
        /\ UNCHANGED <<inbox, turns, posed>>
    BY <1>5 DEF ConfigWarning, adapterVars, One, Rest
  <2>2. Tells(g, "config", 0, 0)
    BY <1>1, <1>2, <2>1
  <2> QED
    BY <2>1, <2>2 DEF Settles, Tells
<1>6. ASSUME NEW g \in Servers, NEW q \in Questions, SettleQuestion(g, q) PROVE Settles(g)
  <2>1. /\ One(g, "resolved", q, 0) /\ Rest
        /\ UNCHANGED <<inbox, turns, posed>>
    BY <1>6 DEF SettleQuestion, adapterVars, One, Rest
  <2>2. Tells(g, "resolved", q, 0)
    BY <1>1, <1>2, <2>1
  <2> QED
    BY <2>1, <2>2 DEF Settles, Tells
<1> QED
  BY <1>3, <1>4, <1>5, <1>6

-----------------------------------------------------------------------------
(***************************************************************************)
(* The steps of the adapter, by what they do.                              *)
(***************************************************************************)
ClaimStep(u) ==
    \E q \in Questions :
        /\ Questioned(u) /\ UNCHANGED answers
        /\ ccall[u].step = "idle" /\ ccall'[u].step = "respond"
        /\ ccall'[u].id = q /\ ccall'[u].gen = waiting[q].gen
        /\ waiting[q].gen # 0 /\ ~waiting[q].responding
        /\ waiting'[q].responding /\ waiting'[q].gen = waiting[q].gen
        /\ \A p \in Questions : p # q => waiting'[p] = waiting[p]
AnswerStep(u) ==
    LET q == ccall[u].id
        g == ccall[u].gen IN
    /\ Questioned(u) /\ ccall[u].step = "respond" /\ q \in Nat
    /\ \/ /\ UNCHANGED waiting /\ codex.cur /\ codex.gen = g /\ g \in Servers
          /\ ccall'[u].step = "responded"
          /\ q \in Questions => answers'[g][q] = answers[g][q] + 1
          /\ \A h \in Servers, p \in Questions : h # g \/ p # q => answers'[h][p] = answers[h][p]
       \/ /\ UNCHANGED answers /\ ccall'[u] = IdleCall
          /\ waiting' = [waiting EXCEPT ![q].responding = FALSE]
RemoveStep(u) ==
    /\ Questioned(u) /\ ccall[u].step = "responded" /\ ccall'[u] = IdleCall
    /\ UNCHANGED answers
    /\ \A q \in Questions : waiting'[q] = waiting[q] \/ waiting'[q] = NoQuestion
ReaderStep(g) ==
    /\ PipeReads(g) /\ pipe[g][1] \in Said(g)
    /\ UNCHANGED <<proc, inbox, turns, posed, tlock, answers>>
    /\ \/ ~IsCurrent(g) /\ UNCHANGED <<codex, pend, reply, active, waiting, ccall>>
       \/ IsCurrent(g) /\ Reads(g, pipe[g][1])
GoroutineStep(u) ==
    CallGoesOn(u) \/ Sent(u) \/ Processed(u) \/ ClaimStep(u) \/ AnswerStep(u) \/ RemoveStep(u)
ProcessStep(g) ==
    ReaderStep(g) \/ Finishes(g) \/ Exits(g) \/ Settles(g) \/ \E r \in inbox[g] : Serves(g, r)
CodexStep ==
    \/ \E u \in Users : GoroutineStep(u)
    \/ Processed(NoUser)
    \/ \E g \in Servers : ProcessStep(g)
    \/ \E t \in Turns : EndsTurn(t) \/ Asks(t)

\* Only the process matters.
LEMMA ServersQuiet ==
    ASSUME BaseInv, UNCHANGED proc, codex' \in CodexRows, codex'.gen = codex.gen, codex'.cur = codex.cur,
           codex'.quarantined = codex.quarantined, codex'.closed = codex.closed,
           codex'.gate = codex.gate,
           \/ UNCHANGED ccall
           \/ \E u \in Users : /\ OnlyCall(u) /\ ~Holds(u)' /\ ~Publishing(u)
    PROVE  ServerInv'
<1>1. \A v \in Users : /\ Holds(v)' => Holds(v)
                       /\ Publishing(v)' <=> Publishing(v)
                       /\ ccall'[v].step \in {"hello", "init"} => ccall[v].step \in {"hello", "init"}
  BY DEF OnlyCall, Holds, Publishing
<1> QED
  BY <1>1, ServerSame DEF BaseInv

\* The actions of the goroutines that call the adapter are such steps.
LEMMA GoroutineSteps ==
    ASSUME BaseInv, NEW u \in Users,
           \/ /\ u \in CCallers
              /\ \/ Query(u) \/ \E s \in CThreads : CodexCalls(u, s)
                 \/ \E q \in Questions : RespondPendingRequest(u, q)
           \/ CodexAnswers(u)
    PROVE  GoroutineStep(u) /\ ServerInv'
<1> USE DEF BaseInv
<1>1. codex \in CodexRows
  BY DEF CodexTypes
<1>2. ASSUME CallGoesOn(u) PROVE ServerInv'
  <2>1. UNCHANGED <<codex, proc>> /\ OnlyCall(u) /\ ~Holds(u)' /\ ~Publishing(u)
    BY <1>2 DEF CallGoesOn, Holds, Publishing
  <2> QED
    BY <1>1, <2>1, ServersQuiet
<1>3. ASSUME Questioned(u) PROVE ServerInv'
  <2>1. UNCHANGED <<codex, proc>> /\ OnlyCall(u) /\ ~Holds(u)' /\ ~Publishing(u)
    BY <1>3 DEF Questioned, CallStep, Holds, Publishing
  <2> QED
    BY <1>1, <2>1, ServersQuiet
<1>4. CASE u \in CCallers /\ Query(u)
  <2>1. CallGoesOn(u)
    BY <1>4, QueryBegins
  <2> QED
    BY <1>2, <2>1 DEF GoroutineStep
<1>11. ASSUME u \in CCallers, NEW s \in CThreads, CodexCalls(u, s)
       PROVE  GoroutineStep(u) /\ ServerInv'
  BY <1>2, <1>11, CallBegins DEF GoroutineStep
<1>5. ASSUME u \in CCallers, NEW q \in Questions, RespondPendingRequest(u, q)
      PROVE  GoroutineStep(u) /\ ServerInv'
  <2>1. /\ Questioned(u) /\ ccall[u].step = "idle" /\ ccall'[u].step = "respond"
        /\ ccall'[u].id = q /\ ccall'[u].gen = waiting[q].gen
    BY <1>5, RespondStep
  <2>2. waiting[q].gen # 0 /\ ~waiting[q].responding /\ UNCHANGED answers
    BY <1>5 DEF RespondPendingRequest
  <2>3. /\ waiting'[q].responding = TRUE /\ waiting'[q].gen = waiting[q].gen
        /\ \A p \in Questions : p # q => waiting'[p] = waiting[p]
    BY <1>5, RespondingRow DEF RespondPendingRequest
  <2> QED
    BY <1>3, <2>1, <2>2, <2>3 DEF GoroutineStep, ClaimStep
<1>6. CASE EnsureStarted(u) \/ PublishStartedProcess(u) \/ Initialized(u) \/ InitializeLate(u) \/ GiveUp(u)
  BY <1>6, EnsureStartedStep, PublishStep, InitializeStep, GiveUpStep DEF GoroutineStep
<1>7. CASE Initialize(u) \/ SendToServer(u) \/ RequestOnTarget(u)
  BY <1>7, RequestStep DEF GoroutineStep
<1>8. CASE WriteResponse(u)
  BY <1>3, <1>8, WriteResponseStep DEF GoroutineStep, AnswerStep
<1>9. CASE Responded(u)
  BY <1>3, <1>9, RespondedStep DEF GoroutineStep, RemoveStep
<1>10. CASE \/ TurnStarted(u) \/ ThreadResumed(u) \/ QueryAnswered(u) \/ ThreadStarted(u)
            \/ InterruptAnswered(u) \/ Archived(u) \/ Unarchived(u) \/ Deleted(u)
            \/ UnloadThreadForGeneration(u) \/ Unloaded(u)
  BY <1>2, <1>10, CallGoes DEF GoroutineStep
<1> QED
  BY <1>4, <1>11, <1>5, <1>6, <1>7, <1>8, <1>9, <1>10 DEF CodexAnswers

\* The actions of the process, of its reader and of its end are such steps.
LEMMA ProcessSteps ==
    ASSUME BaseInv, CodexServer
    PROVE  CodexStep /\ ServerInv'
<1>1. codex \in CodexRows
  BY DEF BaseInv, CodexTypes
<1>2. ASSUME NEW g, NEW M, Speaks(g, M) PROVE ServerInv'
  BY <1>1, <1>2, ServersQuiet DEF Speaks
<1>3. ASSUME NEW g \in Servers, ReadLoop(g) PROVE ReaderStep(g) /\ ServerInv'
  <2>1. ReaderStep(g)
    BY <1>3, ReadStep DEF ReaderStep
  <2>2. CASE UNCHANGED <<codex, ccall>>
    BY <1>1, <2>1, <2>2, ServersQuiet DEF ReaderStep
  <2>3. CASE ReadsEnd(g, pipe[g][1])
    <3>1. PICK u \in Users : CallStep(u) /\ ccall[u].step = "idle" /\ ccall'[u].step = "unload"
      BY <2>3 DEF ReadsEnd
    <3>2. OnlyCall(u) /\ ~Holds(u)' /\ ~Publishing(u)
      BY <3>1 DEF CallStep, Holds, Publishing
    <3> QED
      BY <1>1, <2>1, <2>3, <3>2, ServersQuiet DEF ReaderStep, ReadsEnd
  <2>4. CASE ReadsWarning(g, pipe[g][1])
    BY <2>1, <2>4, ServersQuiet DEF ReaderStep, ReadsWarning, CodexIs
  <2> QED
    BY <2>1, <2>2, <2>3, <2>4 DEF ReaderStep, Reads, ReadsAnswer, ReadsStart, ReadsAsk, ReadsSettled
<1>4. ASSUME NEW g \in Servers, NEW r \in inbox[g], Serve(g, r) PROVE Serves(g, r) /\ ServerInv'
  <2>1. Serves(g, r)
    BY <1>4, ServeStep
  <2> QED
    BY <1>2, <2>1 DEF Serves, ServesPlain, ServesTurn, ServesInterrupt
<1>5. ASSUME NEW g \in Servers, Settles(g) PROVE ServerInv'
  BY <1>2, <1>5 DEF Settles
<1>6. ASSUME NEW t \in Turns, EndsTurn(t) \/ Asks(t) PROVE ServerInv'
  BY <1>2, <1>6 DEF EndsTurn, Asks
<1>7. ASSUME NEW g \in Servers, FinishProcess(g) \/ Exit(g)
      PROVE  (Finishes(g) \/ Exits(g)) /\ ServerInv'
  BY <1>7, FinishStep, ExitStep
<1>8. ASSUME NEW g \in Servers,
             \/ ReadLoop(g) \/ FinishProcess(g) \/ Exit(g) \/ ConfigWarning(g)
             \/ \E r \in inbox[g] : Serve(g, r)
             \/ \E q \in Questions : SettleQuestion(g, q)
      PROVE  ProcessStep(g) /\ ServerInv'
  BY <1>3, <1>4, <1>5, <1>7, <1>8, SpeakStep DEF ProcessStep
<1>9. ASSUME NEW t \in Turns, TurnEnds(t) \/ AskUser(t) PROVE (EndsTurn(t) \/ Asks(t)) /\ ServerInv'
  BY <1>6, <1>9, SpeakStep
<1> QED
  BY <1>8, <1>9 DEF CodexServer, CodexStep

\* Every step is one of these.
LEMMA CodexStepMeans ==
    ASSUME BaseInv, CodexNext
    PROVE  CodexStep /\ ServerInv'
<1>1. CCallers \subseteq Users
  BY DEF Users
<1>2. CASE CodexServer
  BY <1>2, ProcessSteps
<1>3. CASE CloseAdapter
  BY <1>3, CloseStep DEF BaseInv, CodexStep
<1>4. ASSUME NEW u \in Users, GoroutineStep(u) PROVE CodexStep
  BY <1>4 DEF CodexStep
<1>5. ASSUME NEW u \in CCallers,
             \/ Query(u) \/ \E s \in CThreads : CodexCalls(u, s)
             \/ \E q \in Questions : RespondPendingRequest(u, q)
      PROVE  CodexStep /\ ServerInv'
  BY <1>1, <1>4, <1>5, GoroutineSteps
<1>6. ASSUME NEW u \in Users, CodexAnswers(u) PROVE CodexStep /\ ServerInv'
  BY <1>4, <1>6, GoroutineSteps
<1> QED
  BY <1>2, <1>3, <1>5, <1>6 DEF CodexNext

-----------------------------------------------------------------------------
(***************************************************************************)
(* The types, the locks and the messages are kept.                         *)
(***************************************************************************)
\* The types, but of what the goroutines do.
DataTypes ==
    /\ codex \in CodexRows /\ proc \in [Servers -> ProcStates]
    /\ inbox \in [Servers -> SUBSET Requests] /\ pipe \in [Servers -> Seq(Messages)]
    /\ pend \in [ReqIds -> Nat] /\ reply \in [ReqIds -> Replies]
    /\ active \in [CThreads -> ActiveRows] /\ waiting \in [Questions -> WaitingRows]
    /\ turns \in [Turns -> TurnRows]
    /\ posed \in [Servers -> Nat] /\ answers \in [Servers -> [Questions -> Nat]]

\* Nothing is sent, said or begun but what is named.
LEMMA InboxSame ==
    ASSUME BaseInv, UNCHANGED inbox, codex'.nextID = codex.nextID, codex'.gen = codex.gen,
           \A g \in Servers : inbox[g] # {} => Runs(g)'
    PROVE  InboxTrue'
<1>1. ASSUME NEW g \in Servers, NEW r \in inbox'[g]
      PROVE  /\ r.id \in ReqIds /\ r.id <= codex'.nextID /\ Runs(g)' /\ g = codex'.gen
             /\ r.rpc = "interrupt" => r.turn \in Turns
             /\ r.rpc = "turn" => r.s \in CThreads
  BY <1>1 DEF BaseInv, InboxTrue
<1> QED
  BY <1>1 DEF InboxTrue

\* A step at which no process speaks.
LEMMA MessagesSame ==
    ASSUME BaseInv, codex' \in CodexRows, codex'.nextID >= codex.nextID,
           \A g \in Servers : Said(g)' \subseteq Said(g)
    PROVE  MessagesTrue'
<1>1. codex.nextID \in Nat /\ codex'.nextID \in Nat /\ \A i \in ReqIds : i \in Nat
  BY CodexAssumption DEF BaseInv, CodexTypes, CodexRows, ReqIds
<1>2. ASSUME NEW g \in Servers, NEW m \in Said(g)'
      PROVE  /\ m.kind = "answer" => m.result \in AnswerResults /\ m.n \in ReqIds /\ m.n <= codex'.nextID
             /\ m.kind \in {"started", "completed"} => m.turn \in Turns
             /\ m.kind \in {"ask", "resolved"} => m.n \in Questions
  <2>1. m \in Said(g)
    BY <1>2
  <2> QED
    BY <1>1, <2>1 DEF BaseInv, MessagesTrue
<1> QED
  BY <1>2 DEF MessagesTrue

\* A step at which no turn begins.
LEMMA RunningSame ==
    ASSUME BaseInv, UNCHANGED turns, codex'.gen = codex.gen,
           \A t \in Turns : turns[t].state = "running" => Runs(codex.gen)'
    PROVE  RunningTrue'
BY DEF BaseInv, RunningTrue, Runs

\* A process that has requests or a turn runs, and is the current one.
LEMMA CurrentWork ==
    ASSUME BaseInv
    PROVE  /\ \A g \in Servers : inbox[g] # {} => Runs(g) /\ g = codex.gen /\ codex.cur
           /\ \A t \in Turns : turns[t].state = "running" =>
                  turns[t].gen = codex.gen /\ codex.gen \in Servers /\ Runs(codex.gen) /\ codex.cur
<1>1. codex.gen \in Nat /\ \A g \in Servers : g >= g
  BY CodexAssumption DEF BaseInv, CodexTypes, CodexRows, Servers
<1>2. ASSUME NEW g \in Servers, inbox[g] # {} PROVE Runs(g) /\ g = codex.gen /\ codex.cur
  <2>1. Runs(g) /\ g = codex.gen
    BY <1>2 DEF BaseInv, InboxTrue
  <2> QED
    BY <1>1, <2>1, CurrentProcess
<1>3. ASSUME NEW t \in Turns, turns[t].state = "running"
      PROVE  turns[t].gen = codex.gen /\ codex.gen \in Servers /\ Runs(codex.gen) /\ codex.cur
  <2>1. turns[t].gen = codex.gen /\ codex.gen \in Servers /\ Runs(codex.gen)
    BY <1>3 DEF BaseInv, RunningTrue
  <2> QED
    BY <1>1, <2>1, CurrentProcess
<1> QED
  BY <1>2, <1>3

\* The steps of the goroutines.
LEMMA BaseOfProcessed ==
    ASSUME BaseInv, NEW u, Processed(u)
    PROVE  InboxTrue' /\ MessagesTrue' /\ RunningTrue' /\ DataTypes'
<1>1. codex.gen \in Nat /\ codex.nextID \in Nat /\ codex'.gen \in Nat
  BY CodexAssumption DEF BaseInv, CodexTypes, CodexRows, Processed
<1>2. MessagesTrue'
  <2>1. \A g \in Servers : Said(g)' = Said(g)
    BY DEF Processed, Said
  <2>2. codex'.nextID >= codex.nextID /\ codex' \in CodexRows
    BY <1>1 DEF Processed
  <2> QED
    BY <2>1, <2>2, MessagesSame
<1>5. pend' \in [ReqIds -> Nat]
  BY DEF Processed, BaseInv, CodexTypes
<1>6. DataTypes'
  BY <1>5 DEF Processed, DataTypes, BaseInv, CodexTypes, ActiveRows, WaitingRows
<1>3. CASE codex'.gen = codex.gen
  <2>1. \A g \in Servers : g = codex.gen => g <= codex.gen
    BY <1>1
  <2>2. \A g \in Servers : g = codex.gen /\ Runs(g) => Runs(g)'
    BY <2>1 DEF Processed, Runs
  <2>3. InboxTrue'
    BY <1>3, <2>2, CurrentWork, InboxSame DEF Processed
  <2>4. RunningTrue'
    BY <1>3, <2>2, CurrentWork, RunningSame DEF Processed
  <2> QED
    BY <1>2, <1>6, <2>3, <2>4
<1>4. CASE ~codex.cur
  <2>1. InboxTrue'
    BY <1>4, CurrentWork DEF Processed, InboxTrue
  <2>2. RunningTrue'
    BY <1>4, CurrentWork DEF Processed, RunningTrue
  <2> QED
    BY <1>2, <1>6, <2>1, <2>2
<1> QED
  BY <1>3, <1>4 DEF Processed

\* A request is sent.
LEMMA BaseOfSent ==
    ASSUME BaseInv, NEW u \in Users, Sent(u)
    PROVE  InboxTrue' /\ MessagesTrue' /\ RunningTrue' /\ DataTypes'
<1>1. PICK r \in CRpcs, step \in {"init", "wait"} :
         Wrote(u, r, codex.gen, step) /\ r \in {ccall[u].rpc, "initialize", "unsubscribe"}
  <2>1. ccall[u].rpc \in CRpcs /\ "initialize" \in CRpcs /\ "unsubscribe" \in CRpcs
    BY DEF BaseInv, CodexTypes, CallRows, CRpcs
  <2> QED
    BY <2>1 DEF Sent
<1>2. codex.nextID \in Nat /\ codex'.nextID = codex.nextID + 1 /\ codex' \in CodexRows
      /\ codex'.gen = codex.gen
  BY <1>1, CodexAssumption DEF BaseInv, CodexTypes, CodexRows, Wrote, CodexIs
<1>3. MessagesTrue'
  <2>1. \A g \in Servers : Said(g)' = Said(g)
    BY <1>1 DEF Wrote, Said
  <2> QED
    BY <1>2, <2>1, MessagesSame
<1>4. RunningTrue'
  <2>1. \A t \in Turns : turns[t].state = "running" => Runs(codex.gen)'
    BY <1>1, <1>2, CurrentWork DEF Wrote, Runs
  <2> QED
    BY <1>1, <1>2, <2>1, RunningSame DEF Wrote
<1>5. InboxTrue'
  <2>1. PICK x \in Requests : /\ inbox'[codex.gen] = inbox[codex.gen] \cup {x}
                              /\ x.id = codex.nextID + 1 /\ x.rpc = r /\ x.s = ccall[u].s /\ x.turn = ccall[u].turn
    BY <1>1 DEF Wrote
  <2>2. /\ codex.nextID + 1 \in ReqIds
        /\ x.rpc = "interrupt" => x.turn \in Turns
        /\ x.rpc = "turn" => x.s \in CThreads
    BY <1>1, <2>1 DEF Wrote, BaseInv, LocksTrue, LocksThread
  <2>3. ASSUME NEW g \in Servers, NEW y \in inbox'[g]
        PROVE  /\ y.id \in ReqIds /\ y.id <= codex'.nextID /\ Runs(g)' /\ g = codex'.gen
               /\ y.rpc = "interrupt" => y.turn \in Turns
               /\ y.rpc = "turn" => y.s \in CThreads
    <3>1. CASE y \in inbox[g]
      <4>1. /\ y.id \in ReqIds /\ y.id <= codex.nextID /\ Runs(g) /\ g = codex.gen
            /\ y.rpc = "interrupt" => y.turn \in Turns
            /\ y.rpc = "turn" => y.s \in CThreads
        BY <3>1 DEF BaseInv, InboxTrue
      <4>2. y.id <= codex'.nextID
        BY <1>2, <4>1, CodexAssumption DEF ReqIds
      <4> QED
        BY <1>1, <1>2, <4>1, <4>2 DEF Wrote, Runs
    <3>2. CASE y \notin inbox[g]
      <4>1. g = codex.gen /\ y = x
        BY <1>1, <2>1, <2>3, <3>2 DEF Wrote
      <4> QED
        BY <1>1, <1>2, <2>1, <2>2, <4>1 DEF Wrote, Runs
    <3> QED
      BY <3>1, <3>2
  <2> QED
    BY <2>3 DEF InboxTrue
<1>6. DataTypes'
  BY <1>1, <1>2 DEF Wrote, DataTypes, BaseInv, CodexTypes, ActiveRows, WaitingRows
<1> QED
  BY <1>3, <1>4, <1>5, <1>6

\* The steps about questions, and calls that go on.
LEMMA BaseOfCalls ==
    ASSUME BaseInv, NEW u \in Users,
           CallGoesOn(u) \/ Questioned(u)
    PROVE  InboxTrue' /\ MessagesTrue' /\ RunningTrue' /\ DataTypes'
<1>1. UNCHANGED <<codex, proc, inbox, pipe, turns, posed, pend, reply>>
  BY DEF CallGoesOn, Questioned
<1>2. waiting' \in [Questions -> WaitingRows] /\ answers' \in [Servers -> [Questions -> Nat]]
  BY DEF CallGoesOn, Questioned, BaseInv, CodexTypes, WaitingRows
<1>3. active' \in [CThreads -> ActiveRows]
  <2>1. CASE active' = active
    BY <2>1 DEF BaseInv, CodexTypes, ActiveRows
  <2>2. CASE TurnStarted(u)
    <3>1. active \in [CThreads -> ActiveRows] /\ reply \in [ReqIds -> Replies] /\ codex.gen \in Nat
      BY CodexAssumption DEF BaseInv, CodexTypes, ActiveRows, CodexRows
    <3> DEFINE x == [turn |-> reply[ccall[u].id].turn, gen |-> codex.gen]
    <3>2. active' = active \/ active' = [active EXCEPT ![ccall[u].s] = x]
      BY <2>2 DEF TurnStarted
    <3>3. ccall[u].id \in ReqIds
      BY <2>2, GotMeans DEF TurnStarted, BaseInv, WaitsTrue, Waits
    <3>4. x \in ActiveRows
      <4>1. reply[ccall[u].id].turn \in TurnNos
        BY <3>1, <3>3 DEF Replies
      <4> QED
        BY <3>1, <4>1 DEF ActiveRows
    <3> HIDE DEF x
    <3> QED
      BY <3>1, <3>2, <3>4
  <2> QED
    BY <2>1, <2>2 DEF CallGoesOn, Questioned
<1>4. InboxTrue' /\ RunningTrue'
  <2>1. (\A g \in Servers : inbox[g] # {} => Runs(g)') /\ (\A t \in Turns : turns[t].state = "running" => Runs(codex.gen)')
    BY <1>1, CurrentWork DEF Runs
  <2> QED
    BY <1>1, <2>1, InboxSame, RunningSame
<1>5. MessagesTrue'
  <2>1. \A g \in Servers : Said(g)' = Said(g)
    BY <1>1 DEF Said
  <2>2. codex.nextID \in Nat /\ codex' \in CodexRows
    BY <1>1, CodexAssumption DEF BaseInv, CodexTypes, CodexRows
  <2> QED
    BY <1>1, <2>1, <2>2, MessagesSame
<1> QED
  BY <1>1, <1>2, <1>3, <1>4, <1>5 DEF DataTypes, BaseInv, CodexTypes

\* The reader.
LEMMA BaseOfReader ==
    ASSUME BaseInv, NEW g \in Servers, ReaderStep(g)
    PROVE  InboxTrue' /\ MessagesTrue' /\ RunningTrue' /\ DataTypes'
<1>1. /\ PipeReads(g) /\ UNCHANGED <<proc, inbox, turns, posed, tlock, answers>>
      /\ codex' \in CodexRows /\ codex'.gen = codex.gen /\ codex'.nextID = codex.nextID
  BY DEF ReaderStep, Reads, ReadsAnswer, ReadsStart, ReadsEnd, ReadsAsk, ReadsSettled, ReadsWarning,
     CodexIs, BaseInv, CodexTypes
<1>2. /\ pend' \in [ReqIds -> Nat] /\ reply' \in [ReqIds -> Replies]
      /\ active' \in [CThreads -> ActiveRows] /\ waiting' \in [Questions -> WaitingRows]
  BY DEF ReaderStep, Reads, ReadsAnswer, ReadsStart, ReadsEnd, ReadsAsk, ReadsSettled, ReadsWarning,
     BaseInv, CodexTypes, ActiveRows, WaitingRows
<1>3. DataTypes'
  BY <1>1, <1>2 DEF DataTypes, BaseInv, CodexTypes, PipeReads
<1>4. InboxTrue' /\ RunningTrue'
  <2>1. (\A h \in Servers : inbox[h] # {} => Runs(h)') /\ (\A t \in Turns : turns[t].state = "running" => Runs(codex.gen)')
    BY <1>1, CurrentWork DEF Runs
  <2> QED
    BY <1>1, <2>1, InboxSame, RunningSame
<1>5. MessagesTrue'
  <2>1. \A h \in Servers : Said(h)' \subseteq Said(h)
    BY <1>1 DEF Said, PipeReads
  <2>2. codex.nextID \in Nat
    BY CodexAssumption DEF BaseInv, CodexTypes, CodexRows
  <2> QED
    BY <1>1, <2>1, <2>2, MessagesSame
<1> QED
  BY <1>3, <1>4, <1>5

\* The end of a process.
LEMMA BaseOfEnds ==
    ASSUME BaseInv, NEW g \in Servers, Finishes(g) \/ Exits(g)
    PROVE  InboxTrue' /\ MessagesTrue' /\ RunningTrue' /\ DataTypes'
<1>1. codex.nextID \in Nat /\ codex \in CodexRows
  BY CodexAssumption DEF BaseInv, CodexTypes, CodexRows
<1>2. CASE Finishes(g)
  <2>1. \A h \in Servers : inbox[h] = {}
    BY <1>2, CurrentWork DEF Finishes, Runs
  <2>2. \A t \in Turns : turns[t].state # "running"
    BY <1>2, CurrentWork DEF Finishes, Runs
  <2>3. InboxTrue' /\ RunningTrue'
    BY <1>2, <2>1, <2>2 DEF Finishes, InboxTrue, RunningTrue
  <2>4. \A h \in Servers : Said(h)' \subseteq Said(h)
    <3>1. Len(<<>>) = 0
      OBVIOUS
    <3> QED
      BY <1>2, <3>1 DEF Finishes, Said
  <2>5. MessagesTrue'
    BY <1>1, <1>2, <2>4, MessagesSame DEF Finishes, CodexIs
  <2>6. waiting' \in [Questions -> WaitingRows]
    BY <1>2, NoQuestionRow DEF Finishes
  <2>7. DataTypes'
    BY <1>2, <2>6 DEF DataTypes, Finishes, CodexIs, BaseInv, CodexTypes
  <2> QED
    BY <2>3, <2>5, <2>7
<1>3. CASE Exits(g)
  <2>1. \A h \in Servers : inbox'[h] = {}
    BY <1>3, CurrentWork DEF Exits
  <2>2. \A t \in Turns : turns'[t].state # "running"
    BY <1>3, CurrentWork DEF Exits
  <2>3. InboxTrue' /\ RunningTrue'
    BY <2>1, <2>2 DEF InboxTrue, RunningTrue
  <2>4. \A h \in Servers : Said(h)' \subseteq Said(h)
    BY <1>3 DEF Exits, Said
  <2>5. MessagesTrue'
    BY <1>1, <1>3, <2>4, MessagesSame DEF Exits
  <2>7. DataTypes'
    BY <1>3 DEF DataTypes, Exits, BaseInv, CodexTypes, ActiveRows, WaitingRows
  <2> QED
    BY <2>3, <2>5, <2>7
<1> QED
  BY <1>2, <1>3

\* A process says something.
MessageTrue(m) ==
    /\ m.kind = "answer" => m.result \in AnswerResults /\ m.n \in ReqIds /\ m.n <= codex.nextID
    /\ m.kind \in {"started", "completed"} => m.turn \in Turns
    /\ m.kind \in {"ask", "resolved"} => m.n \in Questions

\* A step at which one process says true things.
LEMMA MessagesGrow ==
    ASSUME BaseInv, NEW g \in Servers, NEW M, Speaks(g, M), \A m \in M : MessageTrue(m)
    PROVE  MessagesTrue'
<1>1. ASSUME NEW h \in Servers, NEW m \in Said(h)'
      PROVE  /\ m.kind = "answer" => m.result \in AnswerResults /\ m.n \in ReqIds /\ m.n <= codex'.nextID
             /\ m.kind \in {"started", "completed"} => m.turn \in Turns
             /\ m.kind \in {"ask", "resolved"} => m.n \in Questions
  <2>1. m \in Said(h) \/ m \in M
    <3>1. CASE h = g
      BY <1>1, <3>1 DEF Speaks, PipeGrows
    <3>2. CASE h # g
      BY <1>1, <3>2 DEF Speaks, PipeGrows, Said
    <3> QED
      BY <3>1, <3>2
  <2>2. MessageTrue(m)
    BY <2>1 DEF BaseInv, MessagesTrue, MessageTrue
  <2> QED
    BY <2>2 DEF MessageTrue, Speaks
<1> QED
  BY <1>1 DEF MessagesTrue

\* The app-server.
LEMMA BaseOfServe ==
    ASSUME BaseInv, NEW g \in Servers, NEW r \in inbox[g], Serves(g, r)
    PROVE  InboxTrue' /\ MessagesTrue' /\ RunningTrue' /\ DataTypes'
<1>1. /\ r.id \in ReqIds /\ r.id <= codex.nextID /\ Runs(g) /\ g = codex.gen
      /\ r.rpc = "turn" => r.s \in CThreads
  BY DEF BaseInv, InboxTrue
<1>2. PICK M : Speaks(g, M) /\ \A m \in M : MessageTrue(m)
  <2>1. CASE ServesPlain(g, r)
    BY <1>1, <2>1 DEF ServesPlain, MessageTrue
  <2>2. CASE ServesTurn(g, r)
    BY <1>1, <2>2 DEF ServesTurn, MessageTrue, AnswerResults, CResults
  <2>3. CASE ServesInterrupt(g, r)
    BY <1>1, <2>3 DEF ServesInterrupt, MessageTrue, AnswerResults, CResults
  <2> QED
    BY <2>1, <2>2, <2>3 DEF Serves
<1>3. MessagesTrue'
  BY <1>2, MessagesGrow
<1>4. UNCHANGED <<codex, proc>>
  BY <1>2 DEF Speaks
<1>5. InboxTrue'
  <2>1. \A h \in Servers : inbox'[h] \subseteq inbox[h]
    BY DEF Serves
  <2> QED
    BY <1>4, <2>1 DEF BaseInv, InboxTrue, Runs
<1>6. turns' \in [Turns -> TurnRows] /\ RunningTrue'
  <2>1. CASE ServesPlain(g, r)
    BY <1>4, <2>1 DEF ServesPlain, BaseInv, RunningTrue, Runs, CodexTypes
  <2>2. CASE ServesTurn(g, r)
    BY <1>1, <1>4, <2>2 DEF ServesTurn, BaseInv, RunningTrue, Runs
  <2>3. CASE ServesInterrupt(g, r)
    BY <1>4, <2>3 DEF ServesInterrupt, TurnEnded, BaseInv, RunningTrue, Runs
  <2> QED
    BY <2>1, <2>2, <2>3 DEF Serves
<1>7. DataTypes'
  BY <1>2, <1>6 DEF DataTypes, Serves, Speaks, PipeGrows, BaseInv, CodexTypes, ActiveRows, WaitingRows
<1> QED
  BY <1>3, <1>5, <1>6, <1>7

\* A process speaks of its own accord.
LEMMA BaseOfSpeech ==
    ASSUME BaseInv,
           \/ \E g \in Servers : Settles(g)
           \/ \E t \in Turns : EndsTurn(t) \/ Asks(t)
    PROVE  InboxTrue' /\ MessagesTrue' /\ RunningTrue' /\ DataTypes'
<1>1. PICK g \in Servers, M \in SUBSET Messages : Speaks(g, M) /\ (\A m \in M : MessageTrue(m)) /\ UNCHANGED inbox
  <2>1. ASSUME NEW g \in Servers, Settles(g)
        PROVE  \E M \in SUBSET Messages : Speaks(g, M) /\ (\A m \in M : MessageTrue(m)) /\ UNCHANGED inbox
    BY <2>1 DEF Settles, MessageTrue
  <2>2. ASSUME NEW t \in Turns, EndsTurn(t)
        PROVE  turns[t].gen \in Servers /\ \E M \in SUBSET Messages : Speaks(turns[t].gen, M) /\ (\A m \in M : MessageTrue(m)) /\ UNCHANGED inbox
    BY <2>2 DEF EndsTurn, MessageTrue
  <2>3. ASSUME NEW t \in Turns, Asks(t)
        PROVE  turns[t].gen \in Servers /\ \E M \in SUBSET Messages : Speaks(turns[t].gen, M) /\ (\A m \in M : MessageTrue(m)) /\ UNCHANGED inbox
    BY <2>3 DEF Asks, MessageTrue
  <2> QED
    BY <2>1, <2>2, <2>3
<1>2. MessagesTrue'
  BY <1>1, MessagesGrow
<1>3. UNCHANGED <<codex, proc, inbox>>
  BY <1>1 DEF Speaks
<1>4. InboxTrue'
  BY <1>3 DEF BaseInv, InboxTrue, Runs
<1>5. /\ turns' \in [Turns -> TurnRows] /\ posed' \in [Servers -> Nat]
      /\ \A t \in Turns : turns'[t] = turns[t] \/ turns'[t].state = "ended"
  BY DEF Settles, EndsTurn, Asks, TurnEnded, BaseInv, CodexTypes
<1>6. RunningTrue'
  BY <1>3, <1>5 DEF BaseInv, RunningTrue, Runs
<1>7. DataTypes'
  BY <1>1, <1>5 DEF DataTypes, Speaks, PipeGrows, BaseInv, CodexTypes, ActiveRows, WaitingRows
<1> QED
  BY <1>2, <1>4, <1>6, <1>7

\* Only a call that sends a request begins to wait.
WaitsKept == \A v \in Users : Waits(v)' => ccall'[v] = ccall[v]

\* Nobody begins to wait but with a request that it sends, and the numbers grow.
LEMMA WaitsMove ==
    ASSUME BaseInv, CodexStep
    PROVE  /\ WaitsKept \/ \E u \in Users : Sent(u)
           /\ codex'.nextID >= codex.nextID /\ codex'.gen >= codex.gen
           /\ codex'.gen # codex.gen => ~codex.cur
<1>1. codex.nextID \in Nat /\ codex.gen \in Nat
  BY CodexAssumption DEF BaseInv, CodexTypes, CodexRows
<1>2. ASSUME NEW u \in Users, CallStep(u), ~Waits(u)' PROVE WaitsKept
  BY <1>2 DEF CallStep, OnlyCall, WaitsKept
<1>3. ASSUME UNCHANGED ccall PROVE WaitsKept
  BY <1>3 DEF WaitsKept
<1>4. ASSUME NEW u \in Users, CallGoesOn(u) PROVE WaitsKept /\ UNCHANGED codex
  BY <1>2, <1>4, GoesStep DEF CallGoesOn, Waits, BaseInv
<1>5. ASSUME NEW u \in Users, Questioned(u) PROVE WaitsKept /\ UNCHANGED codex
  BY <1>2, <1>5 DEF Questioned, Waits
<1>6. ASSUME NEW u, Processed(u)
      PROVE  WaitsKept /\ codex'.nextID = codex.nextID /\ codex'.gen >= codex.gen
             /\ (codex'.gen # codex.gen => ~codex.cur)
  BY <1>1, <1>2, <1>3, <1>6, IdleRow DEF Processed, Waits, Same
<1>7. ASSUME NEW u \in Users, Sent(u)
      PROVE  codex'.nextID >= codex.nextID /\ codex'.gen = codex.gen
  BY <1>1, <1>7 DEF Sent, Wrote, CodexIs
<1>8. ASSUME NEW g \in Servers, ReaderStep(g)
      PROVE  WaitsKept /\ codex'.nextID = codex.nextID /\ codex'.gen = codex.gen
  <2>1. CASE ReadsEnd(g, pipe[g][1])
    BY <1>2, <2>1 DEF ReadsEnd, Waits
  <2> QED
    BY <1>3, <1>8, <2>1 DEF ReaderStep, Reads, ReadsAnswer, ReadsStart, ReadsAsk, ReadsSettled,
       ReadsWarning, CodexIs
<1>9. ASSUME NEW g \in Servers, NEW r \in inbox[g], Serves(g, r) PROVE UNCHANGED <<codex, ccall>>
  BY <1>9 DEF Serves, ServesPlain, ServesTurn, ServesInterrupt, Speaks
<1>10. ASSUME NEW g \in Servers, Finishes(g) \/ Exits(g) \/ Settles(g)
       PROVE  WaitsKept /\ codex'.nextID = codex.nextID /\ codex'.gen = codex.gen
  BY <1>3, <1>10 DEF Finishes, Exits, Settles, CodexIs, Speaks
<1>11. ASSUME NEW t \in Turns, EndsTurn(t) \/ Asks(t) PROVE UNCHANGED <<codex, ccall>>
  BY <1>11 DEF EndsTurn, Asks, Speaks
<1>12. ASSUME NEW u \in Users, GoroutineStep(u)
       PROVE  /\ WaitsKept \/ Sent(u)
              /\ codex'.nextID >= codex.nextID /\ codex'.gen >= codex.gen
              /\ codex'.gen # codex.gen => ~codex.cur
  BY <1>1, <1>4, <1>5, <1>6, <1>7, <1>12 DEF GoroutineStep, ClaimStep, AnswerStep, RemoveStep
<1>13. ASSUME NEW g \in Servers, ProcessStep(g)
       PROVE  WaitsKept /\ codex'.nextID = codex.nextID /\ codex'.gen = codex.gen
  BY <1>3, <1>8, <1>9, <1>10, <1>13 DEF ProcessStep
<1> QED
  BY <1>1, <1>3, <1>6, <1>11, <1>12, <1>13 DEF CodexStep

-----------------------------------------------------------------------------
\* The steps go on with what is known of the calls.
LEMMA CallsMove ==
    ASSUME BaseInv, CodexStep
    PROVE  UNCHANGED <<ccall, tlock>> \/ \E u \in Users : CallStep(u)
<1>1. ASSUME NEW u \in Users, GoroutineStep(u) PROVE UNCHANGED <<ccall, tlock>> \/ CallStep(u)
  BY <1>1, GoesStep DEF BaseInv, GoroutineStep, Sent, Wrote, Processed, ClaimStep, AnswerStep,
     RemoveStep, Questioned
<1>2. ASSUME Processed(NoUser) PROVE UNCHANGED <<ccall, tlock>>
  BY <1>2, CodexAssumption DEF Processed
<1>3. ASSUME NEW g \in Servers, ProcessStep(g)
      PROVE  UNCHANGED <<ccall, tlock>> \/ \E u \in Users : CallStep(u)
  <2>1. CASE ReaderStep(g)
    <3>1. CASE ReadsEnd(g, pipe[g][1])
      BY <3>1 DEF ReadsEnd
    <3> QED
      BY <2>1, <3>1 DEF ReaderStep, Reads, ReadsAnswer, ReadsStart, ReadsAsk, ReadsSettled, ReadsWarning
  <2>2. CASE Finishes(g) \/ Exits(g) \/ Settles(g)
    BY <2>2 DEF Finishes, Exits, Settles, Speaks
  <2>3. ASSUME NEW r \in inbox[g], Serves(g, r) PROVE UNCHANGED <<ccall, tlock>>
    BY <2>3 DEF Serves, ServesPlain, ServesTurn, ServesInterrupt, Speaks
  <2> QED
    BY <1>3, <2>1, <2>2, <2>3 DEF ProcessStep
<1>4. ASSUME NEW t \in Turns, EndsTurn(t) \/ Asks(t) PROVE UNCHANGED <<ccall, tlock>>
  BY <1>4 DEF EndsTurn, Asks, Speaks
<1> QED
  BY <1>1, <1>2, <1>3, <1>4 DEF CodexStep

\* What is known of the calls that wait is kept.
LEMMA WaitsStay ==
    ASSUME BaseInv, CodexStep, codex' \in CodexRows
    PROVE  WaitsTrue'
<1>1. /\ codex.nextID \in Nat /\ codex.gen \in Nat /\ codex'.nextID \in Nat /\ codex'.gen \in Nat
      /\ codex'.nextID >= codex.nextID /\ codex'.gen >= codex.gen
      /\ \A i \in ReqIds : i \in Nat
      /\ \A g \in Servers : g \in Nat
  BY WaitsMove, CodexAssumption DEF BaseInv, CodexTypes, CodexRows, ReqIds, Servers
<1>2. ASSUME NEW v \in Users, ccall'[v] = ccall[v], Waits(v)
      PROVE  /\ ccall'[v].id \in ReqIds /\ ccall'[v].id <= codex'.nextID
             /\ ccall'[v].gen \in Servers /\ ccall'[v].gen <= codex'.gen
  BY <1>1, <1>2 DEF BaseInv, WaitsTrue
<1>3. CASE WaitsKept
  <2>1. ASSUME NEW v \in Users, Waits(v)' PROVE ccall'[v] = ccall[v] /\ Waits(v)
    BY <1>3, <2>1 DEF WaitsKept, Waits
  <2> QED
    BY <1>2, <2>1 DEF WaitsTrue
<1>4. ASSUME NEW u \in Users, Sent(u) PROVE WaitsTrue'
  <2>1. /\ OnlyCall(u) /\ ccall'[u].id = codex'.nextID /\ ccall'[u].gen = codex'.gen
        /\ codex'.nextID \in ReqIds /\ codex'.gen \in Servers
    BY <1>4 DEF Sent, Wrote, CodexIs, CallStep
  <2>2. ASSUME NEW v \in Users \ {u}, Waits(v)' PROVE ccall'[v] = ccall[v] /\ Waits(v)
    BY <2>1, <2>2 DEF OnlyCall, Waits
  <2> QED
    BY <1>1, <1>2, <2>1, <2>2 DEF WaitsTrue
<1> QED
  BY <1>3, <1>4, WaitsMove

\* What the steps rest on.
LEMMA BaseStays ==
    ASSUME BaseInv, CodexNext
    PROVE  BaseInv' /\ CodexStep
<1>1. CodexStep /\ ServerInv'
  BY CodexStepMeans
<1>2. InboxTrue' /\ MessagesTrue' /\ RunningTrue' /\ DataTypes'
  <2>1. ASSUME NEW u \in Users, GoroutineStep(u)
        PROVE  InboxTrue' /\ MessagesTrue' /\ RunningTrue' /\ DataTypes'
    BY <2>1, BaseOfProcessed, BaseOfSent, BaseOfCalls DEF GoroutineStep, ClaimStep, AnswerStep, RemoveStep
  <2>2. ASSUME Processed(NoUser)
        PROVE  InboxTrue' /\ MessagesTrue' /\ RunningTrue' /\ DataTypes'
    BY <2>2, BaseOfProcessed
  <2>3. ASSUME NEW g \in Servers, ProcessStep(g)
        PROVE  InboxTrue' /\ MessagesTrue' /\ RunningTrue' /\ DataTypes'
    BY <2>3, BaseOfReader, BaseOfEnds, BaseOfServe, BaseOfSpeech DEF ProcessStep
  <2>4. ASSUME NEW t \in Turns, EndsTurn(t) \/ Asks(t)
        PROVE  InboxTrue' /\ MessagesTrue' /\ RunningTrue' /\ DataTypes'
    BY <2>4, BaseOfSpeech
  <2> QED
    BY <1>1, <2>1, <2>2, <2>3, <2>4 DEF CodexStep
<1>3. LocksTrue' /\ ccall' \in [Users -> CallRows] /\ tlock' \in [CThreads -> Users \cup {NoUser}]
  BY <1>1, CallsMove, LocksStay DEF BaseInv
<1>4. WaitsTrue'
  BY <1>1, <1>2, WaitsStay DEF DataTypes
<1>5. CodexTypes'
  BY <1>2, <1>3 DEF CodexTypes, DataTypes, ActiveRows, WaitingRows
<1> QED
  BY <1>1, <1>2, <1>3, <1>4, <1>5 DEF BaseInv

\* The initial states.
LEMMA BaseStarts ==
    ASSUME CodexInit
    PROVE  BaseInv /\ \A g \in Servers : Said(g) = {}
<1> USE CodexAssumption
<1>1. codex \in CodexRows /\ codex.gen = 0 /\ codex.nextID = 0 /\ ~codex.cur /\ ~codex.quarantined
  BY DEF CodexInit, CodexRows
<1>2. proc \in [Servers -> ProcStates] /\ inbox \in [Servers -> SUBSET Requests]
  BY DEF CodexInit, ProcStates
<1>3. pipe \in [Servers -> Seq(Messages)]
  <2>1. <<>> \in Seq(Messages)
    OBVIOUS
  <2> QED
    BY <2>1 DEF CodexInit
<1>4. pend \in [ReqIds -> Nat] /\ tlock \in [CThreads -> Users \cup {NoUser}]
      /\ posed \in [Servers -> Nat] /\ answers \in [Servers -> [Questions -> Nat]]
  BY DEF CodexInit
<1>5. reply \in [ReqIds -> Replies]
  BY DEF CodexInit, NoAnswer, Answer, Replies, CResults, TurnNos
<1>6. active \in [CThreads -> [turn : TurnNos, gen : Nat]]
  BY DEF CodexInit, TurnNos
<1>7. waiting \in [Questions -> [gen : Nat, turn : TurnNos, responding : BOOLEAN]]
  BY DEF CodexInit, NoQuestion, TurnNos
<1>8. ccall \in [Users -> CallRows] /\ \A u \in Users : ccall[u] = IdleCall
  BY IdleRow DEF CodexInit
<1>9. turns \in [Turns -> TurnRows] /\ \A t \in Turns : turns[t].state = "none"
  BY DEF CodexInit, TurnRows, ThreadsOrNone
<1>10. CodexTypes
  BY <1>1, <1>2, <1>3, <1>4, <1>5, <1>6, <1>7, <1>8, <1>9 DEF CodexTypes
<1>11. LocksTrue
  BY <1>8, IdleRow DEF LocksTrue, LocksThread
<1>12. ServerInv
  <2>1. \A g \in Servers : proc[g] = "none" /\ g >= codex.gen
    BY <1>1 DEF CodexInit, Servers
  <2>2. \A u \in Users : ccall[u].step = "idle"
    BY <1>8, IdleRow
  <2>3. ~codex.closed
    BY DEF CodexInit
  <2>4. GateHeld
    BY <2>2 DEF GateHeld, Holds
  <2>5. \A g \in Servers : ~(g < codex.gen)
    BY <1>1 DEF Servers
  <2>6. ServersTrue
    BY <1>1, <2>1, <2>2, <2>3, <2>5 DEF ServersTrue, Publishing
  <2> QED
    BY <2>4, <2>6 DEF ServerInv
<1>13. \A g \in Servers : Said(g) = {} /\ inbox[g] = {}
  <2>1. Len(<<>>) = 0
    OBVIOUS
  <2> QED
    BY <2>1 DEF CodexInit, Said
<1>14. InboxTrue /\ MessagesTrue /\ RunningTrue /\ WaitsTrue
  BY <1>8, <1>9, <1>13, IdleRow DEF InboxTrue, MessagesTrue, RunningTrue, WaitsTrue, Waits
<1> QED
  BY <1>10, <1>11, <1>12, <1>13, <1>14 DEF BaseInv

-----------------------------------------------------------------------------
\* At most one process runs.
LEMMA OneProcess == ASSUME BaseInv PROVE OneAppServer
<1>1. codex.gen \in Nat /\ Servers \subseteq Nat
  BY CodexAssumption DEF BaseInv, CodexTypes, CodexRows, Servers
<1>2. ASSUME NEW g \in Servers, NEW h \in Servers, Runs(g), Runs(h) PROVE g = h
  <2>1. g >= codex.gen /\ h >= codex.gen
    BY <1>1, <1>2 DEF BaseInv, ServerInv, ServersTrue, Runs
  <2>2. g > codex.gen => ~codex.cur /\ g = codex.gen + 1
    BY <1>2 DEF BaseInv, ServerInv, ServersTrue, Runs
  <2>3. h > codex.gen => ~codex.cur /\ h = codex.gen + 1
    BY <1>2 DEF BaseInv, ServerInv, ServersTrue, Runs
  <2>4. g = codex.gen \/ h = codex.gen => codex.cur
    BY <1>1, <1>2, CurrentProcess
  <2> QED
    BY <1>1, <2>1, <2>2, <2>3, <2>4
<1>3. ASSUME NEW g \in Servers, Runs(g) PROVE OneAppServer
  <2>1. {h \in Servers : Runs(h)} = {g}
    BY <1>2, <1>3
  <2>2. Cardinality({g}) = 1
    BY FS_Singleton
  <2> QED
    BY <2>1, <2>2 DEF OneAppServer
<1>4. ASSUME \A g \in Servers : ~Runs(g) PROVE OneAppServer
  <2>1. {h \in Servers : Runs(h)} = {}
    BY <1>4
  <2> QED
    BY <2>1, FS_EmptySet DEF OneAppServer
<1> QED
  BY <1>3, <1>4

-----------------------------------------------------------------------------
(***************************************************************************)
(* Nobody waits for an answer that can not come.                           *)
(***************************************************************************)
\* A request that is registered is one of the current process, and its caller too.
PendingTrue ==
    \A i \in ReqIds :
        /\ pend[i] # 0 => codex.cur /\ pend[i] = codex.gen
        /\ i > codex.nextID => pend[i] = 0 /\ reply[i].result = "none"
WaitersTrue ==
    \A u \in Users : Waits(u) =>
        /\ pend[ccall[u].id] # 0 \/ reply[ccall[u].id].result # "none"
        /\ pend[ccall[u].id] # 0 => ccall[u].gen = codex.gen
        /\ \A v \in Users : Waits(v) /\ ccall[v].id = ccall[u].id => v = u
RequestInv == PendingTrue /\ WaitersTrue

\* A step that registers, answers and makes no request.
LEMMA RequestSame ==
    ASSUME BaseInv, RequestInv, codex' \in CodexRows, UNCHANGED <<pend, reply>>, codex'.gen = codex.gen,
           codex'.cur = codex.cur, codex'.nextID = codex.nextID, WaitsKept
    PROVE  RequestInv'
<1>1. PendingTrue'
  BY DEF RequestInv, PendingTrue
<1>2. \A v \in Users : Waits(v)' => Waits(v) /\ ccall'[v] = ccall[v]
  BY DEF WaitsKept, Waits
<1>3. WaitersTrue'
  BY <1>2 DEF RequestInv, WaitersTrue
<1> QED
  BY <1>1, <1>3 DEF RequestInv

\* A request is sent: it is a new one.
LEMMA RequestSent ==
    ASSUME BaseInv, RequestInv, NEW u \in Users, Sent(u)
    PROVE  RequestInv'
<1> DEFINE id == codex.nextID + 1
           g == codex.gen
<1>1. /\ id \in ReqIds /\ g \in Servers /\ codex.cur
      /\ codex'.gen = g /\ codex'.cur = codex.cur /\ codex'.nextID = id
      /\ pend'[id] = g /\ (\A i \in ReqIds \ {id} : pend'[i] = pend[i]) /\ UNCHANGED reply
      /\ OnlyCall(u) /\ ccall'[u].id = id /\ ccall'[u].gen = g
  BY DEF Sent, Wrote, CodexIs, CallStep
<1>2. codex.nextID \in Nat /\ (\A i \in ReqIds : i \in Nat) /\ g # 0
  BY <1>1, CodexAssumption DEF BaseInv, CodexTypes, CodexRows, ReqIds, Servers
<1>3. id > codex.nextID /\ \A i \in ReqIds : i > id => i > codex.nextID /\ i # id
  BY <1>2
<1>4. PendingTrue'
  BY <1>1, <1>2, <1>3 DEF RequestInv, PendingTrue
<1>5. ASSUME NEW v \in Users \ {u}, Waits(v)'
      PROVE  Waits(v) /\ ccall'[v] = ccall[v] /\ ccall[v].id \in ReqIds \ {id}
  <2>1. Waits(v) /\ ccall'[v] = ccall[v]
    BY <1>1, <1>5 DEF OnlyCall, Waits
  <2>2. ccall[v].id \in ReqIds /\ ccall[v].id <= codex.nextID
    BY <2>1 DEF BaseInv, WaitsTrue
  <2> QED
    BY <1>2, <2>1, <2>2
<1> HIDE DEF id, g
<1>6. WaitersTrue'
  <2>1. ASSUME NEW v \in Users, Waits(v)'
        PROVE  /\ pend'[ccall'[v].id] # 0 \/ reply'[ccall'[v].id].result # "none"
               /\ pend'[ccall'[v].id] # 0 => ccall'[v].gen = codex'.gen
    <3>1. CASE v = u
      BY <1>1, <1>2, <3>1
    <3>2. CASE v # u
      <4>1. Waits(v) /\ ccall'[v] = ccall[v] /\ ccall[v].id \in ReqIds \ {id}
        BY <1>5, <2>1, <3>2
      <4> QED
        BY <1>1, <4>1 DEF RequestInv, WaitersTrue, id, g
    <3> QED
      BY <3>1, <3>2
  <2>2. ASSUME NEW v \in Users, NEW w \in Users, Waits(v)', Waits(w)', ccall'[v].id = ccall'[w].id
        PROVE  v = w
    <3>1. CASE v # u /\ w # u
      BY <1>5, <2>2, <3>1 DEF RequestInv, WaitersTrue
    <3>2. CASE v = u \/ w = u
      BY <1>1, <1>5, <2>2, <3>2
    <3> QED
      BY <3>1, <3>2
  <2> QED
    BY <2>1, <2>2 DEF WaitersTrue
<1> QED
  BY <1>4, <1>6 DEF RequestInv

\* A call that does not ask, or gives up.
LEMMA RequestProcessed ==
    ASSUME BaseInv, RequestInv, NEW u, Processed(u)
    PROVE  RequestInv'
<1>1. /\ codex'.nextID = codex.nextID /\ UNCHANGED reply
      /\ (codex'.gen = codex.gen /\ codex'.cur = codex.cur) \/ ~codex.cur
  BY DEF Processed
<1>2. \A v \in Users : Waits(v)' => Waits(v) /\ ccall'[v] = ccall[v]
  <2>1. UNCHANGED ccall \/ (u \in Users /\ OnlyCall(u) /\ ~Waits(u)')
    BY IdleRow DEF Processed, CallStep, Waits, Same
  <2> QED
    BY <2>1 DEF OnlyCall, Waits
<1>3. CASE pend' = pend
  <2>1. PendingTrue'
    BY <1>1, <1>3 DEF RequestInv, PendingTrue
  <2>2. \A v \in Users : Waits(v) /\ pend[ccall[v].id] # 0 => codex.cur
    BY DEF RequestInv, PendingTrue, BaseInv, WaitsTrue
  <2>3. WaitersTrue'
    BY <1>1, <1>2, <1>3, <2>2 DEF RequestInv, WaitersTrue
  <2> QED
    BY <2>1, <2>3 DEF RequestInv
<1>4. CASE /\ u \in Users /\ ccall[u].step \in {"wait", "init"} /\ ccall'[u] = IdleCall
           /\ pend' = [pend EXCEPT ![ccall[u].id] = 0]
  <2>1. pend \in [ReqIds -> Nat]
    BY DEF BaseInv, CodexTypes
  <2>2. \A i \in ReqIds : pend'[i] = 0 \/ pend'[i] = pend[i]
    BY <1>4, <2>1
  <2>3. PendingTrue'
    BY <1>1, <2>2 DEF RequestInv, PendingTrue
  <2>4. Waits(u) /\ ~Waits(u)'
    BY <1>4, IdleRow DEF Waits
  <2>5. ASSUME NEW v \in Users, Waits(v)'
        PROVE  /\ v # u /\ Waits(v) /\ ccall'[v] = ccall[v] /\ ccall[v].id \in ReqIds
               /\ pend'[ccall[v].id] = pend[ccall[v].id]
    <3>1. v # u /\ Waits(v) /\ ccall'[v] = ccall[v] /\ ccall[v].id \in ReqIds
      BY <1>2, <2>4, <2>5 DEF BaseInv, WaitsTrue
    <3>2. ccall[v].id # ccall[u].id
      BY <1>4, <2>4, <3>1 DEF RequestInv, WaitersTrue
    <3> QED
      BY <1>4, <2>1, <3>1, <3>2
  <2>6. \A v \in Users : Waits(v) /\ pend[ccall[v].id] # 0 => codex.cur
    BY DEF RequestInv, PendingTrue, BaseInv, WaitsTrue
  <2>7. WaitersTrue'
    BY <1>1, <2>5, <2>6 DEF RequestInv, WaitersTrue
  <2> QED
    BY <2>3, <2>7 DEF RequestInv
<1> QED
  BY <1>3, <1>4 DEF Processed

\* The reader gives an answer to the request that waits for it.
LEMMA RequestRead ==
    ASSUME BaseInv, RequestInv, NEW g \in Servers, ReaderStep(g)
    PROVE  RequestInv'
<1>1. CASE ~ReadsAnswer(g, pipe[g][1])
  <2>1. /\ UNCHANGED <<pend, reply>> /\ codex'.gen = codex.gen /\ codex'.cur = codex.cur
        /\ codex'.nextID = codex.nextID /\ codex' \in CodexRows
    BY <1>1 DEF ReaderStep, Reads, ReadsStart, ReadsEnd, ReadsAsk, ReadsSettled, ReadsWarning,
       CodexIs, BaseInv, CodexTypes
  <2>2. WaitsKept
    <3>1. CASE UNCHANGED ccall
      BY <3>1 DEF WaitsKept
    <3>2. ASSUME NEW u \in Users, OnlyCall(u), ccall'[u].step = "unload" PROVE WaitsKept
      BY <3>2 DEF WaitsKept, OnlyCall, Waits
    <3> QED
      BY <1>1, <3>1, <3>2 DEF ReaderStep, Reads, ReadsStart, ReadsEnd, ReadsAsk, ReadsSettled,
         ReadsWarning, CallStep
  <2> QED
    BY <2>1, <2>2, RequestSame
<1>2. CASE ReadsAnswer(g, pipe[g][1])
  <2> DEFINE m == pipe[g][1]
  <2>1. m.result # "none" /\ UNCHANGED <<codex, ccall>>
    BY <1>2 DEF ReaderStep, ReadsAnswer, BaseInv, MessagesTrue, AnswerResults
  <2>2. g # 0
    BY CodexAssumption DEF Servers
  <2>3. \A i \in ReqIds : \/ pend'[i] = pend[i] /\ reply'[i] = reply[i]
                          \/ pend[i] # 0 /\ pend'[i] = 0 /\ reply'[i].result # "none"
    BY <1>2, <2>1, <2>2 DEF ReadsAnswer
  <2>4. PendingTrue'
    BY <2>1, <2>3 DEF RequestInv, PendingTrue
  <2>5. \A u \in Users : Waits(u)' => Waits(u) /\ ccall[u].id \in ReqIds
    BY <2>1 DEF Waits, BaseInv, WaitsTrue
  <2>6. WaitersTrue'
    BY <2>1, <2>3, <2>5 DEF RequestInv, WaitersTrue, Waits
  <2> QED
    BY <2>4, <2>6 DEF RequestInv
<1> QED
  BY <1>1, <1>2

\* The end of a process answers its requests.
LEMMA RequestFinished ==
    ASSUME BaseInv, RequestInv, NEW g \in Servers, Finishes(g)
    PROVE  RequestInv'
<1>1. /\ UNCHANGED ccall /\ codex'.nextID = codex.nextID /\ g = codex.gen /\ g # 0
      /\ \A i \in ReqIds : IF pend[i] = g THEN pend'[i] = 0 /\ reply'[i].result = "exited"
                           ELSE pend'[i] = pend[i] /\ reply'[i] = reply[i]
  BY CodexAssumption DEF Finishes, CodexIs, Servers
<1>2. \A i \in ReqIds : \/ pend[i] # 0 /\ pend'[i] = 0 /\ reply'[i].result = "exited"
                        \/ pend[i] = 0 /\ pend'[i] = 0 /\ reply'[i] = reply[i]
  BY <1>1 DEF RequestInv, PendingTrue
<1>3. PendingTrue'
  BY <1>1, <1>2 DEF RequestInv, PendingTrue
<1>4. \A u \in Users : Waits(u)' => Waits(u) /\ ccall[u].id \in ReqIds
  BY <1>1 DEF Waits, BaseInv, WaitsTrue
<1>5. WaitersTrue'
  BY <1>1, <1>2, <1>4 DEF RequestInv, WaitersTrue, Waits
<1> QED
  BY <1>3, <1>5 DEF RequestInv

\* Every step keeps what is known of the requests.
LEMMA RequestsStay ==
    ASSUME BaseInv, RequestInv, CodexStep
    PROVE  RequestInv'
<1>1. codex \in CodexRows
  BY DEF BaseInv, CodexTypes
<1>2. ASSUME NEW u \in Users, CallGoesOn(u) \/ Questioned(u) PROVE RequestInv'
  <2>1. UNCHANGED <<codex, pend, reply>> /\ OnlyCall(u) /\ ~Waits(u)'
    BY <1>2 DEF CallGoesOn, Questioned, CallStep, Waits
  <2>2. WaitsKept
    BY <2>1 DEF WaitsKept, OnlyCall, Waits
  <2> QED
    BY <1>1, <2>1, <2>2, RequestSame
<1>3. ASSUME UNCHANGED <<codex, pend, reply, ccall>> PROVE RequestInv'
  <2>1. WaitsKept
    BY <1>3 DEF WaitsKept
  <2> QED
    BY <1>1, <1>3, <2>1, RequestSame
<1>4. ASSUME NEW u \in Users, GoroutineStep(u) PROVE RequestInv'
  BY <1>2, <1>4, RequestSent, RequestProcessed DEF GoroutineStep, ClaimStep, AnswerStep, RemoveStep
<1>5. ASSUME NEW g \in Servers, ProcessStep(g) PROVE RequestInv'
  <2>1. CASE Exits(g) \/ Settles(g)
    BY <1>3, <2>1 DEF Exits, Settles, Speaks
  <2>2. ASSUME NEW r \in inbox[g], Serves(g, r) PROVE RequestInv'
    BY <1>3, <2>2 DEF Serves, ServesPlain, ServesTurn, ServesInterrupt, Speaks
  <2> QED
    BY <1>5, <2>1, <2>2, RequestRead, RequestFinished DEF ProcessStep
<1>6. ASSUME NEW t \in Turns, EndsTurn(t) \/ Asks(t) PROVE RequestInv'
  BY <1>3, <1>6 DEF EndsTurn, Asks, Speaks
<1> QED
  BY <1>4, <1>5, <1>6, RequestProcessed DEF CodexStep

\* The initial states, and what the invariant is for.
LEMMA RequestsStart ==
    ASSUME CodexInit
    PROVE  RequestInv
<1>1. \A i \in ReqIds : pend[i] = 0 /\ reply[i].result = "none"
  BY DEF CodexInit, NoAnswer, Answer
<1>2. \A u \in Users : ~Waits(u)
  BY IdleRow DEF CodexInit, Waits
<1> QED
  BY <1>1, <1>2 DEF RequestInv, PendingTrue, WaitersTrue

\* Whoever waits is waited for, in a process whose end is still to be handled, or has its answer.
LEMMA NoneWaits == ASSUME BaseInv, RequestInv PROVE NoneWaitsForTheDead
<1>1. ASSUME NEW i \in ReqIds, pend[i] # 0 PROVE proc[pend[i]] \in {"live", "closing", "dead"}
  BY <1>1 DEF RequestInv, PendingTrue, BaseInv, ServerInv, ServersTrue
<1>2. ASSUME NEW u \in Users, ccall[u].step \in {"wait", "init"}
      PROVE  pend[ccall[u].id] # 0 \/ reply[ccall[u].id] # NoAnswer
  BY <1>2 DEF RequestInv, WaitersTrue, Waits, NoAnswer, Answer
<1> QED
  BY <1>1, <1>2 DEF NoneWaitsForTheDead

-----------------------------------------------------------------------------
(***************************************************************************)
(* A question has one answer.                                              *)
(***************************************************************************)
\* The questions on the standard output of a process have their own numbers.
AsksTrue ==
    \A g \in Servers :
        /\ \A m \in Said(g) : m.kind = "ask" => m.n <= posed[g]
        /\ \A i, j \in 1..Len(pipe[g]) :
               pipe[g][i].kind = "ask" /\ pipe[g][j].kind = "ask" /\ pipe[g][i].n = pipe[g][j].n
               => i = j
Unasked(g, q) == \A m \in Said(g) : ~(m.kind = "ask" /\ m.n = q)

\* A step that asks nothing.
LEMMA AsksStay ==
    ASSUME BaseInv, AsksTrue, UNCHANGED posed,
           \/ UNCHANGED pipe
           \/ \E g \in Servers : PipeReads(g)
           \/ \E g \in Servers : \E M \in SUBSET Messages :
                  PipeGrows(g, M) /\ \A m \in M : m.kind # "ask"
           \/ \E g \in Servers : /\ pipe'[g] = <<>> /\ pipe' \in [Servers -> Seq(Messages)]
                                 /\ \A h \in Servers \ {g} : pipe'[h] = pipe[h]
    PROVE  AsksTrue' /\ \A g \in Servers, q \in Questions : Unasked(g, q) => Unasked(g, q)'
<1> DEFINE Fine(h) ==
        /\ \A m \in Said(h)' : m.kind = "ask" => m \in Said(h)
        /\ \A i, j \in 1..Len(pipe'[h]) :
               pipe'[h][i].kind = "ask" /\ pipe'[h][j].kind = "ask" /\ pipe'[h][i].n = pipe'[h][j].n
               => i = j
<1>1. ASSUME NEW h \in Servers, pipe'[h] = pipe[h] PROVE Fine(h)
  <2>1. Said(h)' = Said(h)
    BY <1>1 DEF Said
  <2> QED
    BY <1>1, <2>1 DEF AsksTrue
<1>2. ASSUME UNCHANGED pipe PROVE \A h \in Servers : Fine(h)
  <2> HIDE DEF Fine
  <2> QED
    BY <1>1, <1>2
<1>3. ASSUME NEW g \in Servers, PipeReads(g) PROVE \A h \in Servers : Fine(h)
  <2>1. Len(pipe[g]) \in Nat /\ Len(pipe'[g]) \in Nat /\ Len(pipe'[g]) = Len(pipe[g]) - 1
    BY <1>3 DEF BaseInv, CodexTypes, PipeReads
  <2>2. ASSUME NEW i \in 1..Len(pipe'[g]), NEW j \in 1..Len(pipe'[g]),
               pipe'[g][i].kind = "ask", pipe'[g][j].kind = "ask", pipe'[g][i].n = pipe'[g][j].n
        PROVE  i = j
    <3>1. i + 1 \in 1..Len(pipe[g]) /\ j + 1 \in 1..Len(pipe[g])
      BY <2>1
    <3>2. pipe'[g][i] = pipe[g][i + 1] /\ pipe'[g][j] = pipe[g][j + 1]
      BY <1>3 DEF PipeReads
    <3>3. i + 1 = j + 1
      BY <2>2, <3>1, <3>2 DEF AsksTrue
    <3> QED
      BY <2>1, <3>3
  <2>3. \A m \in Said(g)' : m \in Said(g)
    BY <1>3 DEF PipeReads
  <2>4. Fine(g)
    BY <2>2, <2>3
  <2>5. \A h \in Servers \ {g} : pipe'[h] = pipe[h]
    BY <1>3 DEF PipeReads
  <2> HIDE DEF Fine
  <2> QED
    BY <1>1, <2>4, <2>5
<1>4. ASSUME NEW g \in Servers, NEW M \in SUBSET Messages, PipeGrows(g, M), \A m \in M : m.kind # "ask"
      PROVE  \A h \in Servers : Fine(h)
  <2>1. Len(pipe[g]) \in Nat /\ Len(pipe'[g]) \in Nat
    BY <1>4 DEF BaseInv, CodexTypes, PipeGrows
  <2>2. ASSUME NEW i \in 1..Len(pipe'[g]), pipe'[g][i].kind = "ask"
        PROVE  i \in 1..Len(pipe[g]) /\ pipe'[g][i] = pipe[g][i]
    <3>1. ~(i > Len(pipe[g]))
      BY <1>4, <2>2 DEF PipeGrows
    <3>2. i \in 1..Len(pipe[g])
      BY <2>1, <3>1
    <3> QED
      BY <1>4, <3>2 DEF PipeGrows
  <2>3. \A i, j \in 1..Len(pipe'[g]) :
            pipe'[g][i].kind = "ask" /\ pipe'[g][j].kind = "ask" /\ pipe'[g][i].n = pipe'[g][j].n
            => i = j
    BY <2>2 DEF AsksTrue
  <2>4. \A m \in Said(g)' : m.kind = "ask" => m \in Said(g)
    BY <1>4 DEF PipeGrows
  <2>5. Fine(g)
    BY <2>3, <2>4
  <2>6. \A h \in Servers \ {g} : pipe'[h] = pipe[h]
    BY <1>4 DEF PipeGrows
  <2> HIDE DEF Fine
  <2> QED
    BY <1>1, <2>5, <2>6
<1>5. ASSUME NEW g \in Servers, pipe'[g] = <<>>, \A h \in Servers \ {g} : pipe'[h] = pipe[h]
      PROVE  \A h \in Servers : Fine(h)
  <2>1. Len(<<>>) = 0
    OBVIOUS
  <2>2. Fine(g)
    BY <1>5, <2>1 DEF Said
  <2> HIDE DEF Fine
  <2> QED
    BY <1>1, <1>5, <2>2
<1>6. \A h \in Servers : Fine(h)
  <2> HIDE DEF Fine
  <2> QED
    BY <1>2, <1>3, <1>4, <1>5
<1>7. AsksTrue'
  BY <1>6 DEF AsksTrue
<1>8. ASSUME NEW g \in Servers, NEW q \in Questions, Unasked(g, q) PROVE Unasked(g, q)'
  BY <1>6, <1>8 DEF Unasked
<1> QED
  BY <1>7, <1>8

\* The question that the reader has is not asked again.
LEMMA AskRead ==
    ASSUME BaseInv, AsksTrue, NEW g \in Servers, PipeReads(g), pipe[g][1].kind = "ask",
           pipe[g][1] \in Said(g)
    PROVE  \A q \in Questions : q = pipe[g][1].n => Unasked(g, q)'
<1>1. Len(pipe[g]) \in Nat /\ Len(pipe'[g]) \in Nat /\ Len(pipe'[g]) = Len(pipe[g]) - 1
  BY DEF BaseInv, CodexTypes, PipeReads
<1>2. ASSUME NEW i \in 1..Len(pipe'[g]) PROVE ~(pipe'[g][i].kind = "ask" /\ pipe'[g][i].n = pipe[g][1].n)
  <2>1. i + 1 \in 1..Len(pipe[g]) /\ 1 \in 1..Len(pipe[g]) /\ i + 1 # 1
    BY <1>1
  <2>2. pipe'[g][i] = pipe[g][i + 1]
    BY DEF PipeReads
  <2> QED
    BY <2>1, <2>2 DEF AsksTrue
<1> QED
  BY <1>2 DEF Unasked, Said

\* Who speaks, by the turn that it speaks of.
LEMMA SpeaksOf ==
    ASSUME NEW t \in Turns, NEW g \in Servers, turns[t].gen = g, turns'[t].gen = g, NEW M,
           Speaks(turns[t].gen, M)
    PROVE  Speaks(g, M)
<1>1. Said(turns[t].gen)' = Said(g)' /\ Said(turns[t].gen) = Said(g)
  BY DEF Said
<1> QED
  BY <1>1 DEF Speaks, PipeGrows

\* A process asks a question with a new number.
LEMMA AskAdded ==
    ASSUME BaseInv, AsksTrue, NEW t \in Turns, Asks(t), NEW g \in Servers, g = turns[t].gen
    PROVE  /\ AsksTrue'
           /\ \A h \in Servers, q \in Questions :
                  Unasked(h, q) /\ ~(h = g /\ q = posed[g] + 1) => Unasked(h, q)'
<1>1. /\ g \in Servers /\ posed'[g] = posed[g] + 1 /\ posed[g] \in Nat
      /\ \A h \in Servers \ {g} : posed'[h] = posed[h]
  BY DEF Asks, BaseInv, CodexTypes
<1>2. PICK m \in Messages : m.kind = "ask" /\ m.n = posed'[g] /\ Speaks(turns[t].gen, {m})
  <2>1. posed'[turns[t].gen] = posed'[g]
    OBVIOUS
  <2> QED
    BY <2>1 DEF Asks
<1>3. PipeGrows(g, {m})
  <2>1. turns' = turns
    BY DEF Asks
  <2> QED
    BY <1>2, <2>1, SpeaksOf DEF Speaks
<1>4. Len(pipe[g]) \in Nat /\ Len(pipe'[g]) \in Nat
  BY <1>1, <1>3 DEF BaseInv, CodexTypes, PipeGrows
<1>5. ASSUME NEW i \in 1..Len(pipe'[g])
      PROVE  \/ i \in 1..Len(pipe[g]) /\ pipe'[g][i] = pipe[g][i] /\ pipe[g][i] \in Said(g)
             \/ i > Len(pipe[g]) /\ pipe'[g][i] = m
  <2>1. CASE i > Len(pipe[g])
    BY <1>3, <2>1 DEF PipeGrows
  <2>2. CASE ~(i > Len(pipe[g]))
    <3>1. i \in 1..Len(pipe[g])
      BY <1>4, <2>2
    <3> QED
      BY <1>3, <3>1 DEF PipeGrows, Said
  <2> QED
    BY <2>1, <2>2
<1>6. \A x \in Said(g) : x.kind = "ask" => x.n # m.n
  <2>1. \A x \in Said(g) : x.n \in Nat
    BY <1>1, SaidRow DEF BaseInv
  <2> QED
    BY <1>1, <1>2, <2>1 DEF AsksTrue
<1>7. ASSUME NEW i \in 1..Len(pipe'[g]), NEW j \in 1..Len(pipe'[g]),
             i > Len(pipe[g]), j > Len(pipe[g])
      PROVE  i = j
  <2>1. i > j => pipe'[g][j].kind = "answer"
    BY <1>3, <1>7 DEF PipeGrows
  <2>2. j > i => pipe'[g][i].kind = "answer"
    BY <1>3, <1>7 DEF PipeGrows
  <2>3. pipe'[g][i] = m /\ pipe'[g][j] = m
    BY <1>3, <1>7 DEF PipeGrows
  <2> QED
    BY <1>2, <2>1, <2>2, <2>3
<1>8. \A i, j \in 1..Len(pipe'[g]) :
          pipe'[g][i].kind = "ask" /\ pipe'[g][j].kind = "ask" /\ pipe'[g][i].n = pipe'[g][j].n
          => i = j
  <2>1. ASSUME NEW i \in 1..Len(pipe'[g]), NEW j \in 1..Len(pipe'[g]),
               pipe'[g][i].kind = "ask", pipe'[g][j].kind = "ask", pipe'[g][i].n = pipe'[g][j].n
        PROVE  i = j
    <3>1. CASE i > Len(pipe[g]) /\ j > Len(pipe[g])
      BY <1>7, <3>1
    <3>2. CASE i \in 1..Len(pipe[g]) /\ j \in 1..Len(pipe[g])
      <4>1. pipe'[g][i] = pipe[g][i] /\ pipe'[g][j] = pipe[g][j]
        BY <1>3, <3>2 DEF PipeGrows
      <4> QED
        BY <2>1, <3>2, <4>1 DEF AsksTrue
    <3>3. CASE i \in 1..Len(pipe[g]) /\ j > Len(pipe[g])
      <4>1. pipe'[g][i] \in Said(g) /\ pipe'[g][j] = m
        BY <1>4, <1>5, <3>3
      <4> QED
        BY <1>2, <1>6, <2>1, <4>1
    <3>4. CASE j \in 1..Len(pipe[g]) /\ i > Len(pipe[g])
      <4>1. pipe'[g][j] \in Said(g) /\ pipe'[g][i] = m
        BY <1>4, <1>5, <3>4
      <4> QED
        BY <1>2, <1>6, <2>1, <4>1
    <3> QED
      BY <1>5, <3>1, <3>2, <3>3, <3>4
  <2> QED
    BY <2>1
<1>9. \A x \in Said(g)' : x.kind = "ask" => x.n <= posed'[g]
  <2>1. \A x \in Said(g)' : x \in Said(g) \/ x = m
    BY <1>3 DEF PipeGrows
  <2>2. \A x \in Said(g) : x.n \in Nat
    BY <1>1, SaidRow DEF BaseInv
  <2>3. \A x \in Said(g) : x.kind = "ask" => x.n <= posed[g]
    BY <1>1 DEF AsksTrue
  <2> QED
    BY <1>1, <1>2, <2>1, <2>2, <2>3
<1>10. \A h \in Servers \ {g} : pipe'[h] = pipe[h] /\ Said(h)' = Said(h)
  BY <1>3 DEF PipeGrows, Said
<1>11. AsksTrue'
  <2>1. ASSUME NEW h \in Servers \ {g}
        PROVE  /\ \A x \in Said(h)' : x.kind = "ask" => x.n <= posed'[h]
               /\ \A i, j \in 1..Len(pipe'[h]) :
                      pipe'[h][i].kind = "ask" /\ pipe'[h][j].kind = "ask" /\ pipe'[h][i].n = pipe'[h][j].n
                      => i = j
    BY <1>1, <1>10 DEF AsksTrue
  <2>2. \A i \in 1..Len(pipe'[g]) : pipe'[g][i].kind = "ask" => pipe'[g][i].n <= posed'[g]
    BY <1>9 DEF Said
  <2>3. \A h \in Servers \ {g} : \A i \in 1..Len(pipe'[h]) :
            pipe'[h][i].kind = "ask" => pipe'[h][i].n <= posed'[h]
    BY <2>1 DEF Said
  <2>4. ASSUME NEW h \in Servers
        PROVE  /\ \A i \in 1..Len(pipe'[h]) : pipe'[h][i].kind = "ask" => pipe'[h][i].n <= posed'[h]
               /\ \A i, j \in 1..Len(pipe'[h]) :
                      pipe'[h][i].kind = "ask" /\ pipe'[h][j].kind = "ask" /\ pipe'[h][i].n = pipe'[h][j].n
                      => i = j
    <3>1. CASE h = g
      BY <1>8, <2>2, <3>1
    <3>2. CASE h # g
      BY <2>1, <2>3, <3>2
    <3> QED
      BY <3>1, <3>2
  <2> QED
    BY <2>4 DEF AsksTrue, Said
<1>12. ASSUME NEW h \in Servers, NEW q \in Questions, Unasked(h, q), ~(h = g /\ q = posed[g] + 1)
       PROVE  Unasked(h, q)'
  <2>1. \A x \in Said(h)' : x \in Said(h) \/ (h = g /\ x = m)
    <3>1. CASE h = g
      BY <1>3, <3>1 DEF PipeGrows, Said
    <3>2. CASE h # g
      BY <1>10, <3>2
    <3> QED
      BY <3>1, <3>2
  <2> QED
    BY <1>1, <1>2, <1>12, <2>1 DEF Unasked
<1> QED
  BY <1>11, <1>12

-----------------------------------------------------------------------------
\* A question that waits is one that the current process asked; who answers one, and
\* who got an answer, was asked it.
QuestionsTrue ==
    /\ \A q \in Questions : waiting[q].gen # 0 =>
           codex.cur /\ waiting[q].gen = codex.gen /\ q <= posed[codex.gen]
    /\ \A u \in Users : ccall[u].step = "respond" =>
           /\ ccall[u].id \in Questions /\ ccall[u].gen \in Servers /\ ccall[u].gen <= codex.gen
           /\ ccall[u].id <= posed[ccall[u].gen]
    /\ \A g \in Servers, q \in Questions : answers[g][q] > 0 => q <= posed[g]

\* u is about to answer the question q of the process g.
Claims(u, g, q) == ccall[u].step = "respond" /\ ccall[u].id = q /\ ccall[u].gen = g

\* The adapter has a question once.
Touched(g, q) ==
    answers[g][q] > 0 \/ waiting[q].gen = g \/ \E u \in Users : Claims(u, g, q)
AskedOnce == \A g \in Servers, q \in Questions : Touched(g, q) => Unasked(g, q)

\* No earlier process asked a question of that number.
First(g, q) == \A h \in Servers : h < g => posed[h] < q
ClaimTrue(g, q) ==
    /\ answers[g][q] <= 1
    /\ \A u \in Users : Claims(u, g, q) => answers[g][q] = 0
    /\ waiting[q].gen = g /\ (answers[g][q] > 0 \/ \E u \in Users : Claims(u, g, q))
           => waiting[q].responding
    /\ \A u, v \in Users : Claims(u, g, q) /\ Claims(v, g, q) => u = v
ClaimsTrue == \A g \in Servers, q \in Questions : First(g, q) => ClaimTrue(g, q)
QuestionInv == AsksTrue /\ QuestionsTrue /\ AskedOnce /\ ClaimsTrue

\* The numbers are numbers.
LEMMA QuestionRows ==
    ASSUME BaseInv
    PROVE  /\ codex.gen \in Nat /\ \A g \in Servers : g \in Nat /\ g # 0
           /\ \A q \in Questions : q \in Nat
           /\ \A g \in Servers : posed[g] \in Nat
           /\ \A g \in Servers, q \in Questions : answers[g][q] \in Nat
           /\ \A q \in Questions : waiting[q].gen \in Nat
BY CodexAssumption DEF BaseInv, CodexTypes, CodexRows, Servers, Questions

\* A step that takes up no question.
LEMMA QuestionSame ==
    ASSUME BaseInv, QuestionInv, codex' \in CodexRows, UNCHANGED <<posed, answers>>,
           AsksTrue' /\ \A g \in Servers, q \in Questions : Unasked(g, q) => Unasked(g, q)',
           codex'.gen >= codex.gen,
           \A q \in Questions : waiting'[q] = waiting[q] \/ waiting'[q] = NoQuestion,
           \/ codex'.gen = codex.gen /\ codex'.cur = codex.cur
           \/ \A q \in Questions : waiting'[q].gen = 0,
           \A u \in Users : ccall'[u].step = "respond" => ccall'[u] = ccall[u]
    PROVE  QuestionInv'
<1>1. \A q \in Questions : waiting'[q] = waiting[q] \/ waiting'[q].gen = 0
  BY DEF NoQuestion
<1>2. \A u \in Users, g \in Servers, q \in Questions : Claims(u, g, q)' => Claims(u, g, q)
  BY DEF Claims
<1>3. codex'.gen \in Nat
  BY CodexAssumption DEF CodexRows
<1>4. QuestionsTrue'
  <2>1. \A q \in Questions : waiting'[q].gen # 0 =>
            codex'.cur /\ waiting'[q].gen = codex'.gen /\ q <= posed'[codex'.gen]
    BY <1>1 DEF QuestionInv, QuestionsTrue
  <2>2. ASSUME NEW u \in Users, ccall'[u].step = "respond"
        PROVE  /\ ccall'[u].id \in Questions /\ ccall'[u].gen \in Servers
               /\ ccall'[u].gen <= codex'.gen /\ ccall'[u].id <= posed'[ccall'[u].gen]
    <3>1. /\ ccall[u].id \in Questions /\ ccall[u].gen \in Servers /\ ccall[u].gen <= codex.gen
          /\ ccall[u].id <= posed[ccall[u].gen] /\ ccall'[u] = ccall[u]
      BY <2>2 DEF QuestionInv, QuestionsTrue
    <3>2. ccall[u].gen \in Nat /\ codex.gen \in Nat
      BY <3>1, QuestionRows
    <3>3. ccall[u].gen <= codex'.gen
      BY <1>3, <3>1, <3>2
    <3> QED
      BY <3>1, <3>3
  <2>3. \A g \in Servers, q \in Questions : answers'[g][q] > 0 => q <= posed'[g]
    BY DEF QuestionInv, QuestionsTrue
  <2> QED
    BY <2>1, <2>2, <2>3 DEF QuestionsTrue
<1>5. \A g \in Servers, q \in Questions : waiting'[q].gen = g => waiting'[q] = waiting[q]
  BY <1>1, QuestionRows
<1>6. AskedOnce'
  <2>1. ASSUME NEW g \in Servers, NEW q \in Questions, Touched(g, q)' PROVE Touched(g, q)
    BY <1>2, <1>5, <2>1 DEF Touched
  <2> QED
    BY <2>1 DEF QuestionInv, AskedOnce
<1>7. ClaimsTrue'
  <2>1. ASSUME NEW g \in Servers, NEW q \in Questions, First(g, q)' PROVE ClaimTrue(g, q)'
    <3>1. ClaimTrue(g, q)
      BY <2>1 DEF QuestionInv, ClaimsTrue, First
    <3> QED
      BY <1>2, <1>5, <3>1 DEF ClaimTrue
  <2> QED
    BY <2>1 DEF ClaimsTrue
<1> QED
  BY <1>4, <1>6, <1>7 DEF QuestionInv

\* A question is asked.
LEMMA QuestionAsked ==
    ASSUME BaseInv, QuestionInv, NEW t \in Turns, Asks(t)
    PROVE  QuestionInv'
<1>1. PICK g \in Servers : g = turns[t].gen
  BY DEF Asks
<1>2. /\ posed'[g] = posed[g] + 1 /\ \A h \in Servers \ {g} : posed'[h] = posed[h]
  BY <1>1 DEF Asks
<1>3. UNCHANGED <<codex, waiting, ccall, answers>> /\ Runs(g)
  BY <1>1 DEF Asks, Speaks
<1>4. /\ AsksTrue'
      /\ \A h \in Servers, q \in Questions :
             Unasked(h, q) /\ ~(h = g /\ q = posed[g] + 1) => Unasked(h, q)'
  BY <1>1, AskAdded DEF QuestionInv
<1>5. \A h \in Servers : posed[h] <= posed'[h] /\ posed'[h] \in Nat
  <2>1. \A h \in Servers : posed[h] \in Nat
    BY QuestionRows
  <2> QED
    BY <1>2, <2>1
<1>6. \A n \in Nat, h \in Servers : n <= posed[h] => n <= posed'[h]
  BY <1>5, QuestionRows
<1>7. QuestionsTrue'
  <2>1. ASSUME NEW q \in Questions, waiting'[q].gen # 0
        PROVE  codex'.cur /\ waiting'[q].gen = codex'.gen /\ q <= posed'[codex'.gen]
    <3>1. codex.cur /\ waiting[q].gen = codex.gen /\ q <= posed[codex.gen] /\ codex.gen \in Servers
      BY <1>3, <2>1 DEF QuestionInv, QuestionsTrue, BaseInv, ServerInv, ServersTrue
    <3>2. q \in Nat
      BY QuestionRows
    <3> QED
      BY <1>3, <1>6, <3>1, <3>2
  <2>2. ASSUME NEW u \in Users, ccall'[u].step = "respond"
        PROVE  /\ ccall'[u].id \in Questions /\ ccall'[u].gen \in Servers
               /\ ccall'[u].gen <= codex'.gen /\ ccall'[u].id <= posed'[ccall'[u].gen]
    <3>1. /\ ccall[u].id \in Questions /\ ccall[u].gen \in Servers
          /\ ccall[u].gen <= codex.gen /\ ccall[u].id <= posed[ccall[u].gen]
      BY <1>3, <2>2 DEF QuestionInv, QuestionsTrue
    <3>2. ccall[u].id \in Nat
      BY <3>1, QuestionRows
    <3> QED
      BY <1>3, <1>6, <3>1, <3>2
  <2>3. ASSUME NEW h \in Servers, NEW q \in Questions, answers'[h][q] > 0 PROVE q <= posed'[h]
    <3>1. q <= posed[h] /\ q \in Nat
      BY <1>3, <2>3, QuestionRows DEF QuestionInv, QuestionsTrue
    <3> QED
      BY <1>6, <3>1
  <2> QED
    BY <2>1, <2>2, <2>3 DEF QuestionsTrue
<1>8. AskedOnce'
  <2>1. ASSUME NEW h \in Servers, NEW q \in Questions, Touched(h, q)' PROVE Unasked(h, q)'
    <3>1. Touched(h, q)
      BY <1>3, <2>1 DEF Touched, Claims
    <3>2. q <= posed[h]
      <4>1. ASSUME waiting[q].gen = h PROVE q <= posed[h]
        BY <4>1, QuestionRows DEF QuestionInv, QuestionsTrue
      <4>2. ASSUME NEW u \in Users, Claims(u, h, q) PROVE q <= posed[h]
        BY <4>2 DEF QuestionInv, QuestionsTrue, Claims
      <4> QED
        BY <3>1, <4>1, <4>2 DEF Touched, QuestionInv, QuestionsTrue
    <3>3. q # posed[h] + 1
      BY <3>2, QuestionRows
    <3> QED
      BY <1>4, <3>1, <3>3 DEF QuestionInv, AskedOnce
  <2> QED
    BY <2>1 DEF AskedOnce
<1>9. ClaimsTrue'
  <2>1. ASSUME NEW h \in Servers, NEW q \in Questions, First(h, q)' PROVE ClaimTrue(h, q)'
    <3>1. First(h, q)
      <4>1. ASSUME NEW k \in Servers, k < h PROVE posed[k] < q
        <5>1. posed'[k] < q
          BY <2>1, <4>1 DEF First
        <5> QED
          BY <1>5, <5>1, QuestionRows
      <4> QED
        BY <4>1 DEF First
    <3>2. ClaimTrue(h, q)
      BY <3>1 DEF QuestionInv, ClaimsTrue
    <3> QED
      BY <1>3, <3>2 DEF ClaimTrue, Claims
  <2> QED
    BY <2>1 DEF ClaimsTrue
<1> QED
  BY <1>4, <1>7, <1>8, <1>9 DEF QuestionInv

\* The reader takes a question up.
LEMMA QuestionRead ==
    ASSUME BaseInv, QuestionInv, NEW g \in Servers, ReaderStep(g), IsCurrent(g),
           ReadsAsk(g, pipe[g][1])
    PROVE  QuestionInv'
<1> DEFINE m == pipe[g][1]
<1>1. /\ UNCHANGED <<codex, ccall, posed, answers>> /\ PipeReads(g) /\ m \in Said(g)
      /\ g = codex.gen /\ codex.cur /\ m.kind = "ask" /\ m.n \in Questions
      /\ \A q \in Questions : \/ waiting'[q] = waiting[q]
                              \/ /\ q = m.n /\ waiting[q].gen = 0 /\ waiting'[q].gen = g
                                 /\ ~waiting'[q].responding
  BY DEF ReaderStep, ReadsAsk, IsCurrent, BaseInv, MessagesTrue
<1>2. /\ AsksTrue'
      /\ \A h \in Servers, q \in Questions : Unasked(h, q) => Unasked(h, q)'
  BY <1>1, AsksStay DEF QuestionInv
<1>3. \A q \in Questions : q = m.n => Unasked(g, q)' /\ ~Unasked(g, q)
  BY <1>1, AskRead DEF QuestionInv, Unasked
<1>4. m.n <= posed[g]
  BY <1>1 DEF QuestionInv, AsksTrue
<1> HIDE DEF m
<1>5. QuestionsTrue'
  BY <1>1, <1>4 DEF QuestionInv, QuestionsTrue
<1>6. ASSUME NEW h \in Servers, NEW q \in Questions, waiting'[q].gen = h
      PROVE  waiting'[q] = waiting[q] \/ (h = g /\ q = m.n)
  BY <1>1, <1>6
<1>7. AskedOnce'
  <2>1. ASSUME NEW h \in Servers, NEW q \in Questions, Touched(h, q)' PROVE Unasked(h, q)'
    <3>1. Touched(h, q) \/ (h = g /\ q = m.n)
      BY <1>1, <1>6, <2>1 DEF Touched, Claims
    <3>2. CASE Touched(h, q)
      BY <1>2, <3>2 DEF QuestionInv, AskedOnce
    <3>3. CASE h = g /\ q = m.n
      BY <1>3, <3>3
    <3> QED
      BY <3>1, <3>2, <3>3
  <2> QED
    BY <2>1 DEF AskedOnce
<1>8. ClaimsTrue'
  <2>1. ASSUME NEW h \in Servers, NEW q \in Questions, First(h, q)' PROVE ClaimTrue(h, q)'
    <3>1. ClaimTrue(h, q)
      BY <1>1, <2>1 DEF QuestionInv, ClaimsTrue, First
    <3>2. CASE waiting'[q] = waiting[q]
      BY <1>1, <3>1, <3>2 DEF ClaimTrue, Claims
    <3>3. CASE waiting'[q].gen # h
      BY <1>1, <3>1, <3>3 DEF ClaimTrue, Claims
    <3>4. CASE h = g /\ q = m.n
      <4>1. ~Touched(h, q)
        BY <1>3, <3>4 DEF QuestionInv, AskedOnce
      <4>2. answers'[h][q] = answers[h][q] /\ ~(answers[h][q] > 0)
            /\ \A u \in Users : ~Claims(u, h, q)'
        BY <1>1, <4>1 DEF Touched, Claims
      <4>3. answers'[h][q] <= 1
        BY <1>1, <3>1 DEF ClaimTrue
      <4> QED
        BY <4>2, <4>3 DEF ClaimTrue
    <3> QED
      BY <1>6, <3>2, <3>3, <3>4
  <2> QED
    BY <2>1 DEF ClaimsTrue
<1> QED
  BY <1>2, <1>5, <1>7, <1>8 DEF QuestionInv

-----------------------------------------------------------------------------
\* A question is claimed that nobody has answered or claimed.
LEMMA QuestionClaimed ==
    ASSUME BaseInv, QuestionInv, NEW u \in Users, ClaimStep(u)
    PROVE  QuestionInv'
<1>1. PICK q \in Questions :
        /\ Questioned(u) /\ UNCHANGED answers
        /\ ccall[u].step = "idle" /\ ccall'[u].step = "respond"
        /\ ccall'[u].id = q /\ ccall'[u].gen = waiting[q].gen
        /\ waiting[q].gen # 0 /\ ~waiting[q].responding
        /\ waiting'[q].responding /\ waiting'[q].gen = waiting[q].gen
        /\ \A p \in Questions : p # q => waiting'[p] = waiting[p]
  BY DEF ClaimStep
<1>2. UNCHANGED <<codex, pipe, posed, answers>> /\ OnlyCall(u)
  BY <1>1 DEF Questioned, CallStep
<1>3. PICK g \in Servers : g = codex.gen /\ waiting[q].gen = g /\ codex.cur /\ q <= posed[g]
  BY <1>1 DEF QuestionInv, QuestionsTrue, BaseInv, ServerInv, ServersTrue
<1>4. /\ AsksTrue'
      /\ \A h \in Servers, p \in Questions : Unasked(h, p) => Unasked(h, p)'
  BY <1>2, AsksStay DEF QuestionInv
<1>5. \A p \in Questions : waiting'[p].gen = waiting[p].gen
  BY <1>1
<1>6. \A v \in Users, h \in Servers, p \in Questions :
          Claims(v, h, p)' => Claims(v, h, p) \/ (v = u /\ h = g /\ p = q)
  BY <1>1, <1>2, <1>3 DEF Claims, OnlyCall
<1>7. QuestionsTrue'
  <2>1. \A p \in Questions : waiting'[p].gen # 0 =>
            codex'.cur /\ waiting'[p].gen = codex'.gen /\ p <= posed'[codex'.gen]
    BY <1>2, <1>5 DEF QuestionInv, QuestionsTrue
  <2>2. ASSUME NEW v \in Users, ccall'[v].step = "respond"
        PROVE  /\ ccall'[v].id \in Questions /\ ccall'[v].gen \in Servers
               /\ ccall'[v].gen <= codex'.gen /\ ccall'[v].id <= posed'[ccall'[v].gen]
    <3>1. CASE v = u
      BY <1>1, <1>2, <1>3, <3>1, QuestionRows
    <3>2. CASE v # u
      BY <1>2, <2>2, <3>2 DEF QuestionInv, QuestionsTrue, OnlyCall
    <3> QED
      BY <3>1, <3>2
  <2>3. \A h \in Servers, p \in Questions : answers'[h][p] > 0 => p <= posed'[h]
    BY <1>2 DEF QuestionInv, QuestionsTrue
  <2> QED
    BY <2>1, <2>2, <2>3 DEF QuestionsTrue
<1>8. AskedOnce'
  <2>1. ASSUME NEW h \in Servers, NEW p \in Questions, Touched(h, p)' PROVE Unasked(h, p)'
    <3>1. Touched(h, p)
      BY <1>2, <1>3, <1>5, <1>6, <2>1 DEF Touched
    <3> QED
      BY <1>4, <3>1 DEF QuestionInv, AskedOnce
  <2> QED
    BY <2>1 DEF AskedOnce
<1>9. ClaimsTrue'
  <2>1. ASSUME NEW h \in Servers, NEW p \in Questions, First(h, p)' PROVE ClaimTrue(h, p)'
    <3>1. ClaimTrue(h, p)
      BY <1>2, <2>1 DEF QuestionInv, ClaimsTrue, First
    <3>2. CASE h = g /\ p = q
      <4>1. ~(answers[h][p] > 0) /\ \A v \in Users : ~Claims(v, h, p)
        BY <1>1, <1>3, <3>1, <3>2 DEF ClaimTrue
      <4>2. answers[h][p] = 0
        BY <4>1, QuestionRows
      <4> QED
        BY <1>1, <1>2, <1>6, <3>2, <4>1, <4>2 DEF ClaimTrue
    <3>3. CASE ~(h = g /\ p = q)
      <4>1. \A v \in Users : Claims(v, h, p)' => Claims(v, h, p)
        BY <1>6, <3>3
      <4>2. waiting'[p].gen = h => waiting'[p] = waiting[p]
        BY <1>1, <1>3, <1>5, <3>3
      <4> QED
        BY <1>2, <3>1, <4>1, <4>2 DEF ClaimTrue
    <3> QED
      BY <3>2, <3>3
  <2> QED
    BY <2>1 DEF ClaimsTrue
<1> QED
  BY <1>4, <1>7, <1>8, <1>9 DEF QuestionInv

\* A question is answered, or its claim given back.
LEMMA QuestionAnswered ==
    ASSUME BaseInv, QuestionInv, NEW u \in Users, AnswerStep(u)
    PROVE  QuestionInv'
<1> DEFINE q == ccall[u].id
           g == ccall[u].gen
<1>1. /\ Questioned(u) /\ ccall[u].step = "respond" /\ q \in Questions /\ g \in Servers
      /\ g <= codex.gen /\ q <= posed[g] /\ Claims(u, g, q)
  BY DEF AnswerStep, QuestionInv, QuestionsTrue, Claims
<1>2. /\ UNCHANGED <<codex, pipe, posed>> /\ OnlyCall(u)
      /\ waiting' \in [Questions -> WaitingRows] /\ waiting \in [Questions -> WaitingRows]
  BY <1>1 DEF Questioned, CallStep, BaseInv, CodexTypes, WaitingRows
<1>3. /\ AsksTrue'
      /\ \A h \in Servers, p \in Questions : Unasked(h, p) => Unasked(h, p)'
  BY <1>2, AsksStay DEF QuestionInv
<1>4. ccall'[u].step # "respond"
  BY IdleRow DEF AnswerStep
<1>5. \A v \in Users, h \in Servers, p \in Questions : Claims(v, h, p)' => v # u /\ Claims(v, h, p)
  BY <1>2, <1>4 DEF Claims, OnlyCall
<1>6. \A v \in Users : ccall'[v].step = "respond" => ccall'[v] = ccall[v]
  BY <1>2, <1>4 DEF OnlyCall
<1>7. CASE /\ UNCHANGED waiting /\ codex.cur /\ codex.gen = g
           /\ answers'[g][q] = answers[g][q] + 1
           /\ \A h \in Servers, p \in Questions : h # g \/ p # q => answers'[h][p] = answers[h][p]
  <2> HIDE DEF q, g
  <2>1. QuestionsTrue'
    <3>1. \A p \in Questions : waiting'[p].gen # 0 =>
              codex'.cur /\ waiting'[p].gen = codex'.gen /\ p <= posed'[codex'.gen]
      BY <1>2, <1>7 DEF QuestionInv, QuestionsTrue
    <3>2. \A v \in Users : ccall'[v].step = "respond" =>
              /\ ccall'[v].id \in Questions /\ ccall'[v].gen \in Servers /\ ccall'[v].gen <= codex'.gen
              /\ ccall'[v].id <= posed'[ccall'[v].gen]
      BY <1>2, <1>6 DEF QuestionInv, QuestionsTrue
    <3>3. \A h \in Servers, p \in Questions : answers'[h][p] > 0 => p <= posed'[h]
      BY <1>1, <1>2, <1>7 DEF QuestionInv, QuestionsTrue
    <3> QED
      BY <3>1, <3>2, <3>3 DEF QuestionsTrue
  <2>2. AskedOnce'
    <3>1. ASSUME NEW h \in Servers, NEW p \in Questions, Touched(h, p)' PROVE Unasked(h, p)'
      <4>1. Touched(h, p)
        <5>1. CASE h = g /\ p = q
          BY <1>1, <5>1 DEF Touched
        <5>2. CASE ~(h = g /\ p = q)
          <6>1. answers'[h][p] = answers[h][p]
            BY <1>7, <5>2
          <6> QED
            BY <1>5, <1>7, <3>1, <6>1 DEF Touched
        <5> QED
          BY <5>1, <5>2
      <4> QED
        BY <1>3, <4>1 DEF QuestionInv, AskedOnce
    <3> QED
      BY <3>1 DEF AskedOnce
  <2>3. ClaimsTrue'
    <3>1. ASSUME NEW h \in Servers, NEW p \in Questions, First(h, p)' PROVE ClaimTrue(h, p)'
      <4>1. ClaimTrue(h, p)
        BY <1>2, <3>1 DEF QuestionInv, ClaimsTrue, First
      <4>2. CASE h = g /\ p = q
        <5>1. answers'[h][p] = 1
          BY <1>1, <1>7, <4>1, <4>2 DEF ClaimTrue
        <5>2. \A v \in Users : ~Claims(v, h, p)'
          BY <1>1, <1>5, <4>1, <4>2 DEF ClaimTrue
        <5>3. waiting'[p].gen = h => waiting'[p].responding
          BY <1>1, <1>7, <4>1, <4>2 DEF ClaimTrue
        <5> QED
          BY <5>1, <5>2, <5>3 DEF ClaimTrue
      <4>3. CASE ~(h = g /\ p = q)
        <5>1. answers'[h][p] = answers[h][p]
          BY <1>7, <4>3
        <5> QED
          BY <1>5, <1>7, <4>1, <5>1 DEF ClaimTrue
      <4> QED
        BY <4>2, <4>3
    <3> QED
      BY <3>1 DEF ClaimsTrue
  <2> QED
    BY <1>3, <2>1, <2>2, <2>3 DEF QuestionInv
<1>8. CASE UNCHANGED answers /\ waiting' = [waiting EXCEPT ![q].responding = FALSE]
  <2>1. /\ \A p \in Questions : p # q => waiting'[p] = waiting[p]
        /\ waiting'[q].gen = waiting[q].gen
    BY <1>1, <1>8, RespondingRow DEF BaseInv
  <2> HIDE DEF q, g
  <2>2. \A p \in Questions : waiting'[p].gen = waiting[p].gen
    BY <2>1
  <2>3. QuestionsTrue'
    <3>1. \A p \in Questions : waiting'[p].gen # 0 =>
              codex'.cur /\ waiting'[p].gen = codex'.gen /\ p <= posed'[codex'.gen]
      BY <1>2, <2>2 DEF QuestionInv, QuestionsTrue
    <3>2. \A v \in Users : ccall'[v].step = "respond" =>
              /\ ccall'[v].id \in Questions /\ ccall'[v].gen \in Servers /\ ccall'[v].gen <= codex'.gen
              /\ ccall'[v].id <= posed'[ccall'[v].gen]
      BY <1>2, <1>6 DEF QuestionInv, QuestionsTrue
    <3>3. \A h \in Servers, p \in Questions : answers'[h][p] > 0 => p <= posed'[h]
      BY <1>2, <1>8 DEF QuestionInv, QuestionsTrue
    <3> QED
      BY <3>1, <3>2, <3>3 DEF QuestionsTrue
  <2>4. AskedOnce'
    <3>1. ASSUME NEW h \in Servers, NEW p \in Questions, Touched(h, p)' PROVE Unasked(h, p)'
      <4>1. Touched(h, p)
        BY <1>5, <1>8, <2>2, <3>1 DEF Touched
      <4> QED
        BY <1>3, <4>1 DEF QuestionInv, AskedOnce
    <3> QED
      BY <3>1 DEF AskedOnce
  <2>5. ClaimsTrue'
    <3>1. ASSUME NEW h \in Servers, NEW p \in Questions, First(h, p)' PROVE ClaimTrue(h, p)'
      <4>1. ClaimTrue(h, p) /\ First(h, p)
        BY <1>2, <3>1 DEF QuestionInv, ClaimsTrue, First
      <4>2. CASE h = g /\ p = q
        <5>1. answers'[h][p] = 0 /\ \A v \in Users : ~Claims(v, h, p)'
          BY <1>1, <1>5, <1>8, <4>1, <4>2 DEF ClaimTrue
        <5> QED
          BY <5>1 DEF ClaimTrue
      <4>3. CASE h # g /\ p = q
        <5>1. waiting[q].gen # h
          <6>1. SUFFICES ASSUME waiting[q].gen = h PROVE FALSE
            OBVIOUS
          <6>2. h = codex.gen
            BY <1>1, <6>1, QuestionRows DEF QuestionInv, QuestionsTrue
          <6>3. g < h
            BY <1>1, <4>3, <6>2, QuestionRows
          <6>4. posed[g] < q
            BY <1>1, <4>1, <4>3, <6>3 DEF First
          <6> QED
            BY <1>1, <6>4, QuestionRows
        <5>2. waiting'[p].gen # h
          BY <2>2, <4>3, <5>1
        <5> QED
          BY <1>5, <1>8, <4>1, <5>2 DEF ClaimTrue
      <4>4. CASE p # q
        <5>1. waiting'[p] = waiting[p]
          BY <2>1, <4>4
        <5> QED
          BY <1>5, <1>8, <4>1, <5>1 DEF ClaimTrue
      <4> QED
        BY <4>2, <4>3, <4>4
    <3> QED
      BY <3>1 DEF ClaimsTrue
  <2> QED
    BY <1>3, <2>3, <2>4, <2>5 DEF QuestionInv
<1> QED
  BY <1>1, <1>7, <1>8 DEF AnswerStep

-----------------------------------------------------------------------------
\* Every step keeps what is known of the questions.
LEMMA QuestionsStay ==
    ASSUME BaseInv, QuestionInv, CodexStep, codex' \in CodexRows
    PROVE  QuestionInv'
<1>1. codex'.gen >= codex.gen
  BY WaitsMove
<1>2. \A q \in Questions : waiting[q].gen # 0 => codex.cur
  BY DEF QuestionInv, QuestionsTrue
<1>3. ASSUME UNCHANGED <<pipe, posed, answers, waiting>>,
             (codex'.gen = codex.gen /\ codex'.cur = codex.cur) \/ ~codex.cur,
             \A u \in Users : ccall'[u].step = "respond" => ccall'[u] = ccall[u]
      PROVE  QuestionInv'
  <2>1. /\ AsksTrue'
        /\ \A g \in Servers, q \in Questions : Unasked(g, q) => Unasked(g, q)'
    BY <1>3, AsksStay DEF QuestionInv
  <2>2. \A q \in Questions : waiting'[q] = waiting[q]
    BY <1>3
  <2>3. \/ codex'.gen = codex.gen /\ codex'.cur = codex.cur
        \/ \A q \in Questions : waiting'[q].gen = 0
    BY <1>2, <1>3
  <2> QED
    BY <1>1, <1>3, <2>1, <2>2, <2>3, QuestionSame
<1>4. ASSUME NEW u \in Users, CallGoesOn(u) \/ Sent(u) PROVE QuestionInv'
  <2>1. /\ UNCHANGED <<pipe, posed, answers, waiting>>
        /\ codex'.gen = codex.gen /\ codex'.cur = codex.cur
        /\ OnlyCall(u) /\ ccall'[u].step # "respond"
    BY <1>4 DEF CallGoesOn, Sent, Wrote, CodexIs, CallStep
  <2> QED
    BY <1>3, <2>1 DEF OnlyCall
<1>5. ASSUME NEW u, Processed(u) PROVE QuestionInv'
  <2>1. /\ UNCHANGED <<pipe, posed, answers, waiting>>
        /\ (codex'.gen = codex.gen /\ codex'.cur = codex.cur) \/ ~codex.cur
    BY <1>5 DEF Processed
  <2>2. UNCHANGED ccall \/ (u \in Users /\ OnlyCall(u) /\ ccall'[u].step # "respond")
    BY <1>5, IdleRow DEF Processed, CallStep, Same
  <2>3. \A v \in Users : ccall'[v].step = "respond" => ccall'[v] = ccall[v]
    BY <2>2 DEF OnlyCall
  <2> QED
    BY <1>3, <2>1, <2>3
<1>6. ASSUME NEW u \in Users, RemoveStep(u) PROVE QuestionInv'
  <2>1. /\ UNCHANGED <<codex, pipe, posed, answers>> /\ OnlyCall(u) /\ ccall'[u].step # "respond"
        /\ \A q \in Questions : waiting'[q] = waiting[q] \/ waiting'[q] = NoQuestion
    BY <1>6, IdleRow DEF RemoveStep, Questioned, CallStep
  <2>2. /\ AsksTrue'
        /\ \A g \in Servers, q \in Questions : Unasked(g, q) => Unasked(g, q)'
    BY <2>1, AsksStay DEF QuestionInv
  <2>3. \A v \in Users : ccall'[v].step = "respond" => ccall'[v] = ccall[v]
    BY <2>1 DEF OnlyCall
  <2> QED
    BY <1>1, <2>1, <2>2, <2>3, QuestionSame
<1>7. ASSUME NEW g \in Servers, ReaderStep(g) PROVE QuestionInv'
  <2>1. CASE IsCurrent(g) /\ ReadsAsk(g, pipe[g][1])
    BY <1>7, <2>1, QuestionRead
  <2>2. ASSUME ~(IsCurrent(g) /\ ReadsAsk(g, pipe[g][1])) PROVE QuestionInv'
    <3>1. /\ UNCHANGED <<posed, answers>> /\ codex'.gen = codex.gen /\ codex'.cur = codex.cur
          /\ PipeReads(g)
      BY <1>7, <2>2 DEF ReaderStep, Reads, ReadsAnswer, ReadsStart, ReadsEnd, ReadsSettled,
         ReadsWarning, CodexIs
    <3>2. \A q \in Questions : waiting'[q] = waiting[q] \/ waiting'[q] = NoQuestion
      BY <1>7, <2>2 DEF ReaderStep, Reads, ReadsAnswer, ReadsStart, ReadsEnd, ReadsSettled,
         ReadsWarning
    <3>3. \A v \in Users : ccall'[v].step = "respond" => ccall'[v] = ccall[v]
      <4>1. UNCHANGED ccall \/ \E u \in Users : OnlyCall(u) /\ ccall'[u].step = "unload"
        BY <1>7, <2>2 DEF ReaderStep, Reads, ReadsAnswer, ReadsStart, ReadsEnd, ReadsSettled,
           ReadsWarning, CallStep
      <4> QED
        BY <4>1 DEF OnlyCall
    <3>4. /\ AsksTrue'
          /\ \A h \in Servers, q \in Questions : Unasked(h, q) => Unasked(h, q)'
      BY <3>1, AsksStay DEF QuestionInv
    <3> QED
      BY <1>1, <3>1, <3>2, <3>3, <3>4, QuestionSame
  <2> QED
    BY <2>1, <2>2
<1>8. ASSUME NEW g \in Servers, Finishes(g) PROVE QuestionInv'
  <2>1. /\ UNCHANGED <<posed, answers, ccall>>
        /\ \A q \in Questions : waiting'[q] = NoQuestion /\ waiting'[q].gen = 0
        /\ pipe'[g] = <<>> /\ pipe' \in [Servers -> Seq(Messages)]
        /\ \A h \in Servers \ {g} : pipe'[h] = pipe[h]
    BY <1>8 DEF Finishes, NoQuestion
  <2>2. /\ AsksTrue'
        /\ \A h \in Servers, q \in Questions : Unasked(h, q) => Unasked(h, q)'
    BY <2>1, AsksStay DEF QuestionInv
  <2> QED
    BY <1>1, <2>1, <2>2, QuestionSame
<1>9. ASSUME NEW g \in Servers, NEW M \in SUBSET Messages,
             PipeGrows(g, M) /\ (\A m \in M : m.kind # "ask"),
             UNCHANGED <<codex, posed, answers, waiting, ccall>>
      PROVE  QuestionInv'
  <2>1. /\ AsksTrue'
        /\ \A h \in Servers, q \in Questions : Unasked(h, q) => Unasked(h, q)'
    BY <1>9, AsksStay DEF QuestionInv
  <2> QED
    BY <1>1, <1>9, <2>1, QuestionSame
<1>10. ASSUME NEW g \in Servers, Exits(g) PROVE QuestionInv'
  BY <1>3, <1>10 DEF Exits
<1>11. ASSUME NEW g \in Servers, Settles(g) PROVE QuestionInv'
  <2>1. PICK m \in Messages : m.kind \in {"resolved", "config"} /\ Speaks(g, {m})
    BY <1>11 DEF Settles
  <2>2. {m} \in SUBSET Messages /\ \A x \in {m} : x.kind # "ask"
    BY <2>1
  <2> QED
    BY <1>9, <1>11, <2>1, <2>2 DEF Speaks, Settles
<1>12. ASSUME NEW g \in Servers, NEW r \in inbox[g], Serves(g, r) PROVE QuestionInv'
  <2>1. \E M \in SUBSET Messages : Speaks(g, M) /\ \A x \in M : x.kind # "ask"
    <3>1. CASE ServesPlain(g, r)
      <4>1. PICK m \in Messages : Speaks(g, {m}) /\ m.kind = "answer"
        BY <3>1 DEF ServesPlain
      <4> QED
        BY <4>1
    <3>2. CASE ServesTurn(g, r)
      <4>1. PICK m \in Messages, n \in Messages : Speaks(g, {m, n}) /\ m.kind = "answer" /\ n.kind = "started"
        BY <3>2 DEF ServesTurn
      <4> QED
        BY <4>1
    <3>3. CASE ServesInterrupt(g, r)
      <4>1. PICK m \in Messages, n \in Messages : Speaks(g, {m, n}) /\ m.kind = "answer" /\ n.kind = "completed"
        BY <3>3 DEF ServesInterrupt
      <4> QED
        BY <4>1
    <3> QED
      BY <1>12, <3>1, <3>2, <3>3 DEF Serves
  <2>2. PICK M \in SUBSET Messages : Speaks(g, M) /\ \A x \in M : x.kind # "ask"
    BY <2>1
  <2> QED
    BY <1>9, <1>12, <2>2 DEF Speaks, Serves
<1>13. ASSUME NEW t \in Turns, EndsTurn(t) PROVE QuestionInv'
  <2>1. PICK g \in Servers : g = turns[t].gen
    BY <1>13 DEF EndsTurn
  <2>2. PICK m \in Messages : m.kind = "completed" /\ Speaks(turns[t].gen, {m})
    BY <1>13 DEF EndsTurn
  <2>3. turns'[t].gen = turns[t].gen
    BY <1>13 DEF EndsTurn, TurnEnded
  <2>4. Speaks(g, {m})
    BY <2>1, <2>2, <2>3, SpeaksOf
  <2>5. {m} \in SUBSET Messages /\ \A x \in {m} : x.kind # "ask"
    BY <2>2
  <2> QED
    BY <1>9, <1>13, <2>4, <2>5 DEF Speaks, EndsTurn
<1>14. ASSUME NEW u \in Users, GoroutineStep(u) PROVE QuestionInv'
  BY <1>4, <1>5, <1>6, <1>14, QuestionClaimed, QuestionAnswered DEF GoroutineStep
<1>15. ASSUME NEW g \in Servers, ProcessStep(g) PROVE QuestionInv'
  BY <1>7, <1>8, <1>10, <1>11, <1>12, <1>15 DEF ProcessStep
<1>16. ASSUME NEW t \in Turns, EndsTurn(t) \/ Asks(t) PROVE QuestionInv'
  BY <1>13, <1>16, QuestionAsked
<1> QED
  BY <1>5, <1>14, <1>15, <1>16 DEF CodexStep

\* The initial states, and what the invariant is for.
LEMMA QuestionsStart ==
    ASSUME CodexInit, \A g \in Servers : Said(g) = {}
    PROVE  QuestionInv
<1>1. /\ \A g \in Servers : pipe[g] = <<>>
      /\ \A q \in Questions : waiting[q].gen = 0 /\ ~waiting[q].responding
      /\ \A g \in Servers, q \in Questions : answers[g][q] = 0
  BY DEF CodexInit, NoQuestion
<1>2. \A u \in Users : ccall[u].step # "respond"
  BY IdleRow DEF CodexInit
<1>3. \A g \in Servers : g # 0
  BY CodexAssumption DEF Servers
<1>4. AsksTrue
  <2>1. Len(<<>>) = 0
    OBVIOUS
  <2> QED
    BY <1>1, <2>1 DEF AsksTrue
<1>5. QuestionsTrue
  BY <1>1, <1>2 DEF QuestionsTrue
<1>6. AskedOnce
  BY DEF AskedOnce, Unasked
<1>7. ClaimsTrue
  BY <1>1, <1>2, <1>3 DEF ClaimsTrue, ClaimTrue, Claims
<1> QED
  BY <1>4, <1>5, <1>6, <1>7 DEF QuestionInv

\* Two answers reach a question only if an earlier process has asked one of that number.
LEMMA OneAnswer == ASSUME BaseInv, QuestionInv PROVE AnsweredOnce
<1>1. ASSUME NEW g \in Servers, NEW q \in Questions, answers[g][q] > 1
      PROVE  \E h \in Servers : h < g /\ q <= posed[h]
  <2>1. ~ClaimTrue(g, q)
    BY <1>1, QuestionRows DEF ClaimTrue
  <2>2. PICK h \in Servers : h < g /\ ~(posed[h] < q)
    BY <2>1 DEF QuestionInv, ClaimsTrue, First
  <2> QED
    BY <2>2, QuestionRows
<1> QED
  BY <1>1 DEF AnsweredOnce, QuestionInv, QuestionsTrue

-----------------------------------------------------------------------------
(***************************************************************************)
(* The turns of a thread, at the app-server and on its                     *)
(* standard output.  A turn is of the thread that the turns T say.         *)
(***************************************************************************)
TurnOf(T, m, s) == m.kind \in {"started", "completed"} /\ T[m.turn].s = s
EndOf(T, m, s) == m.kind = "completed" /\ T[m.turn].s = s

\* After the end of a turn of s the messages p say nothing of s.
EndLast(T, p) ==
    \A s \in CThreads : \A i, j \in 1..Len(p) : i < j /\ EndOf(T, p[i], s) => ~TurnOf(T, p[j], s)

Requested(g, s) == \E r \in inbox[g] : r.rpc = "turn" /\ r.s = s
TurnRuns(t, g, s) == turns[t].state = "running" /\ turns[t].gen = g /\ turns[t].s = s
InUse(g, s) ==
    (\E t \in Turns : TurnRuns(t, g, s)) \/ \E m \in Said(g) : TurnOf(turns, m, s)
Used(g, s) == Requested(g, s) \/ InUse(g, s)

\* One request, then one turn, then the end of it.
MessagesKnown ==
    \A g \in Servers : \A m \in Said(g) : m.kind \in {"started", "completed"} =>
        turns[m.turn].state # "none" /\ g <= codex.gen
EndsLast == \A g \in Servers : EndLast(turns, pipe[g])
OneRequested ==
    \A g \in Servers, s \in CThreads :
        /\ Requested(g, s) => ~InUse(g, s)
        /\ \A r, o \in inbox[g] : r.rpc = "turn" /\ o.rpc = "turn" /\ r.s = s /\ o.s = s => r = o
OneRunning ==
    \A g \in Servers, s \in CThreads : \A t \in Turns : TurnRuns(t, g, s) =>
        /\ \A v \in Turns : TurnRuns(v, g, s) => v = t
        /\ \A m \in Said(g) : ~EndOf(turns, m, s)
UseInv == MessagesKnown /\ EndsLast /\ OneRequested /\ OneRunning

\* A turn keeps its thread and its process.
TurnsKept ==
    \A t \in Turns : turns[t].state # "none" =>
        /\ turns'[t].state # "none" /\ turns'[t].s = turns[t].s /\ turns'[t].gen = turns[t].gen

\* What was said is still said of the same thread.
LEMMA SaidOfSame ==
    ASSUME BaseInv, MessagesKnown, TurnsKept, NEW g \in Servers, NEW m \in Said(g)
    PROVE  \A s : /\ TurnOf(turns', m, s) <=> TurnOf(turns, m, s)
                  /\ EndOf(turns', m, s) <=> EndOf(turns, m, s)
<1>1. m.kind \in {"started", "completed"} => turns'[m.turn].s = turns[m.turn].s
  BY DEF BaseInv, MessagesTrue, MessagesKnown, TurnsKept
<1> QED
  BY <1>1 DEF TurnOf, EndOf

\* What is said last.
LEMMA PipeTurns ==
    ASSUME BaseInv, MessagesKnown, EndsLast, TurnsKept, codex'.gen \in Nat, codex'.gen >= codex.gen,
           \/ UNCHANGED pipe
           \/ \E g \in Servers : PipeReads(g)
           \/ \E g \in Servers : pipe'[g] = <<>> /\ \A h \in Servers \ {g} : pipe'[h] = pipe[h]
           \/ \E g \in Servers : \E M \in SUBSET Messages :
                  /\ PipeGrows(g, M)
                  /\ \A x \in M : x.kind \in {"started", "completed"} =>
                         /\ turns'[x.turn].state # "none" /\ g <= codex.gen
                         /\ \A y \in Said(g) : ~EndOf(turns, y, turns'[x.turn].s)
    PROVE  MessagesKnown' /\ EndsLast'
<1>0. codex.gen \in Nat /\ \A g \in Servers : g \in Nat
  BY QuestionRows
<1> DEFINE Known(h) == \A i \in 1..Len(pipe'[h]) : pipe'[h][i].kind \in {"started", "completed"} =>
                            turns'[pipe'[h][i].turn].state # "none" /\ h <= codex'.gen
           Fine(h) == Known(h) /\ EndLast(turns', pipe'[h])
<1>1. ASSUME NEW h \in Servers, NEW i \in 1..Len(pipe[h])
      PROVE  /\ pipe[h][i] \in Said(h)
             /\ \A s : /\ TurnOf(turns', pipe[h][i], s) <=> TurnOf(turns, pipe[h][i], s)
                       /\ EndOf(turns', pipe[h][i], s) <=> EndOf(turns, pipe[h][i], s)
             /\ pipe[h][i].kind \in {"started", "completed"} =>
                    turns'[pipe[h][i].turn].state # "none" /\ h <= codex.gen /\ h <= codex'.gen
  <2>1. pipe[h][i] \in Said(h)
    BY DEF Said
  <2>2. pipe[h][i].kind \in {"started", "completed"} =>
            turns'[pipe[h][i].turn].state # "none" /\ h <= codex.gen
    BY <2>1 DEF BaseInv, MessagesTrue, MessagesKnown, TurnsKept
  <2>3. h <= codex.gen => h <= codex'.gen
    BY <1>0
  <2>4. \A s : /\ TurnOf(turns', pipe[h][i], s) <=> TurnOf(turns, pipe[h][i], s)
               /\ EndOf(turns', pipe[h][i], s) <=> EndOf(turns, pipe[h][i], s)
    <3> DEFINE m == pipe[h][i]
    <3>1. m.kind \in {"started", "completed"} => turns'[m.turn].s = turns[m.turn].s
      BY <2>1 DEF BaseInv, MessagesTrue, MessagesKnown, TurnsKept
    <3> QED
      BY <3>1 DEF TurnOf, EndOf
  <2> QED
    BY <2>1, <2>2, <2>3, <2>4
<1>2. ASSUME NEW h \in Servers, pipe'[h] = pipe[h] PROVE Fine(h)
  <2>1. Known(h)
    BY <1>1, <1>2
  <2>2. EndLast(turns', pipe'[h])
    BY <1>1, <1>2 DEF EndsLast, EndLast
  <2> QED
    BY <2>1, <2>2
<1>3. ASSUME UNCHANGED pipe PROVE \A h \in Servers : Fine(h)
  <2> HIDE DEF Fine
  <2> QED
    BY <1>2, <1>3
<1>4. ASSUME NEW g \in Servers, PipeReads(g) PROVE \A h \in Servers : Fine(h)
  <2>1. Len(pipe[g]) \in Nat /\ Len(pipe'[g]) \in Nat /\ Len(pipe'[g]) = Len(pipe[g]) - 1
    BY <1>4 DEF BaseInv, CodexTypes, PipeReads
  <2>2. ASSUME NEW i \in 1..Len(pipe'[g])
        PROVE  i + 1 \in 1..Len(pipe[g]) /\ pipe'[g][i] = pipe[g][i + 1]
    BY <1>4, <2>1 DEF PipeReads
  <2>3. Known(g)
    BY <1>1, <2>2
  <2>4. EndLast(turns', pipe'[g])
    <3>1. ASSUME NEW s \in CThreads, NEW i \in 1..Len(pipe'[g]), NEW j \in 1..Len(pipe'[g]),
                 i < j, EndOf(turns', pipe'[g][i], s)
          PROVE  ~TurnOf(turns', pipe'[g][j], s)
      <4>1. i + 1 < j + 1
        BY <2>1, <3>1
      <4>2. EndOf(turns, pipe[g][i + 1], s)
        BY <1>1, <2>2, <3>1
      <4>3. ~TurnOf(turns, pipe[g][j + 1], s)
        BY <2>2, <4>1, <4>2 DEF EndsLast, EndLast
      <4> QED
        BY <1>1, <2>2, <4>3
    <3> QED
      BY <3>1 DEF EndLast
  <2>5. \A h \in Servers \ {g} : pipe'[h] = pipe[h]
    BY <1>4 DEF PipeReads
  <2>6. Fine(g)
    BY <2>3, <2>4
  <2> HIDE DEF Fine
  <2> QED
    BY <1>2, <2>5, <2>6
<1>5. ASSUME NEW g \in Servers, pipe'[g] = <<>>, \A h \in Servers \ {g} : pipe'[h] = pipe[h]
      PROVE  \A h \in Servers : Fine(h)
  <2>1. Len(<<>>) = 0
    OBVIOUS
  <2>2. Fine(g)
    BY <1>5, <2>1 DEF EndLast
  <2> HIDE DEF Fine
  <2> QED
    BY <1>2, <1>5, <2>2
<1>6. ASSUME NEW g \in Servers, NEW M \in SUBSET Messages, PipeGrows(g, M),
             \A x \in M : x.kind \in {"started", "completed"} =>
                 /\ turns'[x.turn].state # "none" /\ g <= codex.gen
                 /\ \A y \in Said(g) : ~EndOf(turns, y, turns'[x.turn].s)
      PROVE  \A h \in Servers : Fine(h)
  <2>1. Len(pipe[g]) \in Nat /\ Len(pipe'[g]) \in Nat /\ (g <= codex.gen => g <= codex'.gen)
    BY <1>0, <1>6 DEF BaseInv, CodexTypes, PipeGrows
  <2>2. ASSUME NEW i \in 1..Len(pipe'[g])
        PROVE  \/ i \in 1..Len(pipe[g]) /\ pipe'[g][i] = pipe[g][i]
               \/ /\ i > Len(pipe[g]) /\ pipe'[g][i] \in M
                  /\ \A j \in 1..Len(pipe'[g]) : j > i => pipe'[g][i].kind = "answer"
    <3>1. CASE i > Len(pipe[g])
      BY <1>6, <3>1 DEF PipeGrows
    <3>2. CASE ~(i > Len(pipe[g]))
      <4>1. i \in 1..Len(pipe[g])
        BY <2>1, <3>2
      <4> QED
        BY <1>6, <4>1 DEF PipeGrows
    <3> QED
      BY <3>1, <3>2
  <2>3. Known(g)
    <3>1. ASSUME NEW i \in 1..Len(pipe'[g]), pipe'[g][i].kind \in {"started", "completed"}
          PROVE  turns'[pipe'[g][i].turn].state # "none" /\ g <= codex'.gen
      <4>1. CASE i \in 1..Len(pipe[g]) /\ pipe'[g][i] = pipe[g][i]
        BY <1>1, <3>1, <4>1
      <4>2. CASE pipe'[g][i] \in M
        BY <1>6, <2>1, <3>1, <4>2
      <4> QED
        BY <2>2, <4>1, <4>2
    <3> QED
      BY <3>1
  <2>4. EndLast(turns', pipe'[g])
    <3>1. ASSUME NEW s \in CThreads, NEW i \in 1..Len(pipe'[g]), NEW j \in 1..Len(pipe'[g]),
                 i < j, EndOf(turns', pipe'[g][i], s), TurnOf(turns', pipe'[g][j], s)
          PROVE  FALSE
      <4>1. i \in 1..Len(pipe[g]) /\ pipe'[g][i] = pipe[g][i]
        <5>1. pipe'[g][i].kind # "answer"
          BY <3>1 DEF EndOf
        <5> QED
          BY <2>2, <3>1, <5>1
      <4>2. EndOf(turns, pipe[g][i], s) /\ pipe[g][i] \in Said(g)
        BY <1>1, <3>1, <4>1
      <4>3. CASE j \in 1..Len(pipe[g]) /\ pipe'[g][j] = pipe[g][j]
        <5>1. ~TurnOf(turns, pipe[g][j], s)
          BY <3>1, <4>1, <4>2, <4>3 DEF EndsLast, EndLast
        <5> QED
          BY <1>1, <3>1, <4>3, <5>1
      <4>4. CASE pipe'[g][j] \in M
        <5>1. pipe'[g][j].kind \in {"started", "completed"} /\ turns'[pipe'[g][j].turn].s = s
          BY <3>1 DEF TurnOf
        <5>2. ~EndOf(turns, pipe[g][i], s)
          BY <1>6, <4>2, <4>4, <5>1
        <5> QED
          BY <4>2, <5>2
      <4> QED
        BY <2>2, <4>3, <4>4
    <3> QED
      BY <3>1 DEF EndLast
  <2>5. \A h \in Servers \ {g} : pipe'[h] = pipe[h]
    BY <1>6 DEF PipeGrows
  <2>6. Fine(g)
    BY <2>3, <2>4
  <2> HIDE DEF Fine
  <2> QED
    BY <1>2, <2>5, <2>6
<1>7. \A h \in Servers : Fine(h)
  <2> HIDE DEF Fine
  <2> QED
    BY <1>3, <1>4, <1>5, <1>6
<1>8. EndsLast'
  BY <1>7 DEF EndsLast
<1>9. MessagesKnown'
  BY <1>7 DEF MessagesKnown, Said
<1> QED
  BY <1>8, <1>9

-----------------------------------------------------------------------------
\* Nothing is asked of a thread, and nothing goes on in it, that did not before.
UseKept == \A g \in Servers, s \in CThreads : Used(g, s)' => Used(g, s)

\* No turn is begun or asked for.
Calmer ==
    /\ \A g \in Servers : \A r \in inbox'[g] : r.rpc = "turn" => r \in inbox[g]
    /\ \A t \in Turns : /\ turns'[t].s = turns[t].s /\ turns'[t].gen = turns[t].gen
                        /\ turns'[t].state = "running" => turns[t].state = "running"
                        /\ turns[t].state # "none" => turns'[t].state # "none"

\* What is said of a thread goes on being said of it.
LEMMA OldTurns ==
    ASSUME BaseInv, MessagesKnown, TurnsKept, NEW g \in Servers, NEW s \in CThreads
    PROVE  /\ \A m \in Said(g) : TurnOf(turns', m, s) => TurnOf(turns, m, s)
           /\ \A m \in Said(g) : EndOf(turns', m, s) => EndOf(turns, m, s)
BY SaidOfSame

\* A step that begins no turn and ends none that the process says has ended.
LEMMA UseCalm ==
    ASSUME BaseInv, UseInv, codex'.gen \in Nat, codex'.gen >= codex.gen, Calmer,
           \/ UNCHANGED pipe
           \/ \E g \in Servers : PipeReads(g)
           \/ \E g \in Servers : pipe'[g] = <<>> /\ \A h \in Servers \ {g} : pipe'[h] = pipe[h]
           \/ \E g \in Servers : \E M \in SUBSET Messages :
                  PipeGrows(g, M) /\ \A x \in M : x.kind \notin {"started", "completed"}
    PROVE  UseInv' /\ UseKept
<1>1. TurnsKept /\ MessagesKnown
  BY DEF Calmer, TurnsKept, UseInv
<1>2. MessagesKnown' /\ EndsLast'
  BY <1>1, PipeTurns DEF UseInv
<1>3. ASSUME NEW g \in Servers, NEW m \in Said(g)' PROVE m \in Said(g) \/ m.kind \notin {"started", "completed"}
  <2>1. CASE UNCHANGED pipe
    BY <1>3, <2>1 DEF Said
  <2>2. ASSUME NEW h \in Servers, PipeReads(h) PROVE m \in Said(g)
    <3>1. CASE g = h
      <4>1. PipeReads(g)
        BY <2>2, <3>1
      <4> QED
        BY <1>3, <4>1 DEF PipeReads
    <3>2. CASE g # h
      BY <1>3, <2>2, <3>2 DEF PipeReads, Said
    <3> QED
      BY <3>1, <3>2
  <2>3. ASSUME NEW h \in Servers, pipe'[h] = <<>>, \A k \in Servers \ {h} : pipe'[k] = pipe[k]
        PROVE  m \in Said(g)
    <3>1. Len(<<>>) = 0
      OBVIOUS
    <3>2. CASE g = h
      BY <1>3, <2>3, <3>1, <3>2 DEF Said
    <3>3. CASE g # h
      BY <1>3, <2>3, <3>3 DEF Said
    <3> QED
      BY <3>2, <3>3
  <2>4. ASSUME NEW h \in Servers, NEW M \in SUBSET Messages, PipeGrows(h, M),
               \A x \in M : x.kind \notin {"started", "completed"}
        PROVE  m \in Said(g) \/ m.kind \notin {"started", "completed"}
    <3>1. CASE g = h
      <4>1. m \in Said(h) \/ m \in M
        BY <1>3, <2>4, <3>1 DEF PipeGrows, Said
      <4> QED
        BY <2>4, <3>1, <4>1
    <3>2. CASE g # h
      BY <1>3, <2>4, <3>2 DEF PipeGrows, Said
    <3> QED
      BY <3>1, <3>2
  <2> QED
    BY <2>1, <2>2, <2>3, <2>4
<1>4. ASSUME NEW g \in Servers, NEW s \in CThreads
      PROVE  /\ \A m \in Said(g)' : TurnOf(turns', m, s) => m \in Said(g) /\ TurnOf(turns, m, s)
             /\ \A m \in Said(g)' : EndOf(turns', m, s) => m \in Said(g) /\ EndOf(turns, m, s)
  <2>1. \A m \in Said(g)' : TurnOf(turns', m, s) \/ EndOf(turns', m, s) => m \in Said(g)
    BY <1>3 DEF TurnOf, EndOf
  <2> QED
    BY <1>1, <2>1, OldTurns
<1>5. ASSUME NEW g \in Servers, NEW s \in CThreads
      PROVE  /\ InUse(g, s)' => InUse(g, s)
             /\ Requested(g, s)' => Requested(g, s)
  BY <1>4 DEF InUse, Requested, Calmer, TurnRuns
<1>6. UseKept
  BY <1>5 DEF UseKept, Used
<1>7. OneRequested'
  BY <1>5 DEF UseInv, OneRequested, Calmer
<1>8. OneRunning'
  <2>1. ASSUME NEW g \in Servers, NEW s \in CThreads, NEW t \in Turns, TurnRuns(t, g, s)'
        PROVE  /\ \A v \in Turns : TurnRuns(v, g, s)' => v = t
               /\ \A m \in Said(g)' : ~EndOf(turns', m, s)
    <3>1. \A v \in Turns : TurnRuns(v, g, s)' => TurnRuns(v, g, s)
      BY DEF Calmer, TurnRuns
    <3> QED
      BY <1>4, <2>1, <3>1 DEF UseInv, OneRunning
  <2> QED
    BY <2>1 DEF OneRunning
<1> QED
  BY <1>2, <1>6, <1>7, <1>8 DEF UseInv

\* A turn ends, and the process says so.
LEMMA UseEnded ==
    ASSUME BaseInv, UseInv, UNCHANGED codex, NEW t \in Turns, TurnEnded(t),
           NEW g \in Servers, turns[t].gen = g, NEW M \in SUBSET Messages, PipeGrows(g, M),
           \A x \in M : /\ x.kind # "started"
                        /\ x.kind = "completed" => x.turn = t,
           \A h \in Servers : inbox'[h] \subseteq inbox[h]
    PROVE  UseInv' /\ UseKept
<1>1. TurnsKept /\ MessagesKnown
  BY DEF TurnEnded, TurnsKept, UseInv
<1>2. /\ turns[t].state = "running" /\ turns'[t].state = "ended" /\ turns'[t].s = turns[t].s
      /\ turns[t].gen = codex.gen /\ turns[t].s \in CThreads /\ TurnRuns(t, g, turns[t].s)
  BY DEF TurnEnded, BaseInv, RunningTrue, TurnRuns
<1>3. \A y \in Said(g) : ~EndOf(turns, y, turns[t].s)
  BY <1>2 DEF UseInv, OneRunning
<1>4. MessagesKnown' /\ EndsLast'
  <2>1. \A x \in M : x.kind \in {"started", "completed"} =>
            /\ turns'[x.turn].state # "none" /\ g <= codex.gen
            /\ \A y \in Said(g) : ~EndOf(turns, y, turns'[x.turn].s)
    BY <1>2, <1>3, QuestionRows
  <2>2. codex'.gen \in Nat /\ codex'.gen >= codex.gen
    BY QuestionRows
  <2> QED
    BY <1>1, <2>1, <2>2, PipeTurns DEF UseInv
<1>5. ASSUME NEW h \in Servers, NEW m \in Said(h)'
      PROVE  \/ m \in Said(h)
             \/ h = g /\ (m.kind \in {"started", "completed"} => m.kind = "completed" /\ m.turn = t)
  <2>1. CASE h = g
    <3>1. m \in Said(g) \/ m \in M
      BY <1>5, <2>1 DEF PipeGrows, Said
    <3> QED
      BY <2>1, <3>1
  <2>2. CASE h # g
    BY <1>5, <2>2 DEF PipeGrows, Said
  <2> QED
    BY <2>1, <2>2
<1>6. ASSUME NEW h \in Servers, NEW s \in CThreads
      PROVE  /\ \A m \in Said(h)' : TurnOf(turns', m, s) =>
                    (m \in Said(h) /\ TurnOf(turns, m, s)) \/ (h = g /\ s = turns[t].s)
             /\ \A m \in Said(h)' : EndOf(turns', m, s) =>
                    (m \in Said(h) /\ EndOf(turns, m, s)) \/ (h = g /\ s = turns[t].s)
  <2>1. ASSUME NEW m \in Said(h)', TurnOf(turns', m, s) \/ EndOf(turns', m, s)
        PROVE  m \in Said(h) \/ (h = g /\ s = turns[t].s)
    BY <1>2, <1>5, <2>1 DEF TurnOf, EndOf
  <2> QED
    BY <1>1, <2>1, OldTurns
<1>7. \A v \in Turns, h \in Servers, s \in CThreads : TurnRuns(v, h, s)' => v # t /\ TurnRuns(v, h, s)
  BY <1>2 DEF TurnRuns, TurnEnded
<1>8. ASSUME NEW h \in Servers, NEW s \in CThreads
      PROVE  /\ InUse(h, s)' => InUse(h, s)
             /\ Requested(h, s)' => Requested(h, s)
  BY <1>2, <1>6, <1>7 DEF InUse, Requested
<1>9. UseKept
  BY <1>8 DEF UseKept, Used
<1>10. OneRequested'
  <2>1. \A h \in Servers : \A r \in inbox'[h] : r \in inbox[h]
    OBVIOUS
  <2> QED
    BY <1>8, <2>1 DEF UseInv, OneRequested
<1>11. OneRunning'
  <2>1. ASSUME NEW h \in Servers, NEW s \in CThreads, NEW v \in Turns, TurnRuns(v, h, s)'
        PROVE  /\ \A w \in Turns : TurnRuns(w, h, s)' => w = v
               /\ \A m \in Said(h)' : ~EndOf(turns', m, s)
    <3>1. v # t /\ TurnRuns(v, h, s)
      BY <1>7, <2>1
    <3>2. ~(h = g /\ s = turns[t].s)
      BY <1>2, <3>1 DEF UseInv, OneRunning
    <3> QED
      BY <1>6, <1>7, <3>1, <3>2 DEF UseInv, OneRunning
  <2> QED
    BY <2>1 DEF OneRunning
<1> QED
  BY <1>4, <1>9, <1>10, <1>11 DEF UseInv

\* A turn begins that was asked for.
LEMMA UseServed ==
    ASSUME BaseInv, UseInv, NEW g \in Servers, NEW r \in inbox[g], Serves(g, r), ServesTurn(g, r)
    PROVE  UseInv' /\ UseKept
<1>1. PICK t \in Turns, m \in Messages, n \in Messages :
           /\ turns[t].state = "none" /\ turns'[t].state = "running" /\ turns'[t].gen = g
           /\ turns'[t].s = r.s /\ \A v \in Turns \ {t} : turns'[v] = turns[v]
           /\ m.kind = "answer" /\ m.n = r.id /\ m.result = "ok" /\ m.turn = t
           /\ n.kind = "started" /\ n.turn = t
           /\ Speaks(g, {m, n})
  BY DEF ServesTurn
<1>2. /\ r.rpc = "turn" /\ r.s \in CThreads /\ g = codex.gen /\ Requested(g, r.s)
      /\ inbox'[g] = inbox[g] \ {r} /\ \A h \in Servers \ {g} : inbox'[h] = inbox[h]
  BY DEF ServesTurn, Serves, BaseInv, InboxTrue, Requested
<1>3. ~InUse(g, r.s)
  BY <1>2 DEF UseInv, OneRequested
<1>4. TurnsKept /\ MessagesKnown
  BY <1>1 DEF TurnsKept, UseInv
<1>5. PipeGrows(g, {m, n}) /\ UNCHANGED codex
  BY <1>1 DEF Speaks
<1>6. MessagesKnown' /\ EndsLast'
  <2>1. \A y \in Said(g) : ~EndOf(turns, y, r.s)
    BY <1>3 DEF InUse, EndOf, TurnOf
  <2>2. \A x \in {m, n} : x.kind \in {"started", "completed"} =>
            /\ turns'[x.turn].state # "none" /\ g <= codex.gen
            /\ \A y \in Said(g) : ~EndOf(turns, y, turns'[x.turn].s)
    BY <1>1, <1>2, <2>1, QuestionRows
  <2>3. codex'.gen \in Nat /\ codex'.gen >= codex.gen /\ {m, n} \in SUBSET Messages
    BY <1>5, QuestionRows
  <2> QED
    BY <1>4, <1>5, <2>2, <2>3, PipeTurns DEF UseInv
<1>7. ASSUME NEW h \in Servers, NEW x \in Said(h)'
      PROVE  \/ x \in Said(h)
             \/ h = g /\ (x = m \/ x = n)
  <2>1. CASE h = g
    BY <1>5, <1>7, <2>1 DEF PipeGrows, Said
  <2>2. CASE h # g
    BY <1>5, <1>7, <2>2 DEF PipeGrows, Said
  <2> QED
    BY <2>1, <2>2
<1>8. ASSUME NEW h \in Servers, NEW s \in CThreads
      PROVE  /\ \A x \in Said(h)' : TurnOf(turns', x, s) =>
                    (x \in Said(h) /\ TurnOf(turns, x, s)) \/ (h = g /\ s = r.s)
             /\ \A x \in Said(h)' : EndOf(turns', x, s) => x \in Said(h) /\ EndOf(turns, x, s)
  <2>1. ASSUME NEW x \in Said(h)', TurnOf(turns', x, s)
        PROVE  x \in Said(h) \/ (h = g /\ s = r.s)
    BY <1>1, <1>7, <2>1 DEF TurnOf
  <2>2. ASSUME NEW x \in Said(h)', EndOf(turns', x, s) PROVE x \in Said(h)
    BY <1>1, <1>7, <2>2 DEF EndOf
  <2> QED
    BY <1>4, <2>1, <2>2, OldTurns
<1>9. \A v \in Turns, h \in Servers, s \in CThreads :
          TurnRuns(v, h, s)' => (v # t /\ TurnRuns(v, h, s)) \/ (v = t /\ h = g /\ s = r.s)
  BY <1>1 DEF TurnRuns
<1>10. ASSUME NEW h \in Servers, NEW s \in CThreads
       PROVE  /\ InUse(h, s)' => InUse(h, s) \/ (h = g /\ s = r.s)
              /\ Requested(h, s)' => Requested(h, s)
  BY <1>2, <1>8, <1>9 DEF InUse, Requested
<1>11. UseKept
  BY <1>2, <1>10 DEF UseKept, Used
<1>12. ~Requested(g, r.s)'
  BY <1>2 DEF Requested, UseInv, OneRequested
<1>13. OneRequested'
  <2>1. \A h \in Servers : \A o \in inbox'[h] : o \in inbox[h]
    BY <1>2
  <2>2. ASSUME NEW h \in Servers, NEW s \in CThreads, Requested(h, s)' PROVE ~InUse(h, s)'
    <3>1. ~(h = g /\ s = r.s)
      <4>1. SUFFICES ASSUME h = g, s = r.s PROVE FALSE
        OBVIOUS
      <4> QED
        BY <1>2, <2>2, <4>1 DEF Requested, UseInv, OneRequested
    <3> QED
      BY <1>10, <2>2, <3>1 DEF UseInv, OneRequested
  <2> QED
    BY <2>1, <2>2 DEF UseInv, OneRequested
<1>14. OneRunning'
  <2>1. ASSUME NEW h \in Servers, NEW s \in CThreads, NEW v \in Turns, TurnRuns(v, h, s)'
        PROVE  /\ \A w \in Turns : TurnRuns(w, h, s)' => w = v
               /\ \A x \in Said(h)' : ~EndOf(turns', x, s)
    <3>1. CASE h = g /\ s = r.s
      <4>1. \A w \in Turns : ~TurnRuns(w, h, s)
        BY <1>3, <3>1 DEF InUse
      <4>2. \A x \in Said(h) : ~EndOf(turns, x, s)
        BY <1>3, <3>1 DEF InUse, EndOf, TurnOf
      <4> QED
        BY <1>8, <1>9, <2>1, <4>1, <4>2
    <3>2. CASE ~(h = g /\ s = r.s)
      <4>1. \A w \in Turns : TurnRuns(w, h, s)' => TurnRuns(w, h, s)
        BY <1>9, <3>2
      <4> QED
        BY <1>8, <2>1, <4>1 DEF UseInv, OneRunning
    <3> QED
      BY <3>1, <3>2
  <2> QED
    BY <2>1 DEF OneRunning
<1> QED
  BY <1>6, <1>11, <1>13, <1>14 DEF UseInv

\* A turn is asked for of a thread that has none.
LEMMA UseSent ==
    ASSUME BaseInv, UseInv, NEW u \in Users, NEW q \in CRpcs, NEW g \in Servers, NEW step,
           g = codex.gen, Wrote(u, q, codex.gen, step),
           q = "turn" => ccall[u].s \in CThreads /\ ~Used(g, ccall[u].s)
    PROVE  /\ UseInv'
           /\ \A h \in Servers, s \in CThreads :
                  Used(h, s)' => Used(h, s) \/ (q = "turn" /\ h = g /\ s = ccall[u].s)
<1>1. PICK x \in Requests : inbox'[g] = inbox[g] \cup {x} /\ x.rpc = q /\ x.s = ccall[u].s
  BY DEF Wrote
<1>2. /\ UNCHANGED <<pipe, turns>> /\ codex'.gen = codex.gen
      /\ \A h \in Servers \ {g} : inbox'[h] = inbox[h]
  BY DEF Wrote, CodexIs
<1>3. TurnsKept
  BY <1>2 DEF TurnsKept
<1>4. MessagesKnown' /\ EndsLast'
  BY <1>2, <1>3, PipeTurns, QuestionRows DEF UseInv
<1>5. \A h \in Servers, s \in CThreads : InUse(h, s)' <=> InUse(h, s)
  BY <1>2 DEF InUse, TurnRuns, Said
<1>6. \A h \in Servers, s \in CThreads :
          Requested(h, s)' => Requested(h, s) \/ (q = "turn" /\ h = g /\ s = ccall[u].s)
  BY <1>1, <1>2 DEF Requested
<1>7. OneRequested'
  <2>1. ASSUME NEW h \in Servers, NEW s \in CThreads, Requested(h, s)' PROVE ~InUse(h, s)'
    BY <1>5, <1>6, <2>1 DEF UseInv, OneRequested, Used
  <2>2. ASSUME NEW h \in Servers, NEW s \in CThreads, NEW o \in inbox'[h], NEW p \in inbox'[h],
               o.rpc = "turn", p.rpc = "turn", o.s = s, p.s = s
        PROVE  o = p
    <3>1. CASE o \in inbox[h] /\ p \in inbox[h]
      BY <2>2, <3>1 DEF UseInv, OneRequested
    <3>2. CASE o \notin inbox[h] \/ p \notin inbox[h]
      <4>1. h = g /\ q = "turn" /\ s = ccall[u].s /\ (o = x \/ p = x)
        BY <1>1, <1>2, <2>2, <3>2
      <4>2. \A y \in inbox[g] : ~(y.rpc = "turn" /\ y.s = s)
        BY <4>1 DEF Used, Requested
      <4> QED
        BY <1>1, <2>2, <4>1, <4>2
    <3> QED
      BY <3>1, <3>2
  <2> QED
    BY <2>1, <2>2 DEF OneRequested
<1>8. OneRunning'
  BY <1>2 DEF UseInv, OneRunning, TurnRuns, Said
<1>9. UseInv'
  BY <1>4, <1>7, <1>8 DEF UseInv
<1> QED
  BY <1>5, <1>6, <1>9 DEF Used

-----------------------------------------------------------------------------
(***************************************************************************)
(* What it knows of the turns of a thread.                                 *)
(***************************************************************************)
\* The process g takes requests.
Opened(g) == codex.gen = g /\ codex.cur /\ proc[g] = "live" /\ ~codex.configErr

\* u waits for the answer of turn/start of s by the process g.
Starts(u, g, s) == Starting(u) /\ ccall[u].gen = g /\ ccall[u].s = s

\* What goes on in a thread is recorded, or its caller waits.
KnownUse(g, s) == active[s].turn # 0 \/ \E u \in Users : Starts(u, g, s)
UseIsKnown == \A g \in Servers, s \in CThreads : Opened(g) /\ Used(g, s) => KnownUse(g, s)

\* A caller that has yet to ask has a thread where nothing goes on.
StartersFree ==
    \A u \in Users, g \in Servers, s \in CThreads :
        Opened(g) /\ ccall[u].op = "turn" /\ ccall[u].s = s /\ ~Starts(u, g, s) => ~Used(g, s)

\* The answer of the request i, a turn/start of s: it tells of a turn, or no turn began.
Refused(g, i) ==
    \/ reply[i].result \notin {"none", "ok"}
    \/ \E m \in Said(g) : m.kind = "answer" /\ m.n = i /\ m.result # "ok"
AskTrue(g, i, s) ==
    /\ \A r \in inbox[g] : r.id = i <=> r.rpc = "turn" /\ r.s = s
    /\ (\E r \in inbox[g] : r.id = i) =>
           reply[i].result = "none" /\ \A m \in Said(g) : ~(m.kind = "answer" /\ m.n = i)
    /\ reply[i].result = "ok" => reply[i].turn # 0
    /\ \A m \in Said(g) : m.kind = "answer" /\ m.n = i /\ m.result = "ok" => m.turn # 0
    /\ Refused(g, i) => ~Used(g, s)
StartersTrue ==
    \A u \in Users, g \in Servers, i \in ReqIds, s \in CThreads :
        Starts(u, g, s) /\ ccall[u].id = i => AskTrue(g, i, s)
TurnInv == UseInv /\ UseIsKnown /\ StartersFree /\ StartersTrue

\* A step that asks for no turn.
LEMMA KnownStays ==
    ASSUME UseIsKnown, StartersFree, UseKept,
           \A g \in Servers : Opened(g)' => Opened(g) \/ \A s \in CThreads : ~Used(g, s),
           \A g \in Servers, s \in CThreads :
               Opened(g)' /\ Used(g, s)' /\ KnownUse(g, s) => KnownUse(g, s)',
           \A u \in Users, g \in Servers, s \in CThreads :
               Opened(g)' /\ ccall'[u].op = "turn" /\ ccall'[u].s = s /\ ~Starts(u, g, s)' =>
                   (ccall[u].op = "turn" /\ ccall[u].s = s /\ ~Starts(u, g, s)) \/ ~Used(g, s)
    PROVE  UseIsKnown' /\ StartersFree'
<1>1. UseIsKnown'
  BY DEF UseIsKnown, UseKept
<1>2. StartersFree'
  BY DEF StartersFree, UseKept
<1> QED
  BY <1>1, <1>2

\* A step that answers and takes no request i.
LEMMA AskKept ==
    ASSUME NEW g \in Servers, NEW i \in ReqIds, NEW s \in CThreads, AskTrue(g, i, s),
           reply'[i] = reply[i],
           \A r \in inbox'[g] : r \in inbox[g] \/ (r.id # i /\ ~(r.rpc = "turn" /\ r.s = s)),
           \A m \in Said(g)' : m \in Said(g) \/ ~(m.kind = "answer" /\ m.n = i),
           Used(g, s)' => Used(g, s)
    PROVE  AskTrue(g, i, s)'
<1>1. Refused(g, i)' => Refused(g, i)
  BY DEF Refused
<1> QED
  BY <1>1 DEF AskTrue

\* A step at which nobody begins to wait.
LEMMA StartersStay ==
    ASSUME StartersTrue, WaitsKept,
           \A u \in Users, g \in Servers, i \in ReqIds, s \in CThreads :
               Starts(u, g, s) /\ ccall[u].id = i /\ AskTrue(g, i, s) => AskTrue(g, i, s)'
    PROVE  StartersTrue'
<1>1. \A u \in Users : Starting(u)' => ccall'[u] = ccall[u] /\ Starting(u)
  BY DEF WaitsKept, Starting, Waits
<1>2. \A u \in Users, g \in Servers, s \in CThreads :
          Starts(u, g, s)' => ccall'[u] = ccall[u] /\ Starts(u, g, s)
  BY <1>1 DEF Starts
<1> QED
  BY <1>2 DEF StartersTrue

\* The process and its standard streams stay.
LEMMA QuietUse ==
    ASSUME BaseInv, TurnInv, UNCHANGED <<inbox, pipe, turns, reply>>, codex'.gen \in Nat,
           codex'.gen >= codex.gen, WaitsKept
    PROVE  UseInv' /\ UseKept /\ StartersTrue'
<1>1. Calmer
  BY DEF Calmer
<1>2. UseInv' /\ UseKept
  BY <1>1, UseCalm DEF TurnInv
<1>3. ASSUME NEW g \in Servers, NEW i \in ReqIds, NEW s \in CThreads, AskTrue(g, i, s)
      PROVE  AskTrue(g, i, s)'
  <2>1. Said(g)' = Said(g)
    BY DEF Said
  <2> QED
    BY <1>2, <1>3, <2>1, AskKept DEF UseKept
<1>4. StartersTrue'
  BY <1>3, StartersStay DEF TurnInv
<1> QED
  BY <1>2, <1>4

\* Who asks for a turn has the lock of its thread.
LEMMA StarterLocks ==
    ASSUME BaseInv, NEW u \in Users
    PROVE  /\ ccall[u].op = "turn" => ccall[u].s \in CThreads /\ tlock[ccall[u].s] = u
           /\ Starting(u) => /\ ccall[u].op = "turn" /\ ccall[u].gen \in Servers
                             /\ ccall[u].id \in ReqIds /\ ccall[u].id <= codex.nextID
                             /\ ccall[u].gen <= codex.gen
           /\ ccall[u].rpc = "turn" => ccall[u].op = "turn"
BY DEF BaseInv, LocksTrue, LocksThread, Starting, WaitsTrue, Waits

\* A call goes on: with the lock of a thread where nothing goes on.
LEMMA TurnsOfCalls ==
    ASSUME BaseInv, TurnInv, NEW u \in Users, CallGoesOn(u)
    PROVE  TurnInv'
<1>1. /\ UNCHANGED <<codex, proc, inbox, pipe, turns, reply>> /\ OnlyCall(u)
      /\ ccall'[u].step \in {"idle", "gate", "target"}
  BY DEF CallGoesOn
<1>2. codex'.gen \in Nat /\ codex'.gen >= codex.gen
  BY <1>1, QuestionRows
<1>3. WaitsKept /\ ~Starting(u)'
  BY <1>1 DEF WaitsKept, Waits, Starting, OnlyCall
<1>4. UseInv' /\ UseKept /\ StartersTrue'
  BY <1>1, <1>2, <1>3, QuietUse
<1>5. \A g \in Servers : Opened(g)' <=> Opened(g)
  BY <1>1 DEF Opened
<1>6. \A v \in Users \ {u}, g \in Servers, s \in CThreads : Starts(v, g, s)' <=> Starts(v, g, s)
  BY <1>1 DEF Starts, Starting, OnlyCall
<1>7. ASSUME NEW v \in Users, NEW g \in Servers, NEW s \in CThreads,
             Opened(g)', ccall'[v].op = "turn", ccall'[v].s = s, ~Starts(v, g, s)'
      PROVE  (ccall[v].op = "turn" /\ ccall[v].s = s /\ ~Starts(v, g, s)) \/ ~Used(g, s)
  <2>1. CASE v # u
    BY <1>1, <1>6, <1>7, <2>1 DEF OnlyCall
  <2>2. CASE v = u /\ ccall[u].op = "turn" /\ ccall'[u].s = ccall[u].s /\ ~Starting(u)
    BY <1>7, <2>2 DEF Starts
  <2>3. CASE v = u /\ active[s].turn = 0 /\ tlock[s] = NoUser
    <3>1. ASSUME NEW w \in Users PROVE ~Starts(w, g, s)
      BY <2>3, StarterLocks, CodexAssumption DEF Starts
    <3> QED
      BY <1>5, <1>7, <2>3, <3>1 DEF TurnInv, UseIsKnown, KnownUse
  <2> QED
    BY <1>7, <2>1, <2>2, <2>3 DEF CallGoesOn
<1>8. ASSUME NEW g \in Servers, NEW s \in CThreads, Opened(g)', Used(g, s)', KnownUse(g, s)
      PROVE  KnownUse(g, s)'
  <2>1. CASE active' = active /\ ~Starting(u)
    BY <1>6, <1>8, <2>1 DEF KnownUse, Starts
  <2>2. CASE TurnStarted(u)
    <3> DEFINE i == ccall[u].id
    <3>1. Starting(u) /\ reply[i].result # "none" /\ Got(u, "turn") = reply[i].result
      BY <2>2, GotMeans DEF TurnStarted, Starting
    <3>2. PICK p \in CThreads : p = ccall[u].s
      BY <3>1, StarterLocks
    <3>3. PICK h \in Servers : h = ccall[u].gen /\ i \in ReqIds
      BY <3>1, StarterLocks
    <3>4. Starts(u, h, p) /\ AskTrue(h, i, p)
      BY <3>1, <3>2, <3>3 DEF Starts, TurnInv, StartersTrue
    <3>5. reply[i].result = "ok" => reply[i].turn # 0
      BY <3>4 DEF AskTrue
    <3>6. Opened(g) /\ Used(g, s) /\ g = codex.gen /\ codex.cur /\ ~codex.configErr /\ ~codex.quarantined
      BY <1>4, <1>5, <1>8 DEF Opened, UseKept, BaseInv, ServerInv, ServersTrue
    <3>7. active \in [CThreads -> ActiveRows]
      BY DEF BaseInv, CodexTypes, ActiveRows
    <3>8. CASE reply[i].result = "ok"
      <4>1. active' = [active EXCEPT ![p] = [turn |-> reply[i].turn, gen |-> codex.gen]]
        BY <2>2, <3>1, <3>2, <3>6, <3>8 DEF TurnStarted, IsCurrent
      <4>2. active'[p].turn # 0 /\ \A q \in CThreads : q # p => active'[q] = active[q]
        BY <3>5, <3>7, <3>8, <4>1
      <4>3. ASSUME NEW v \in Users, Starts(v, g, s), s # p PROVE Starts(v, g, s)'
        BY <1>6, <3>4, <4>3 DEF Starts
      <4> QED
        BY <1>8, <4>2, <4>3 DEF KnownUse
    <3>9. CASE reply[i].result # "ok"
      <4>1. active' = active
        BY <2>2, <3>1, <3>9 DEF TurnStarted
      <4>2. ~Used(h, p)
        BY <3>1, <3>4, <3>9 DEF AskTrue, Refused
      <4>3. ~(g = h /\ s = p)
        BY <3>6, <4>2
      <4>4. ~Starts(u, g, s)
        BY <3>4, <4>3 DEF Starts
      <4> QED
        BY <1>6, <1>8, <4>1, <4>4 DEF KnownUse
    <3> QED
      BY <3>8, <3>9
  <2> QED
    BY <2>1, <2>2 DEF CallGoesOn
<1>9. UseIsKnown' /\ StartersFree'
  BY <1>4, <1>5, <1>7, <1>8, KnownStays DEF TurnInv
<1> QED
  BY <1>4, <1>9 DEF TurnInv

\* Who asks a question, or nothing, stays with the turns.
LEMMA TurnsOfQuestions ==
    ASSUME BaseInv, TurnInv, NEW u \in Users, Questioned(u)
    PROVE  TurnInv'
<1>1. /\ UNCHANGED <<codex, proc, inbox, pipe, turns, reply, active>> /\ OnlyCall(u)
      /\ ccall[u].step \in {"idle", "respond", "responded"}
      /\ ccall'[u].step \in {"idle", "respond", "responded"}
      /\ ccall'[u].op = "turn" => ccall[u].op = "turn" /\ ccall'[u].s = ccall[u].s
  BY IdleRow DEF Questioned, CallStep, Same
<1>2. codex'.gen \in Nat /\ codex'.gen >= codex.gen
  BY <1>1, QuestionRows
<1>3. WaitsKept /\ ~Starting(u)' /\ ~Starting(u)
  BY <1>1 DEF WaitsKept, Waits, Starting, OnlyCall
<1>4. UseInv' /\ UseKept /\ StartersTrue'
  BY <1>1, <1>2, <1>3, QuietUse
<1>5. \A g \in Servers : Opened(g)' <=> Opened(g)
  BY <1>1 DEF Opened
<1>6. \A v \in Users, g \in Servers, s \in CThreads : Starts(v, g, s)' <=> Starts(v, g, s)
  BY <1>1, <1>3 DEF Starts, Starting, OnlyCall
<1>7. \A g \in Servers, s \in CThreads : KnownUse(g, s) => KnownUse(g, s)'
  BY <1>1, <1>6 DEF KnownUse
<1>8. \A v \in Users : ccall'[v].op = "turn" => ccall[v].op = "turn" /\ ccall'[v].s = ccall[v].s
  BY <1>1 DEF OnlyCall
<1>9. UseIsKnown' /\ StartersFree'
  BY <1>4, <1>5, <1>6, <1>7, <1>8, KnownStays DEF TurnInv
<1> QED
  BY <1>4, <1>9 DEF TurnInv

-----------------------------------------------------------------------------
\* A process that is not yet published does nothing.
LEMMA NewProcessFree ==
    ASSUME BaseInv, UseInv, NEW g \in Servers, g > codex.gen, NEW s \in CThreads
    PROVE  ~Used(g, s)
<1>1. codex.gen \in Nat /\ g \in Nat
  BY QuestionRows
<1>2. ~Requested(g, s)
  BY <1>1 DEF Requested, BaseInv, InboxTrue
<1>3. \A t \in Turns : ~TurnRuns(t, g, s)
  BY <1>1 DEF TurnRuns, BaseInv, RunningTrue
<1>4. \A m \in Said(g) : ~TurnOf(turns, m, s)
  BY <1>1 DEF TurnOf, UseInv, MessagesKnown
<1> QED
  BY <1>2, <1>3, <1>4 DEF Used, InUse

\* Who gives up closes the input of the process, unless the caller was cancelled.
LEMMA TurnsOfProcessed ==
    ASSUME BaseInv, TurnInv, "cancel" \notin CodexFaults, NEW u, Processed(u)
    PROVE  TurnInv'
<1>1. /\ UNCHANGED <<inbox, pipe, turns, reply, active>> /\ codex' \in CodexRows
      /\ \/ codex'.gen = codex.gen /\ codex'.cur = codex.cur /\ codex'.configErr = codex.configErr
         \/ /\ ~codex.cur /\ codex'.cur /\ codex'.gen = codex.gen + 1 /\ codex'.gen \in Servers
            /\ UNCHANGED proc
      /\ \A g \in Servers : g <= codex.gen =>
             proc'[g] = proc[g] \/ (proc[g] = "live" /\ proc'[g] = "closing")
  BY DEF Processed
<1>2. codex'.gen \in Nat /\ codex'.gen >= codex.gen /\ codex.gen \in Nat
  BY <1>1, QuestionRows
<1>3. \/ UNCHANGED ccall
      \/ u \in Users /\ OnlyCall(u) /\ ccall'[u] = IdleCall
      \/ /\ u \in Users /\ OnlyCall(u) /\ ~Starting(u)
         /\ ccall'[u].step \in {"send", "publish", "hello"} /\ ccall'[u].op = ccall[u].op
         /\ ccall'[u].s = ccall[u].s
  BY DEF Processed, CallStep, Same, Starting
<1>4. \A v \in Users : ccall'[v] = ccall[v] \/ (v = u /\ ~Starting(v)' /\ ~Waits(v)')
  BY <1>3, IdleRow DEF OnlyCall, Starting, Waits
<1>5. WaitsKept
  BY <1>4 DEF WaitsKept
<1>6. UseInv' /\ UseKept /\ StartersTrue'
  BY <1>1, <1>2, <1>5, QuietUse
<1>7. ASSUME NEW g \in Servers, Opened(g)'
      PROVE  Opened(g) \/ \A s \in CThreads : ~Used(g, s)
  <2>1. CASE codex'.gen = codex.gen /\ codex'.cur = codex.cur /\ codex'.configErr = codex.configErr
    <3>1. g = codex.gen /\ proc'[g] = "live"
      BY <1>7, <2>1 DEF Opened
    <3>2. proc[g] = "live"
      BY <1>1, <1>2, <3>1
    <3> QED
      BY <1>7, <2>1, <3>2 DEF Opened
  <2>2. CASE codex'.gen = codex.gen + 1
    <3>1. g > codex.gen
      BY <1>2, <1>7, <2>2 DEF Opened
    <3> QED
      BY <3>1, NewProcessFree DEF TurnInv
  <2> QED
    BY <1>1, <2>1, <2>2
<1>8. ASSUME NEW v \in Users, NEW g \in Servers, NEW s \in CThreads, Starts(v, g, s), Opened(g)'
      PROVE  Starts(v, g, s)'
  <2>1. CASE ccall'[v] = ccall[v]
    BY <1>8, <2>1 DEF Starts, Starting
  <2>2. ASSUME v = u, ccall'[u] # ccall[u] PROVE FALSE
    <3>1. ccall[u].step = "wait" /\ ccall[u].op # "unload" /\ u \in Users /\ ccall[u].gen = g
      BY <1>8, <2>2, StarterLocks DEF Starts, Starting
    <3>2. ~(codex'.cur /\ codex'.gen = g /\ proc'[g] = "live")
      BY <3>1 DEF Processed
    <3> QED
      BY <1>8, <3>2 DEF Opened
  <2> QED
    BY <1>4, <2>1, <2>2
<1>9. ASSUME NEW v \in Users, NEW g \in Servers, NEW s \in CThreads,
             ccall'[v].op = "turn", ccall'[v].s = s, ~Starts(v, g, s)'
      PROVE  ccall[v].op = "turn" /\ ccall[v].s = s /\ ~Starts(v, g, s)
  <2>1. CASE ccall'[v] = ccall[v]
    BY <1>9, <2>1 DEF Starts, Starting
  <2>2. CASE v = u /\ u \in Users /\ ~Starting(u) /\ ccall'[u].op = ccall[u].op /\ ccall'[u].s = ccall[u].s
    BY <1>9, <2>2 DEF Starts
  <2>3. ~(ccall'[v] = IdleCall)
    BY <1>9, IdleRow
  <2> QED
    BY <1>3, <1>4, <2>1, <2>2, <2>3
<1>10. \A g \in Servers, s \in CThreads :
           Opened(g)' /\ Used(g, s)' /\ KnownUse(g, s) => KnownUse(g, s)'
  BY <1>1, <1>8 DEF KnownUse
<1>11. UseIsKnown' /\ StartersFree'
  BY <1>6, <1>7, <1>9, <1>10, KnownStays DEF TurnInv
<1> QED
  BY <1>6, <1>11 DEF TurnInv

\* A request is sent: turn/start by one caller, for a thread where nothing goes on.
LEMMA TurnsOfSent ==
    ASSUME BaseInv, RequestInv, TurnInv, NEW u \in Users, Sent(u)
    PROVE  TurnInv'
<1>1. PICK q \in CRpcs, step \in {"init", "wait"} :
        /\ Wrote(u, q, codex.gen, step) /\ ccall[u].step \in {"hello", "send", "target"}
        /\ q = "turn" => step = "wait" /\ ccall[u].rpc = "turn" /\ ~codex.configErr
        /\ step = "wait" /\ ccall[u].rpc = "turn" => q = "turn"
  <2>1. CASE ccall[u].step = "hello" /\ Wrote(u, "initialize", codex.gen, "init")
    BY <2>1 DEF CRpcs
  <2>2. CASE ccall[u].step = "send" /\ ~codex.configErr /\ Wrote(u, ccall[u].rpc, codex.gen, "wait")
    <3>1. ccall[u].rpc \in CRpcs
      BY DEF BaseInv, CodexTypes, CallRows
    <3> QED
      BY <2>2, <3>1
  <2>3. CASE ccall[u].step = "target" /\ Wrote(u, "unsubscribe", codex.gen, "wait")
    <3>1. ccall[u].op = "unload" /\ ccall[u].rpc # "turn"
      BY <2>3, StarterLocks DEF BaseInv, LocksTrue
    <3> QED
      BY <2>3, <3>1 DEF CRpcs
  <2> QED
    BY <2>1, <2>2, <2>3 DEF Sent
<1>2. PICK g \in Servers : g = codex.gen
  BY <1>1 DEF Wrote
<1> DEFINE id == codex.nextID + 1
           p == ccall[u].s
<1>3. /\ proc[g] = "live" /\ codex.cur /\ OnlyCall(u)
      /\ codex'.gen = codex.gen /\ codex'.cur = codex.cur /\ codex'.configErr = codex.configErr
      /\ UNCHANGED <<proc, pipe, turns, reply, active, tlock>> /\ id \in ReqIds
      /\ ccall'[u].step = step /\ ccall'[u].id = id /\ ccall'[u].gen = g
      /\ ccall'[u].op = ccall[u].op /\ ccall'[u].rpc = ccall[u].rpc /\ ccall'[u].s = p
  BY <1>1, <1>2 DEF Wrote, CodexIs, CallStep
<1>4. ~Starting(u)
  BY <1>1 DEF Starting
<1>5. q = "turn" => /\ p \in CThreads /\ tlock[p] = u /\ ccall[u].op = "turn" /\ ~Used(g, p)
                    /\ Starting(u)'
  <2>1. SUFFICES ASSUME q = "turn" PROVE /\ p \in CThreads /\ tlock[p] = u /\ ccall[u].op = "turn"
                                         /\ ~Used(g, p) /\ Starting(u)'
    OBVIOUS
  <2>2. p \in CThreads /\ tlock[p] = u /\ ccall[u].op = "turn" /\ Opened(g)
    BY <1>1, <1>2, <1>3, <2>1, StarterLocks DEF Opened
  <2>3. ~Starts(u, g, p)
    BY <1>4 DEF Starts
  <2>4. ~Used(g, p)
    BY <2>2, <2>3 DEF TurnInv, StartersFree
  <2> QED
    BY <1>1, <1>3, <2>1, <2>2, <2>4 DEF Starting
<1>6. /\ UseInv'
      /\ \A h \in Servers, s \in CThreads :
             Used(h, s)' => Used(h, s) \/ (q = "turn" /\ h = g /\ s = p)
  BY <1>1, <1>2, <1>5, UseSent DEF TurnInv
<1>7. PICK x \in Requests : inbox'[g] = inbox[g] \cup {x} /\ x.id = id /\ x.rpc = q /\ x.s = p
  BY <1>1, <1>2 DEF Wrote
<1>8. \A h \in Servers \ {g} : inbox'[h] = inbox[h]
  BY <1>1, <1>2 DEF Wrote
<1>9. codex.nextID \in Nat /\ id > codex.nextID /\ \A i \in ReqIds : i <= codex.nextID => i # id
  BY CodexAssumption DEF BaseInv, CodexTypes, CodexRows, ReqIds
<1> HIDE DEF id, p
<1>10. \A h \in Servers : Opened(h)' <=> Opened(h)
  BY <1>3 DEF Opened
<1>11. \A v \in Users \ {u} : ccall'[v] = ccall[v]
  BY <1>3 DEF OnlyCall
<1>12. \A v \in Users \ {u}, h \in Servers, s \in CThreads : Starts(v, h, s)' <=> Starts(v, h, s)
  BY <1>11 DEF Starts, Starting
<1>13. ASSUME NEW v \in Users \ {u}, q = "turn", ccall[v].op = "turn" PROVE ccall[v].s # p
  BY <1>5, <1>13, StarterLocks
<1>14. UseIsKnown'
  <2>1. ASSUME NEW h \in Servers, NEW s \in CThreads, Opened(h)', Used(h, s)' PROVE KnownUse(h, s)'
    <3>1. CASE Used(h, s)
      <4>1. KnownUse(h, s)
        BY <1>10, <2>1, <3>1 DEF TurnInv, UseIsKnown
      <4>2. ~Starts(u, h, s)
        BY <1>4 DEF Starts
      <4> QED
        BY <1>3, <1>12, <4>1, <4>2 DEF KnownUse
    <3>2. CASE q = "turn" /\ h = g /\ s = p
      <4>1. Starts(u, h, s)'
        BY <1>3, <1>5, <3>2 DEF Starts
      <4> QED
        BY <4>1 DEF KnownUse
    <3> QED
      BY <1>6, <2>1, <3>1, <3>2
  <2> QED
    BY <2>1 DEF UseIsKnown
<1>15. StartersFree'
  <2>1. ASSUME NEW v \in Users, NEW h \in Servers, NEW s \in CThreads,
               Opened(h)', ccall'[v].op = "turn", ccall'[v].s = s, ~Starts(v, h, s)'
        PROVE  ~Used(h, s)'
    <3>1. CASE v # u
      <4>1. ccall[v].op = "turn" /\ ccall[v].s = s /\ ~Starts(v, h, s)
        BY <1>11, <1>12, <2>1, <3>1
      <4>2. ~Used(h, s)
        BY <1>10, <2>1, <4>1 DEF TurnInv, StartersFree
      <4> QED
        BY <1>6, <1>13, <3>1, <4>1, <4>2
    <3>2. CASE v = u
      <4>1. ccall[u].op = "turn" /\ p = s /\ ccall[u].s = s /\ ~Starts(u, h, s)
        BY <1>3, <1>4, <2>1, <3>2 DEF Starts, p
      <4>2. ~Used(h, s)
        BY <1>10, <2>1, <4>1 DEF TurnInv, StartersFree
      <4>3. ~(q = "turn" /\ h = g /\ s = p)
        BY <1>3, <1>5, <2>1, <3>2 DEF Starts
      <4> QED
        BY <1>6, <4>2, <4>3
    <3> QED
      BY <3>1, <3>2
  <2> QED
    BY <2>1 DEF StartersFree
<1>16. StartersTrue'
  <2>1. ASSUME NEW v \in Users, NEW h \in Servers, NEW i \in ReqIds, NEW s \in CThreads,
               Starts(v, h, s)', ccall'[v].id = i
        PROVE  AskTrue(h, i, s)'
    <3>1. Said(h)' = Said(h)
      BY <1>3 DEF Said
    <3>2. CASE v # u
      <4>1. Starts(v, h, s) /\ ccall[v].id = i
        BY <1>11, <1>12, <2>1, <3>2
      <4>2. AskTrue(h, i, s)
        BY <4>1 DEF TurnInv, StartersTrue
      <4>3. i # id /\ ccall[v].op = "turn" /\ ccall[v].s = s
        BY <1>9, <4>1, StarterLocks DEF Starts
      <4>4. ~(q = "turn" /\ s = p)
        BY <1>13, <3>2, <4>3
      <4>5. \A r \in inbox'[h] : r \in inbox[h] \/ (r.id # i /\ ~(r.rpc = "turn" /\ r.s = s))
        BY <1>7, <1>8, <4>3, <4>4
      <4>6. Used(h, s)' => Used(h, s)
        BY <1>6, <4>4
      <4>7. reply'[i] = reply[i]
        BY <1>3
      <4> QED
        BY <3>1, <4>2, <4>5, <4>6, <4>7, AskKept
    <3>3. CASE v = u
      <4>1. q = "turn" /\ h = g /\ s = p /\ i = id
        BY <1>1, <1>3, <2>1, <3>3 DEF Starts, Starting
      <4>2. reply'[i].result = "none"
        BY <1>3, <1>9, <4>1 DEF RequestInv, PendingTrue
      <4>3. \A m \in Said(h)' : ~(m.kind = "answer" /\ m.n = i)
        <5>1. \A m \in Said(h) : m.kind = "answer" => m.n \in ReqIds /\ m.n <= codex.nextID
          BY DEF BaseInv, MessagesTrue
        <5> QED
          BY <1>9, <3>1, <4>1, <5>1
      <4>4. \A r \in inbox[g] : r.id # i /\ ~(r.rpc = "turn" /\ r.s = s)
        <5>1. \A r \in inbox[g] : r.id \in ReqIds /\ r.id <= codex.nextID
          BY DEF BaseInv, InboxTrue
        <5>2. ~Requested(g, s)
          BY <1>5, <4>1 DEF Used
        <5> QED
          BY <1>9, <4>1, <5>1, <5>2 DEF Requested
      <4>5. \A r \in inbox'[h] : r.id = i <=> r.rpc = "turn" /\ r.s = s
        BY <1>7, <4>1, <4>4
      <4>6. ~Refused(h, i)'
        BY <4>2, <4>3 DEF Refused
      <4> QED
        BY <4>2, <4>3, <4>5, <4>6 DEF AskTrue
    <3> QED
      BY <3>2, <3>3
  <2> QED
    BY <2>1 DEF StartersTrue
<1> QED
  BY <1>6, <1>14, <1>15, <1>16 DEF TurnInv

-----------------------------------------------------------------------------
\* What a reader does not give to a request.
LEMMA ReaderCalls ==
    ASSUME BaseInv, NEW g \in Servers, ReaderStep(g)
    PROVE  /\ codex'.gen = codex.gen /\ codex'.cur = codex.cur
           /\ codex'.configErr = codex.configErr \/ codex'.configErr
           /\ \A v \in Users : \/ ccall'[v] = ccall[v]
                               \/ /\ ccall[v].step = "idle" /\ ccall'[v].step = "unload"
                                  /\ ccall'[v].op = "unload"
<1>1. /\ codex'.gen = codex.gen /\ codex'.cur = codex.cur
      /\ codex'.configErr = codex.configErr \/ codex'.configErr
  BY DEF ReaderStep, Reads, ReadsAnswer, ReadsStart, ReadsEnd, ReadsAsk, ReadsSettled, ReadsWarning,
     CodexIs
<1>2. CASE UNCHANGED ccall
  BY <1>1, <1>2
<1>3. CASE ReadsEnd(g, pipe[g][1])
  <2>1. PICK u \in Users : /\ CallStep(u) /\ ccall[u].step = "idle" /\ ccall'[u].step = "unload"
                           /\ ccall'[u].op = "unload"
    BY <1>3 DEF ReadsEnd
  <2>2. OnlyCall(u)
    BY <2>1 DEF CallStep
  <2> QED
    BY <1>1, <2>1, <2>2 DEF OnlyCall
<1> QED
  BY <1>2, <1>3 DEF ReaderStep, Reads, ReadsAnswer, ReadsStart, ReadsAsk, ReadsSettled, ReadsWarning

\* A turn whose end is read has ended for the adapter too.
LEMMA EndRead ==
    ASSUME BaseInv, TurnInv, NEW g \in Servers, ReaderStep(g), ReadsEnd(g, pipe[g][1]),
           NEW s \in CThreads, s = turns[pipe[g][1].turn].s
    PROVE  ~Used(g, s)'
<1> DEFINE m == pipe[g][1]
<1>1. /\ m \in Said(g) /\ PipeReads(g) /\ UNCHANGED <<inbox, turns>> /\ EndOf(turns, m, s)
  BY DEF ReaderStep, ReadsEnd, EndOf
<1>2. InUse(g, s)
  BY <1>1 DEF InUse, EndOf, TurnOf
<1>3. ~Requested(g, s)
  BY <1>2 DEF TurnInv, UseInv, OneRequested
<1>4. \A t \in Turns : ~TurnRuns(t, g, s)
  BY <1>1 DEF TurnInv, UseInv, OneRunning
<1>5. Len(pipe[g]) \in Nat /\ Len(pipe'[g]) \in Nat /\ Len(pipe'[g]) = Len(pipe[g]) - 1
  BY <1>1 DEF PipeReads, BaseInv, CodexTypes
<1>6. ASSUME NEW j \in 1..Len(pipe'[g]) PROVE ~TurnOf(turns', pipe'[g][j], s)
  <2>1. j + 1 \in 1..Len(pipe[g]) /\ 1 \in 1..Len(pipe[g]) /\ 1 < j + 1
    BY <1>5
  <2>2. pipe'[g][j] = pipe[g][j + 1]
    BY <1>1 DEF PipeReads
  <2>3. EndLast(turns, pipe[g]) /\ EndOf(turns, pipe[g][1], s)
    BY <1>1 DEF TurnInv, UseInv, EndsLast
  <2>4. ~TurnOf(turns, pipe[g][j + 1], s)
    BY <2>1, <2>3 DEF EndLast
  <2> QED
    BY <1>1, <2>2, <2>4
<1>7. \A x \in Said(g)' : ~TurnOf(turns', x, s)
  BY <1>6 DEF Said
<1> HIDE DEF m
<1>8. ~InUse(g, s)'
  BY <1>1, <1>4, <1>7 DEF InUse, TurnRuns
<1>9. ~Requested(g, s)'
  BY <1>1, <1>3 DEF Requested
<1> QED
  BY <1>8, <1>9 DEF Used

\* The reader gives the caller of turn/start its answer.
LEMMA AnswerRead ==
    ASSUME BaseInv, RequestInv, TurnInv, NEW g \in Servers, ReaderStep(g), UseKept,
           IsCurrent(g), ReadsAnswer(g, pipe[g][1]),
           NEW u \in Users, NEW h \in Servers, NEW i \in ReqIds, NEW s \in CThreads,
           Starts(u, h, s), ccall[u].id = i, AskTrue(h, i, s)
    PROVE  AskTrue(h, i, s)'
<1> DEFINE m == pipe[g][1]
<1>1. m \in Said(g) /\ PipeReads(g) /\ UNCHANGED inbox /\ m.kind = "answer" /\ g = codex.gen
  BY DEF ReaderStep, ReadsAnswer, IsCurrent
<1>2. \A x \in Said(h)' : x \in Said(h)
  <2>1. CASE h = g
    <3>1. PipeReads(h)
      BY <1>1, <2>1
    <3> QED
      BY <3>1 DEF PipeReads
  <2>2. CASE h # g
    BY <1>1, <2>2 DEF PipeReads, Said
  <2> QED
    BY <2>1, <2>2
<1>3. Used(h, s)' => Used(h, s)
  BY DEF UseKept
<1>4. CASE reply'[i] = reply[i]
  BY <1>1, <1>2, <1>3, <1>4, AskKept
<1>5. CASE /\ i = m.n /\ pend[i] = g /\ reply'[i].result = m.result /\ reply'[i].turn = m.turn
  <2>1. Waits(u) /\ g # 0
    BY CodexAssumption DEF Starts, Starting, Waits, Servers
  <2>2. h = g
    BY <1>1, <1>5, <2>1 DEF RequestInv, WaitersTrue, Starts
  <2>3. m \in Said(h) /\ m.kind = "answer" /\ m.n = i
    BY <1>1, <1>5, <2>2
  <2> HIDE DEF m
  <2>4. Refused(h, i)' => Refused(h, i)
    BY <1>2, <1>5, <2>3 DEF Refused
  <2> QED
    BY <1>1, <1>2, <1>3, <1>5, <2>3, <2>4 DEF AskTrue
<1> QED
  BY <1>4, <1>5 DEF ReadsAnswer

\* The reader.
LEMMA TurnsOfReader ==
    ASSUME BaseInv, RequestInv, TurnInv, NEW g \in Servers, ReaderStep(g)
    PROVE  TurnInv'
<1> DEFINE m == pipe[g][1]
<1>1. /\ PipeReads(g) /\ m \in Said(g) /\ UNCHANGED <<proc, inbox, turns>>
      /\ IsCurrent(g) \/ UNCHANGED <<active, reply>>
  BY DEF ReaderStep
<1>2. /\ codex'.gen = codex.gen /\ codex'.cur = codex.cur
      /\ codex'.configErr = codex.configErr \/ codex'.configErr
      /\ \A v \in Users : \/ ccall'[v] = ccall[v]
                          \/ /\ ccall[v].step = "idle" /\ ccall'[v].step = "unload"
                             /\ ccall'[v].op = "unload"
  BY ReaderCalls
<1>3. Calmer /\ codex'.gen \in Nat /\ codex'.gen >= codex.gen
  BY <1>1, <1>2, QuestionRows DEF Calmer
<1>4. UseInv' /\ UseKept
  BY <1>1, <1>3, UseCalm DEF TurnInv
<1>5. WaitsKept
  BY <1>2 DEF WaitsKept, Waits
<1>6. \A h \in Servers : Opened(h)' => Opened(h) /\ h = codex.gen
  BY <1>1, <1>2 DEF Opened
<1>7. \A v \in Users, h \in Servers, s \in CThreads : Starts(v, h, s) => Starts(v, h, s)'
  BY <1>2 DEF Starts, Starting
<1>8. ASSUME NEW v \in Users, NEW h \in Servers, NEW s \in CThreads,
             ccall'[v].op = "turn", ccall'[v].s = s, ~Starts(v, h, s)'
      PROVE  ccall[v].op = "turn" /\ ccall[v].s = s /\ ~Starts(v, h, s)
  BY <1>2, <1>7, <1>8
<1>9. ASSUME NEW h \in Servers, NEW s \in CThreads, Opened(h)', Used(h, s)', active[s].turn # 0
      PROVE  active'[s].turn # 0
  <2>1. CASE active' = active
    BY <1>9, <2>1
  <2>2. CASE ReadsStart(g, m)
    <3>1. m.turn # 0
      BY <1>1, <2>2, CodexAssumption DEF ReadsStart, BaseInv, MessagesTrue, Turns
    <3> QED
      BY <1>9, <2>2, <3>1 DEF ReadsStart
  <2>3. CASE ReadsEnd(g, m) /\ IsCurrent(g)
    <3>1. h = g
      BY <1>6, <1>9, <2>3 DEF IsCurrent
    <3>2. s # turns[m.turn].s
      BY <1>9, <2>3, <3>1, EndRead
    <3> QED
      BY <1>9, <2>3, <3>2 DEF ReadsEnd
  <2> QED
    BY <2>1, <2>2, <2>3 DEF ReaderStep, Reads, ReadsAnswer, ReadsAsk, ReadsSettled, ReadsWarning
<1> HIDE DEF m
<1>10. \A h \in Servers, s \in CThreads :
           Opened(h)' /\ Used(h, s)' /\ KnownUse(h, s) => KnownUse(h, s)'
  BY <1>7, <1>9 DEF KnownUse
<1>11. UseIsKnown' /\ StartersFree'
  BY <1>4, <1>6, <1>8, <1>10, KnownStays DEF TurnInv
<1>12. ASSUME NEW u \in Users, NEW h \in Servers, NEW i \in ReqIds, NEW s \in CThreads,
              Starts(u, h, s), ccall[u].id = i, AskTrue(h, i, s)
       PROVE  AskTrue(h, i, s)'
  <2>1. CASE IsCurrent(g) /\ ReadsAnswer(g, pipe[g][1])
    BY <1>4, <1>12, <2>1, AnswerRead
  <2>2. CASE UNCHANGED reply
    <3>1. \A x \in Said(h)' : x \in Said(h)
      <4>1. CASE h = g
        <5>1. PipeReads(h)
          BY <1>1, <4>1
        <5> QED
          BY <5>1 DEF PipeReads
      <4>2. CASE h # g
        <5>1. PipeReads(g)
          BY <1>1
        <5>2. pipe'[h] = pipe[h]
          BY <4>2, <5>1 DEF PipeReads
        <5> QED
          BY <5>2 DEF Said
      <4> QED
        BY <4>1, <4>2
    <3> QED
      BY <1>1, <1>4, <1>12, <2>2, <3>1, AskKept DEF UseKept
  <2> QED
    BY <2>1, <2>2 DEF ReaderStep, Reads, ReadsStart, ReadsEnd, ReadsAsk, ReadsSettled, ReadsWarning
<1>13. StartersTrue'
  BY <1>5, <1>12, StartersStay DEF TurnInv
<1> QED
  BY <1>4, <1>11, <1>13 DEF TurnInv

\* The end of a process is the end of its turns.
LEMMA TurnsOfFinish ==
    ASSUME BaseInv, RequestInv, TurnInv, NEW g \in Servers, Finishes(g)
    PROVE  TurnInv'
<1>1. /\ UNCHANGED <<inbox, turns, ccall>> /\ g = codex.gen /\ proc[g] = "dead"
      /\ codex'.gen = codex.gen /\ ~codex'.cur /\ pipe'[g] = <<>>
      /\ \A h \in Servers \ {g} : pipe'[h] = pipe[h]
      /\ \A i \in ReqIds : IF pend[i] = g THEN reply'[i].result = "exited" ELSE reply'[i] = reply[i]
  BY DEF Finishes, CodexIs
<1>2. Calmer /\ codex'.gen \in Nat /\ codex'.gen >= codex.gen
  BY <1>1, QuestionRows DEF Calmer
<1>3. UseInv' /\ UseKept
  BY <1>1, <1>2, UseCalm DEF TurnInv
<1>4. \A h \in Servers : ~Opened(h)'
  BY <1>1 DEF Opened
<1>5. UseIsKnown' /\ StartersFree'
  BY <1>3, <1>4, KnownStays DEF TurnInv
<1>6. Said(g)' = {}
  <2>1. Len(<<>>) = 0
    OBVIOUS
  <2> QED
    BY <1>1, <2>1 DEF Said
<1>7. inbox'[g] = {}
  BY <1>1 DEF BaseInv, InboxTrue, Runs
<1>8. ASSUME NEW s \in CThreads PROVE ~Used(g, s)'
  <2>1. \A t \in Turns : ~TurnRuns(t, g, s)'
    BY <1>1 DEF TurnRuns, BaseInv, RunningTrue, Runs
  <2> QED
    BY <1>6, <1>7, <2>1 DEF Used, InUse, Requested
<1>9. ASSUME NEW u \in Users, NEW h \in Servers, NEW i \in ReqIds, NEW s \in CThreads,
             Starts(u, h, s), ccall[u].id = i, AskTrue(h, i, s)
      PROVE  AskTrue(h, i, s)'
  <2>1. CASE pend[i] = g
    <3>1. Waits(u) /\ g # 0
      BY CodexAssumption, <1>9 DEF Starts, Starting, Waits, Servers
    <3>2. h = g
      BY <1>1, <1>9, <2>1, <3>1 DEF RequestInv, WaitersTrue, Starts
    <3>3. reply'[i].result = "exited"
      BY <1>1, <2>1
    <3>4. AskTrue(g, i, s)'
      BY <1>6, <1>7, <1>8, <3>3 DEF AskTrue
    <3> QED
      BY <3>2, <3>4
  <2>2. CASE pend[i] # g
    <3>1. \A x \in Said(h)' : x \in Said(h)
      <4>1. CASE h = g
        BY <1>6, <4>1
      <4>2. CASE h # g
        BY <1>1, <4>2 DEF Said
      <4> QED
        BY <4>1, <4>2
    <3>2. reply'[i] = reply[i]
      BY <1>1, <2>2
    <3> QED
      BY <1>1, <1>3, <1>9, <3>1, <3>2, AskKept DEF UseKept
  <2> QED
    BY <2>1, <2>2
<1>10. WaitsKept
  BY <1>1 DEF WaitsKept
<1>11. StartersTrue'
  BY <1>9, <1>10, StartersStay DEF TurnInv
<1> QED
  BY <1>3, <1>5, <1>11 DEF TurnInv

\* A process ends with its requests and its turns.
LEMMA TurnsOfExit ==
    ASSUME BaseInv, TurnInv, NEW g \in Servers, Exits(g)
    PROVE  TurnInv'
<1>1. /\ UNCHANGED <<codex, pipe, reply, active, ccall>> /\ proc'[g] = "dead"
      /\ (\A h \in Servers \ {g} : proc'[h] = proc[h])
      /\ \A h \in Servers : \A r \in inbox'[h] : r \in inbox[h]
  BY DEF Exits
<1>2. Calmer
  BY <1>1 DEF Exits, Calmer
<1>3. UseInv' /\ UseKept
  BY <1>1, <1>2, UseCalm, QuestionRows DEF TurnInv
<1>4. \A h \in Servers : Opened(h)' => Opened(h)
  BY <1>1 DEF Opened
<1>5. \A h \in Servers, s \in CThreads : KnownUse(h, s)' <=> KnownUse(h, s)
  BY <1>1 DEF KnownUse, Starts, Starting
<1>6. \A v \in Users, h \in Servers, s \in CThreads : Starts(v, h, s)' <=> Starts(v, h, s)
  BY <1>1 DEF Starts, Starting
<1>7. UseIsKnown' /\ StartersFree'
  BY <1>1, <1>3, <1>4, <1>5, <1>6, KnownStays DEF TurnInv
<1>8. ASSUME NEW h \in Servers, NEW i \in ReqIds, NEW s \in CThreads, AskTrue(h, i, s)
      PROVE  AskTrue(h, i, s)'
  <2>1. Said(h)' = Said(h)
    BY <1>1 DEF Said
  <2> QED
    BY <1>1, <1>3, <1>8, <2>1, AskKept DEF UseKept
<1>9. StartersTrue'
  BY <1>1, <1>8, StartersStay DEF TurnInv, WaitsKept
<1> QED
  BY <1>3, <1>7, <1>9 DEF TurnInv

-----------------------------------------------------------------------------
(***************************************************************************)
(* The turns, as a process speaks.                                         *)
(***************************************************************************)
\* What a process says alone is no news to the adapter.
LEMMA SpeakKnown ==
    ASSUME TurnInv, UNCHANGED <<codex, proc, active, ccall>>, UseKept
    PROVE  UseIsKnown' /\ StartersFree' /\ WaitsKept
<1>1. \A h \in Servers : Opened(h)' <=> Opened(h)
  BY DEF Opened
<1>2. \A v \in Users, h \in Servers, s \in CThreads : Starts(v, h, s)' <=> Starts(v, h, s)
  BY DEF Starts, Starting
<1>3. \A h \in Servers, s \in CThreads : KnownUse(h, s) => KnownUse(h, s)'
  BY <1>2 DEF KnownUse
<1>4. UseIsKnown' /\ StartersFree'
  BY <1>1, <1>2, <1>3, KnownStays DEF TurnInv
<1> QED
  BY <1>4 DEF WaitsKept, Waits

\* The process g says M, and no answer to the request i.
LEMMA AskSpoken ==
    ASSUME NEW g \in Servers, NEW M \in SUBSET Messages, Speaks(g, M), UseKept,
           \A h \in Servers : inbox'[h] \subseteq inbox[h],
           NEW h \in Servers, NEW i \in ReqIds, NEW s \in CThreads, AskTrue(h, i, s),
           h = g => \A x \in M : ~(x.kind = "answer" /\ x.n = i)
    PROVE  AskTrue(h, i, s)'
<1>1. reply' = reply
  BY DEF Speaks
<1>2. \A x \in Said(h)' : x \in Said(h) \/ ~(x.kind = "answer" /\ x.n = i)
  <2>1. CASE h = g
    <3>1. PipeGrows(h, M)
      BY <2>1 DEF Speaks
    <3> QED
      BY <2>1, <3>1 DEF PipeGrows
  <2>2. CASE h # g
    <3>1. pipe'[h] = pipe[h]
      BY <2>2 DEF Speaks, PipeGrows
    <3> QED
      BY <3>1 DEF Said
  <2> QED
    BY <2>1, <2>2
<1> QED
  BY <1>1, <1>2, AskKept DEF UseKept

\* A process that says M and answers nothing.
LEMMA TurnsOfSpeech ==
    ASSUME BaseInv, TurnInv, NEW g \in Servers, NEW M \in SUBSET Messages, Speaks(g, M),
           UNCHANGED inbox, UseInv', UseKept, \A x \in M : x.kind # "answer"
    PROVE  TurnInv'
<1>1. UNCHANGED <<codex, proc, active, ccall>>
  BY DEF Speaks
<1>2. UseIsKnown' /\ StartersFree' /\ WaitsKept
  BY <1>1, SpeakKnown
<1>3. \A h \in Servers, i \in ReqIds, s \in CThreads : AskTrue(h, i, s) => AskTrue(h, i, s)'
  BY AskSpoken
<1>4. StartersTrue'
  BY <1>2, <1>3, StartersStay DEF TurnInv
<1> QED
  BY <1>2, <1>4 DEF TurnInv

\* A turn ends.
LEMMA TurnsOfEnds ==
    ASSUME BaseInv, TurnInv, NEW t \in Turns, EndsTurn(t)
    PROVE  TurnInv'
<1>1. PICK g \in Servers : g = turns[t].gen
  BY DEF EndsTurn
<1>2. TurnEnded(t) /\ UNCHANGED inbox
  BY DEF EndsTurn
<1>3. PICK m \in Messages : m.kind = "completed" /\ m.turn = t /\ Speaks(turns[t].gen, {m})
  BY DEF EndsTurn
<1>4. turns'[t].gen = g
  BY <1>1, <1>2 DEF TurnEnded
<1>5. Speaks(g, {m})
  BY <1>1, <1>3, <1>4, SpeaksOf
<1>6. PipeGrows(g, {m}) /\ UNCHANGED codex
  BY <1>5 DEF Speaks
<1>7. UseInv' /\ UseKept
  BY <1>1, <1>2, <1>3, <1>6, UseEnded DEF TurnInv
<1> QED
  BY <1>2, <1>3, <1>5, <1>7, TurnsOfSpeech

\* A process says something of no turn.
LEMMA TurnsOfTalk ==
    ASSUME BaseInv, TurnInv, NEW g \in Servers, UNCHANGED <<inbox, turns>>,
           NEW m \in Messages, Speaks(g, {m}), m.kind \notin {"answer", "started", "completed"}
    PROVE  TurnInv'
<1>1. PipeGrows(g, {m}) /\ UNCHANGED codex
  BY DEF Speaks
<1>2. Calmer /\ codex'.gen \in Nat /\ codex'.gen >= codex.gen
  BY <1>1, QuestionRows DEF Calmer
<1>3. UseInv' /\ UseKept
  <2>1. \E h \in Servers : \E M \in SUBSET Messages :
            PipeGrows(h, M) /\ \A x \in M : x.kind \notin {"started", "completed"}
    BY <1>1
  <2> QED
    BY <1>2, <2>1, UseCalm DEF TurnInv
<1> QED
  BY <1>3, TurnsOfSpeech

-----------------------------------------------------------------------------
\* A request is handled: what the process says.
ServeSays(g, r, M) ==
    /\ Speaks(g, M)
    /\ \A x \in M : x.kind = "answer" => x.n = r.id
    /\ \A x \in M : x.kind = "answer" /\ x.result = "ok" /\ r.rpc = "turn" => x.turn # 0
    /\ (\E x \in M : x.kind = "answer" /\ x.result # "ok") =>
           turns' = turns /\ \A x \in M : x.kind = "answer"

\* What a handled request leaves of the turns, and what the process says of it.
LEMMA ServeUse ==
    ASSUME BaseInv, UseInv, NEW g \in Servers, NEW r \in inbox[g], Serves(g, r)
    PROVE  /\ UseInv' /\ UseKept
           /\ \A h \in Servers : inbox'[h] \subseteq inbox[h]
           /\ \E M \in SUBSET Messages : ServeSays(g, r, M)
<1>1. /\ inbox'[g] = inbox[g] \ {r} /\ \A h \in Servers \ {g} : inbox'[h] = inbox[h]
      /\ ServesPlain(g, r) \/ ServesTurn(g, r) \/ ServesInterrupt(g, r)
  BY DEF Serves
<1>2. \A h \in Servers : inbox'[h] \subseteq inbox[h]
  BY <1>1
<1> DEFINE Goal == UseInv' /\ UseKept /\ \E M \in SUBSET Messages : ServeSays(g, r, M)
<1>3. ASSUME ServesPlain(g, r) PROVE Goal
  <2>1. PICK m \in Messages : /\ Speaks(g, {m}) /\ m.kind = "answer" /\ m.n = r.id
                              /\ r.rpc = "turn" => m.result # "ok"
    BY <1>3 DEF ServesPlain
  <2>2. UNCHANGED turns
    BY <1>3 DEF ServesPlain
  <2>3. PipeGrows(g, {m}) /\ UNCHANGED codex
    BY <2>1 DEF Speaks
  <2>4. Calmer /\ codex'.gen \in Nat /\ codex'.gen >= codex.gen
    BY <1>2, <2>2, <2>3, QuestionRows DEF Calmer
  <2>5. UseInv' /\ UseKept
    <3>1. \E h \in Servers : \E M \in SUBSET Messages :
              PipeGrows(h, M) /\ \A x \in M : x.kind \notin {"started", "completed"}
      BY <2>1, <2>3
    <3> QED
      BY <2>4, <3>1, UseCalm
  <2>6. ServeSays(g, r, {m})
    BY <2>1, <2>2 DEF ServeSays
  <2> QED
    BY <2>5, <2>6
<1>4. ASSUME ServesTurn(g, r) PROVE Goal
  <2>1. PICK t \in Turns, m \in Messages, n \in Messages :
            /\ m.kind = "answer" /\ m.n = r.id /\ m.result = "ok" /\ m.turn = t
            /\ n.kind = "started" /\ Speaks(g, {m, n})
    BY <1>4 DEF ServesTurn
  <2>2. t # 0
    BY CodexAssumption DEF Turns
  <2>3. ServeSays(g, r, {m, n})
    BY <2>1, <2>2 DEF ServeSays
  <2> QED
    BY <1>4, <2>3, UseServed
<1>5. ASSUME ServesInterrupt(g, r) PROVE Goal
  <2>1. PICK m \in Messages, n \in Messages :
            /\ m.kind = "answer" /\ m.n = r.id /\ m.result = "ok"
            /\ n.kind = "completed" /\ n.turn = r.turn /\ Speaks(g, {m, n})
    BY <1>5 DEF ServesInterrupt
  <2>2. PICK t \in Turns : t = r.turn /\ turns[t].gen = g /\ TurnEnded(t) /\ r.rpc = "interrupt"
    BY <1>5 DEF ServesInterrupt
  <2>3. ServeSays(g, r, {m, n})
    BY <2>1, <2>2 DEF ServeSays
  <2>4. PipeGrows(g, {m, n}) /\ UNCHANGED codex
    BY <2>1 DEF Speaks
  <2>5. \A x \in {m, n} : x.kind # "started" /\ (x.kind = "completed" => x.turn = t)
    BY <2>1, <2>2
  <2>6. UseInv' /\ UseKept
    BY <1>2, <2>2, <2>4, <2>5, UseEnded
  <2> QED
    BY <2>3, <2>6
<1> QED
  BY <1>1, <1>2, <1>3, <1>4, <1>5

\* The turn that was asked for begins, or nothing begins.
LEMMA AskServed ==
    ASSUME UseInv, NEW g \in Servers, NEW r \in inbox[g], Serves(g, r),
           NEW M \in SUBSET Messages, ServeSays(g, r, M),
           NEW s \in CThreads, AskTrue(g, r.id, s)
    PROVE  AskTrue(g, r.id, s)'
<1> DEFINE i == r.id
<1>1. r.rpc = "turn" /\ r.s = s /\ reply[i].result = "none"
      /\ \A m \in Said(g) : ~(m.kind = "answer" /\ m.n = i)
  BY DEF AskTrue
<1>2. inbox'[g] = inbox[g] \ {r} /\ UNCHANGED reply /\ Said(g)' = Said(g) \cup M
  BY DEF Serves, ServeSays, Speaks, PipeGrows
<1>3. Requested(g, s) /\ ~InUse(g, s) /\ ~Requested(g, s)'
  BY <1>1, <1>2 DEF UseInv, OneRequested, Requested
<1>4. \A o \in inbox'[g] : o.id # i /\ ~(o.rpc = "turn" /\ o.s = s)
  BY <1>2, <1>3 DEF Requested, AskTrue
<1>5. \A m \in Said(g)' : m.kind = "answer" /\ m.n = i => m \in M
  BY <1>1, <1>2
<1>6. \A m \in Said(g)' : m.kind = "answer" /\ m.n = i /\ m.result = "ok" => m.turn # 0
  BY <1>1, <1>5 DEF ServeSays
<1>7. Refused(g, i)' => ~Used(g, s)'
  <2>1. SUFFICES ASSUME Refused(g, i)' PROVE ~InUse(g, s)'
    BY <1>3 DEF Used
  <2>2. PICK m \in M : m.kind = "answer" /\ m.result # "ok"
    BY <1>1, <1>2, <1>5, <2>1 DEF Refused
  <2>3. turns' = turns /\ \A x \in M : x.kind = "answer"
    BY <2>2 DEF ServeSays
  <2> QED
    BY <1>2, <1>3, <2>3 DEF InUse, TurnRuns, TurnOf
<1> QED
  BY <1>1, <1>2, <1>4, <1>6, <1>7 DEF AskTrue

\* A request is handled.
LEMMA TurnsOfServe ==
    ASSUME BaseInv, TurnInv, NEW g \in Servers, NEW r \in inbox[g], Serves(g, r)
    PROVE  TurnInv'
<1>1. /\ UseInv' /\ UseKept
      /\ \A h \in Servers : inbox'[h] \subseteq inbox[h]
  BY ServeUse DEF TurnInv
<1>2. PICK M \in SUBSET Messages : ServeSays(g, r, M)
  BY ServeUse DEF TurnInv
<1>3. UNCHANGED <<codex, proc, active, ccall>> /\ Speaks(g, M)
  BY <1>2 DEF ServeSays, Speaks
<1>4. UseIsKnown' /\ StartersFree' /\ WaitsKept
  BY <1>1, <1>3, SpeakKnown
<1>5. ASSUME NEW h \in Servers, NEW i \in ReqIds, NEW s \in CThreads, AskTrue(h, i, s)
      PROVE  AskTrue(h, i, s)'
  <2>1. CASE h = g /\ i = r.id
    <3>1. AskTrue(g, r.id, s)'
      BY <1>2, <1>5, <2>1, AskServed DEF TurnInv
    <3>2. (\A o \in inbox'[g] : o.id = r.id <=> o.rpc = "turn" /\ o.s = s) <=>
          (\A o \in inbox'[g] : o.id = i <=> o.rpc = "turn" /\ o.s = s)
      BY <2>1
    <3> QED
      BY <2>1, <3>1, <3>2
  <2>2. CASE h # g \/ i # r.id
    <3>1. h = g => \A x \in M : ~(x.kind = "answer" /\ x.n = i)
      BY <1>2, <2>2 DEF ServeSays
    <3> QED
      BY <1>1, <1>3, <1>5, <3>1, AskSpoken
  <2> QED
    BY <2>1, <2>2
<1>6. StartersTrue'
  BY <1>4, <1>5, StartersStay DEF TurnInv
<1> QED
  BY <1>1, <1>4, <1>6 DEF TurnInv

-----------------------------------------------------------------------------
\* Every step keeps what is known of the turns, if no caller is cancelled.
LEMMA TurnsStay ==
    ASSUME BaseInv, RequestInv, TurnInv, "cancel" \notin CodexFaults, CodexStep
    PROVE  TurnInv'
<1>1. ASSUME NEW u \in Users, GoroutineStep(u) PROVE TurnInv'
  BY <1>1, TurnsOfCalls, TurnsOfSent, TurnsOfProcessed, TurnsOfQuestions
     DEF GoroutineStep, ClaimStep, AnswerStep, RemoveStep
<1>2. ASSUME NEW g \in Servers, ProcessStep(g) PROVE TurnInv'
  <2>1. ASSUME Settles(g) PROVE TurnInv'
    <3>1. PICK m \in Messages : m.kind \in {"resolved", "config"} /\ Speaks(g, {m})
      BY <2>1 DEF Settles
    <3> QED
      BY <2>1, <3>1, TurnsOfTalk DEF Settles
  <2> QED
    BY <1>2, <2>1, TurnsOfReader, TurnsOfFinish, TurnsOfExit, TurnsOfServe DEF ProcessStep
<1>3. ASSUME NEW t \in Turns, Asks(t) PROVE TurnInv'
  <2>1. PICK g \in Servers : g = turns[t].gen
    BY <1>3 DEF Asks
  <2>2. PICK m \in Messages : m.kind = "ask" /\ Speaks(turns[t].gen, {m})
    BY <1>3 DEF Asks
  <2>3. UNCHANGED <<inbox, turns>>
    BY <1>3 DEF Asks
  <2>4. Speaks(g, {m})
    BY <2>1, <2>2, <2>3, SpeaksOf
  <2> QED
    BY <2>2, <2>3, <2>4, TurnsOfTalk
<1>4. Processed(NoUser) => TurnInv'
  BY TurnsOfProcessed
<1> QED
  BY <1>1, <1>2, <1>3, <1>4, TurnsOfEnds DEF CodexStep

\* At first there is no turn.
LEMMA TurnsStart ==
    ASSUME CodexInit, \A g \in Servers : Said(g) = {}
    PROVE  TurnInv
<1>1. /\ \A g \in Servers : inbox[g] = {} /\ pipe[g] = <<>>
      /\ \A t \in Turns : turns[t].state = "none"
      /\ \A u \in Users : ~Starting(u)
  BY IdleRow DEF CodexInit, Starting
<1>2. \A g \in Servers, s \in CThreads : ~Used(g, s)
  BY <1>1 DEF Used, Requested, InUse, TurnRuns
<1>3. EndsLast
  <2>1. Len(<<>>) = 0
    OBVIOUS
  <2> QED
    BY <1>1, <2>1 DEF EndsLast, EndLast
<1>4. UseInv
  BY <1>1, <1>2, <1>3 DEF UseInv, MessagesKnown, OneRequested, Requested, OneRunning, TurnRuns
<1> QED
  BY <1>1, <1>2, <1>4 DEF TurnInv, UseIsKnown, StartersFree, StartersTrue, Starts

\* A thread has one turn.
LEMMA OneTurnRuns ==
    ASSUME BaseInv, TurnInv
    PROVE  OneTurnPerThread
<1>1. ASSUME NEW t \in Turns, NEW v \in Turns, turns[t].state = "running", turns[v].state = "running",
             turns[t].s = turns[v].s
      PROVE  t = v
  <2>1. /\ turns[t].gen \in Servers /\ turns[t].gen = codex.gen /\ turns[t].s \in CThreads
        /\ turns[v].gen = codex.gen
    BY <1>1 DEF BaseInv, RunningTrue
  <2>2. TurnRuns(t, turns[t].gen, turns[t].s) /\ TurnRuns(v, turns[t].gen, turns[t].s)
    BY <1>1, <2>1 DEF TurnRuns
  <2> QED
    BY <2>1, <2>2 DEF TurnInv, UseInv, OneRunning
<1> QED
  BY <1>1 DEF OneTurnPerThread

-----------------------------------------------------------------------------
\* What is known of the processes, the requests and the questions.
CodexInv == BaseInv /\ RequestInv /\ QuestionInv

\* Nothing happens.
LEMMA CodexStutters ==
    ASSUME UNCHANGED codexVars
    PROVE  (CodexInv => CodexInv') /\ (TurnInv => TurnInv')
<1>1. /\ UNCHANGED <<codex, proc, pend, reply, loaded, active, waiting, inbox, pipe, turns, posed>>
      /\ UNCHANGED <<tlock, ccall, answers>>
  BY DEF codexVars, serverVars, adapterVars
<1>2. \A g \in Servers : Said(g)' = Said(g)
  BY <1>1 DEF Said
<1>3. BaseInv => BaseInv'
  BY <1>1, <1>2 DEF BaseInv, CodexTypes, LocksTrue, LocksThread, ServerInv, GateHeld, Holds, ServersTrue,
     Publishing, InboxTrue, MessagesTrue, RunningTrue, WaitsTrue, Waits, Runs
<1>4. RequestInv => RequestInv'
  BY <1>1 DEF RequestInv, PendingTrue, WaitersTrue, Waits
<1>5. QuestionInv => QuestionInv'
  BY <1>1, <1>2 DEF QuestionInv, AsksTrue, QuestionsTrue, AskedOnce, Touched, Unasked, ClaimsTrue,
     First, ClaimTrue, Claims
<1>6. TurnInv => TurnInv'
  <2>1. \A g \in Servers, s \in CThreads : /\ Used(g, s)' <=> Used(g, s)
                                           /\ InUse(g, s)' <=> InUse(g, s)
                                           /\ Requested(g, s)' <=> Requested(g, s)
    BY <1>1, <1>2 DEF Used, InUse, Requested, TurnRuns
  <2>2. UseInv => UseInv'
    BY <1>1, <1>2, <2>1 DEF UseInv, MessagesKnown, EndsLast, OneRequested, OneRunning, TurnRuns
  <2>3. UseIsKnown /\ StartersFree => UseIsKnown' /\ StartersFree'
    BY <1>1, <2>1 DEF UseIsKnown, StartersFree, Opened, KnownUse, Starts, Starting
  <2>4. StartersTrue => StartersTrue'
    BY <1>1, <1>2, <2>1 DEF StartersTrue, Starts, Starting, AskTrue, Refused
  <2> QED
    BY <2>2, <2>3, <2>4 DEF TurnInv
<1> QED
  BY <1>3, <1>4, <1>5, <1>6 DEF CodexInv

\* The initial states and the steps.
LEMMA CodexInvStarts == CodexInit => CodexInv /\ TurnInv
BY BaseStarts, RequestsStart, QuestionsStart, TurnsStart DEF CodexInv
\* Every step keeps the invariant, and what is known of the turns if no caller is cancelled.
LEMMA CodexInvStays ==
    ASSUME CodexInv, [CodexNext]_codexVars
    PROVE  CodexInv' /\ ("cancel" \notin CodexFaults /\ TurnInv => TurnInv')
<1>1. CASE CodexNext
  <2>1. BaseInv' /\ CodexStep
    BY <1>1, BaseStays DEF CodexInv
  <2>2. codex' \in CodexRows
    BY <2>1 DEF BaseInv, CodexTypes
  <2>3. RequestInv' /\ QuestionInv'
    BY <2>1, <2>2, RequestsStay, QuestionsStay DEF CodexInv
  <2>4. "cancel" \notin CodexFaults /\ TurnInv => TurnInv'
    BY <2>1, TurnsStay DEF CodexInv
  <2> QED
    BY <2>1, <2>3, <2>4 DEF CodexInv
<1>2. CASE UNCHANGED codexVars
  BY <1>2, CodexStutters
<1> QED
  BY <1>1, <1>2

\* However requests time out, processes end and callers give up, one app-server
\* process runs at a time, nobody waits for an answer that can not come, and an
\* answer reaches the process that asked, once (quarantineProcess, readLoop,
\* finishProcess, respondPendingRequest).
THEOREM CodexStaysInOrder ==
    CodexSpec => [](OneAppServer /\ NoneWaitsForTheDead /\ AnsweredOnce)
<1>1. CodexInit => CodexInv
  BY CodexInvStarts
<1>2. CodexInv /\ [CodexNext]_codexVars => CodexInv'
  BY CodexInvStays
<1>3. CodexInv => OneAppServer /\ NoneWaitsForTheDead /\ AnsweredOnce
  BY OneProcess, NoneWaits, OneAnswer DEF CodexInv
<1> QED
  BY <1>1, <1>2, <1>3, PTL DEF CodexSpec

\* As long as no caller is cancelled while it asks for a turn, a thread has one
\* turn at a time as well (startTurn and its lock, handleNotification): whoever
\* asks for a turn has found none recorded, and a turn that the process began
\* is recorded, or its caller still waits for it.
THEOREM CodexStaysSound ==
    ASSUME "cancel" \notin CodexFaults
    PROVE  CodexSpec => []CodexIsSound
<1>1. CodexInit => CodexInv /\ TurnInv
  BY CodexInvStarts
<1>2. CodexInv /\ TurnInv /\ [CodexNext]_codexVars => CodexInv' /\ TurnInv'
  BY CodexInvStays
<1>3. CodexInv /\ TurnInv => CodexIsSound
  BY OneProcess, NoneWaits, OneAnswer, OneTurnRuns DEF CodexInv, CodexIsSound
<1> QED
  BY <1>1, <1>2, <1>3, PTL DEF CodexSpec

-----------------------------------------------------------------------------
(***************************************************************************)
(* The types: generations are those of the processes that were started,    *)
(* and an answer has one of the results that an answer may have.           *)
(***************************************************************************)
\* Generations are those of the processes started.
GensKnown ==
    /\ loaded \in [CThreads -> 0 .. MaxServers]
    /\ \A s \in CThreads : active[s].gen \in 0 .. MaxServers
    /\ \A q \in Questions : waiting[q].gen \in 0 .. MaxServers

\* loaded, at a step.
LEMMA LoadedKnown ==
    ASSUME CodexTypes, GensKnown, CodexNext
    PROVE  loaded' \in [CThreads -> 0 .. MaxServers]
<1>1. /\ codex.gen \in 0 .. MaxServers /\ 0 \in 0 .. MaxServers
      /\ loaded \in [CThreads -> 0 .. MaxServers]
  BY CodexAssumption DEF CodexTypes, CodexRows, GensKnown
<1>2. ASSUME NEW s, MarkThreadLoaded(s) \/ Forget(s) \/ UNCHANGED loaded
      PROVE  loaded' \in [CThreads -> 0 .. MaxServers]
  BY <1>1, <1>2 DEF MarkThreadLoaded, Forget
<1>3. ASSUME NEW u \in Users, CodexAnswers(u) PROVE loaded' \in [CThreads -> 0 .. MaxServers]
  <2>1. MarkThreadLoaded(ccall[u].s) \/ Forget(ccall[u].s) \/ UNCHANGED loaded
    BY <1>3 DEF CodexAnswers, EnsureStarted, PublishStartedProcess, Initialize, Initialized,
       InitializeLate, SendToServer, RequestOnTarget, GiveUp, ThreadResumed, TurnStarted,
       QueryAnswered, ThreadStarted, InterruptAnswered, Archived, Unarchived, Deleted,
       UnloadThreadForGeneration, Unloaded, WriteResponse, Responded, Write, adapterVars
  <2> QED
    BY <1>2, <2>1
<1>4. ASSUME NEW u, NEW s, CodexCalls(u, s) PROVE UNCHANGED loaded
  BY <1>4 DEF CodexCalls, StartCodexTurn, SteerTurn, StartThread, InterruptTurn, ArchiveThread,
     UnarchiveThread, DeleteThread, adapterVars
<1>5. ASSUME NEW u, NEW q, Query(u) \/ RespondPendingRequest(u, q) \/ CloseAdapter PROVE UNCHANGED loaded
  BY <1>5 DEF Query, RespondPendingRequest, CloseAdapter, adapterVars
<1>6. ASSUME NEW g \in Servers, ReadLoop(g) \/ Exit(g) \/ ConfigWarning(g)
      PROVE  UNCHANGED loaded
  BY <1>6 DEF ReadLoop, Exit, ConfigWarning, adapterVars
<1>7. ASSUME NEW g \in Servers, NEW r, Serve(g, r) PROVE UNCHANGED loaded
  BY <1>7 DEF Serve, adapterVars
<1>8. ASSUME NEW g \in Servers, NEW q, SettleQuestion(g, q) PROVE UNCHANGED loaded
  BY <1>8 DEF SettleQuestion, adapterVars
<1>9. ASSUME NEW t \in Turns, TurnEnds(t) \/ AskUser(t) PROVE UNCHANGED loaded
  BY <1>9 DEF TurnEnds, AskUser, adapterVars
<1>10. ASSUME NEW g \in Servers, FinishProcess(g) PROVE loaded' \in [CThreads -> 0 .. MaxServers]
  BY <1>1, <1>10 DEF FinishProcess
<1> QED
  BY <1>1, <1>3, <1>4, <1>5, <1>6, <1>7, <1>8, <1>9, <1>10 DEF CodexNext, CodexServer

\* activeTurns.
LEMMA ActiveKnown ==
    ASSUME CodexTypes, GensKnown, CodexNext
    PROVE  \A s \in CThreads : active'[s].gen \in 0 .. MaxServers
<1>1. /\ codex.gen \in 0 .. MaxServers /\ 0 \in 0 .. MaxServers /\ Servers \subseteq 0 .. MaxServers
      /\ DOMAIN active = CThreads /\ \A s \in CThreads : active[s].gen \in 0 .. MaxServers
  BY CodexAssumption DEF CodexTypes, CodexRows, GensKnown, Servers
<1>2. ASSUME NEW s, NEW x, x.gen \in 0 .. MaxServers, active' = [active EXCEPT ![s] = x]
      PROVE  \A v \in CThreads : active'[v].gen \in 0 .. MaxServers
  BY <1>1, <1>2
<1>3. ASSUME UNCHANGED active PROVE \A v \in CThreads : active'[v].gen \in 0 .. MaxServers
  BY <1>1, <1>3
<1>4. ASSUME NEW u \in Users, TurnStarted(u) PROVE \A v \in CThreads : active'[v].gen \in 0 .. MaxServers
  <2> DEFINE x == [turn |-> reply[ccall[u].id].turn, gen |-> codex.gen]
  <2>1. x.gen \in 0 .. MaxServers
    BY <1>1
  <2>2. active' = active \/ active' = [active EXCEPT ![ccall[u].s] = x]
    BY <1>4 DEF TurnStarted
  <2> HIDE DEF x
  <2> QED
    BY <1>2, <1>3, <2>1, <2>2
<1>5. ASSUME NEW u \in Users, CodexAnswers(u), ~TurnStarted(u) PROVE UNCHANGED active
  BY <1>5 DEF CodexAnswers, EnsureStarted, PublishStartedProcess, Initialize, Initialized,
       InitializeLate, SendToServer, RequestOnTarget, GiveUp, ThreadResumed,
       QueryAnswered, ThreadStarted, InterruptAnswered, Archived, Unarchived, Deleted,
       UnloadThreadForGeneration, Unloaded, WriteResponse, Responded, Write, adapterVars
<1>6. ASSUME NEW u, NEW s, CodexCalls(u, s) PROVE UNCHANGED active
  BY <1>6 DEF CodexCalls, StartCodexTurn, SteerTurn, StartThread, InterruptTurn, ArchiveThread,
     UnarchiveThread, DeleteThread, adapterVars
<1>7. ASSUME NEW u, NEW q, Query(u) \/ RespondPendingRequest(u, q) \/ CloseAdapter PROVE UNCHANGED active
  BY <1>7 DEF Query, RespondPendingRequest, CloseAdapter, adapterVars
<1>8. ASSUME NEW g \in Servers, Exit(g) \/ ConfigWarning(g) PROVE UNCHANGED active
  BY <1>8 DEF Exit, ConfigWarning, adapterVars
<1>9. ASSUME NEW g \in Servers, NEW r, Serve(g, r) PROVE UNCHANGED active
  BY <1>9 DEF Serve, adapterVars
<1>10. ASSUME NEW g \in Servers, NEW q, SettleQuestion(g, q) PROVE UNCHANGED active
  BY <1>10 DEF SettleQuestion, adapterVars
<1>11. ASSUME NEW t \in Turns, TurnEnds(t) \/ AskUser(t) PROVE UNCHANGED active
  BY <1>11 DEF TurnEnds, AskUser, adapterVars
<1>12. ASSUME NEW g \in Servers, FinishProcess(g)
       PROVE  \A v \in CThreads : active'[v].gen \in 0 .. MaxServers
  BY <1>1, <1>12 DEF FinishProcess
<1>13. ASSUME NEW g \in Servers, ReadLoop(g)
       PROVE  \A v \in CThreads : active'[v].gen \in 0 .. MaxServers
  <2> DEFINE m == Head(pipe[g])
             x == [turn |-> m.turn, gen |-> g]
             none == [turn |-> 0, gen |-> 0]
  <2>1. x.gen \in 0 .. MaxServers /\ none.gen \in 0 .. MaxServers
    BY <1>1
  <2>2. \/ active' = active
        \/ active' = [active EXCEPT ![turns[m.turn].s] = x]
        \/ active' = [active EXCEPT ![turns[m.turn].s] = none]
    BY <1>13 DEF ReadLoop, Began, Ended, adapterVars
  <2> HIDE DEF x, none
  <2> QED
    BY <1>2, <1>3, <2>1, <2>2
<1> QED
  BY <1>3, <1>4, <1>5, <1>6, <1>7, <1>8, <1>9, <1>10, <1>11, <1>12, <1>13 DEF CodexNext, CodexServer

\* serverRequests.
LEMMA WaitingKnown ==
    ASSUME CodexTypes, GensKnown, CodexNext
    PROVE  \A q \in Questions : waiting'[q].gen \in 0 .. MaxServers
<1>1. /\ 0 \in 0 .. MaxServers /\ Servers \subseteq 0 .. MaxServers
      /\ waiting \in [Questions -> WaitingRows]
      /\ \A q \in Questions : waiting[q].gen \in 0 .. MaxServers
  BY CodexAssumption DEF CodexTypes, WaitingRows, GensKnown, Servers
<1>2. ASSUME NEW q, NEW x, x.gen \in 0 .. MaxServers, waiting' = [waiting EXCEPT ![q] = x]
      PROVE  \A p \in Questions : waiting'[p].gen \in 0 .. MaxServers
  BY <1>1, <1>2
<1>3. ASSUME UNCHANGED waiting PROVE \A p \in Questions : waiting'[p].gen \in 0 .. MaxServers
  BY <1>1, <1>3
<1>4. ASSUME NEW q, NEW b \in BOOLEAN, waiting' = [waiting EXCEPT ![q].responding = b]
      PROVE  \A p \in Questions : waiting'[p].gen \in 0 .. MaxServers
  BY <1>1, <1>4 DEF WaitingRows
<1>5. NoQuestion.gen \in 0 .. MaxServers
  BY <1>1 DEF NoQuestion
<1>6. ASSUME NEW u, WriteResponse(u) \/ Responded(u)
      PROVE  \A p \in Questions : waiting'[p].gen \in 0 .. MaxServers
  <2>1. \/ UNCHANGED waiting
        \/ waiting' = [waiting EXCEPT ![ccall[u].id].responding = FALSE]
        \/ waiting' = [waiting EXCEPT ![ccall[u].id] = NoQuestion]
    BY <1>6 DEF WriteResponse, Responded
  <2> QED
    BY <1>2, <1>3, <1>4, <1>5, <2>1
<1>7. ASSUME NEW u \in Users, CodexAnswers(u), ~WriteResponse(u), ~Responded(u)
      PROVE  UNCHANGED waiting
  BY <1>7 DEF CodexAnswers, EnsureStarted, PublishStartedProcess, Initialize, Initialized,
       InitializeLate, SendToServer, RequestOnTarget, GiveUp, ThreadResumed, TurnStarted,
       QueryAnswered, ThreadStarted, InterruptAnswered, Archived, Unarchived, Deleted,
       UnloadThreadForGeneration, Unloaded, Write, adapterVars
<1>8. ASSUME NEW u, NEW s, CodexCalls(u, s) PROVE UNCHANGED waiting
  BY <1>8 DEF CodexCalls, StartCodexTurn, SteerTurn, StartThread, InterruptTurn, ArchiveThread,
     UnarchiveThread, DeleteThread, adapterVars
<1>9. ASSUME NEW u, Query(u) \/ CloseAdapter PROVE UNCHANGED waiting
  BY <1>9 DEF Query, CloseAdapter, adapterVars
<1>10. ASSUME NEW u, NEW q, RespondPendingRequest(u, q)
       PROVE  \A p \in Questions : waiting'[p].gen \in 0 .. MaxServers
  BY <1>4, <1>10 DEF RespondPendingRequest
<1>11. ASSUME NEW g \in Servers, Exit(g) \/ ConfigWarning(g) PROVE UNCHANGED waiting
  BY <1>11 DEF Exit, ConfigWarning, adapterVars
<1>12. ASSUME NEW g \in Servers, NEW r, Serve(g, r) PROVE UNCHANGED waiting
  BY <1>12 DEF Serve, adapterVars
<1>13. ASSUME NEW g \in Servers, NEW q, SettleQuestion(g, q) PROVE UNCHANGED waiting
  BY <1>13 DEF SettleQuestion, adapterVars
<1>14. ASSUME NEW t \in Turns, TurnEnds(t) \/ AskUser(t) PROVE UNCHANGED waiting
  BY <1>14 DEF TurnEnds, AskUser, adapterVars
<1>15. ASSUME NEW g \in Servers, FinishProcess(g)
       PROVE  \A p \in Questions : waiting'[p].gen \in 0 .. MaxServers
  BY <1>1, <1>5, <1>15 DEF FinishProcess
<1>16. ASSUME NEW g \in Servers, ReadLoop(g)
       PROVE  \A p \in Questions : waiting'[p].gen \in 0 .. MaxServers
  <2> DEFINE m == Head(pipe[g])
             x == [gen |-> g, turn |-> m.turn, responding |-> FALSE]
  <2>1. x.gen \in 0 .. MaxServers
    BY <1>1
  <2>2. \/ waiting' = waiting
        \/ waiting' = [waiting EXCEPT ![m.n] = x]
        \/ waiting' = [waiting EXCEPT ![m.n] = IF @.gen = g THEN NoQuestion ELSE @]
    BY <1>16 DEF ReadLoop, Asked, adapterVars
  <2> HIDE DEF x, m
  <2>3. ASSUME waiting' = [waiting EXCEPT ![m.n] = IF @.gen = g THEN NoQuestion ELSE @]
        PROVE  \A p \in Questions : waiting'[p].gen \in 0 .. MaxServers
    BY <1>1, <1>5, <2>3
  <2> QED
    BY <1>2, <1>3, <2>1, <2>2, <2>3
<1> QED
  BY <1>3, <1>6, <1>7, <1>8, <1>9, <1>10, <1>11, <1>12, <1>13, <1>14, <1>15, <1>16
     DEF CodexNext, CodexServer

\* The adapter starts typed, stays typed, and is.
LEMMA CodexTypedIs ==
    /\ CodexInit => CodexInv /\ GensKnown
    /\ CodexInv /\ GensKnown /\ [CodexNext]_codexVars => (CodexInv /\ GensKnown)'
    /\ CodexInv /\ GensKnown => CodexTypeOK
<1>1. ASSUME CodexInit PROVE CodexInv /\ GensKnown
  BY <1>1, CodexInvStarts, CodexAssumption DEF CodexInit, GensKnown, NoQuestion
<1>2. ASSUME CodexInv, GensKnown, [CodexNext]_codexVars PROVE (CodexInv /\ GensKnown)'
  <2>1. CodexInv'
    BY <1>2, CodexInvStays
  <2>2. CodexTypes
    BY <1>2 DEF CodexInv, BaseInv
  <2>3. CASE UNCHANGED codexVars
    BY <1>2, <2>1, <2>3 DEF codexVars, adapterVars, GensKnown
  <2>4. CASE CodexNext
    BY <1>2, <2>1, <2>2, <2>4, LoadedKnown, ActiveKnown, WaitingKnown DEF GensKnown
  <2> QED
    BY <1>2, <2>3, <2>4
<1>3. ASSUME CodexInv, GensKnown PROVE CodexTypeOK
  <2>1. CodexTypes /\ GensKnown /\ PendingTrue
    BY <1>3 DEF CodexInv, BaseInv, RequestInv
  <2>2. codex.gen \in 0 .. MaxServers /\ 0 \in 0 .. MaxServers
    BY <2>1, CodexAssumption DEF CodexTypes, CodexRows
  <2>3. pend \in [ReqIds -> 0 .. MaxServers]
    <3>1. pend \in [ReqIds -> Nat] /\ \A i \in ReqIds : pend[i] \in {0, codex.gen}
      BY <2>1 DEF CodexTypes, PendingTrue
    <3> QED
      BY <2>2, <3>1
  <2>4. active \in [CThreads -> [turn : 0 .. MaxTurns, gen : 0 .. MaxServers]]
    <3>1. /\ active \in [CThreads -> [turn : TurnNos, gen : Nat]]
          /\ \A s \in CThreads : active[s].gen \in 0 .. MaxServers
      BY <2>1 DEF CodexTypes, GensKnown
    <3>2. \A s \in CThreads : active[s] \in [turn : 0 .. MaxTurns, gen : 0 .. MaxServers]
      BY <3>1 DEF TurnNos
    <3> QED
      BY <3>1, <3>2
  <2>5. waiting \in [Questions -> [gen : 0 .. MaxServers, turn : 0 .. MaxTurns, responding : BOOLEAN]]
    <3>1. /\ waiting \in [Questions -> [gen : Nat, turn : TurnNos, responding : BOOLEAN]]
          /\ \A q \in Questions : waiting[q].gen \in 0 .. MaxServers
      BY <2>1 DEF CodexTypes, GensKnown
    <3>2. \A q \in Questions : waiting[q] \in [gen : 0 .. MaxServers, turn : 0 .. MaxTurns, responding : BOOLEAN]
      BY <3>1 DEF TurnNos
    <3> QED
      BY <3>1, <3>2
  <2>6. \A u \in Users : ccall[u].op \in COps /\ ccall[u].rpc \in CRpcs
    BY <2>1 DEF CodexTypes, CallRows
  <2>7. reply \in [ReqIds -> [result : CResults, turn : 0 .. MaxTurns]]
    BY <2>1 DEF CodexTypes, Replies, TurnNos
  <2>8. /\ codex \in CodexRows /\ proc \in [Servers -> ProcStates]
        /\ loaded \in [CThreads -> 0 .. MaxServers]
        /\ tlock \in [CThreads -> Users \cup {NoUser}]
    BY <2>1 DEF CodexTypes, GensKnown
  <2> QED
    BY <2>3, <2>4, <2>5, <2>6, <2>7, <2>8 DEF CodexTypeOK, CodexRows, ProcStates
<1> QED
  BY <1>1, <1>2, <1>3
================================================================================
