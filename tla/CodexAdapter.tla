------------------------------ MODULE CodexAdapter ------------------------------
(***************************************************************************)
(* The Codex adapter of the Node (agent/codex_adapter.go): it starts one   *)
(* app-server process at a time, numbers the processes (generations),      *)
(* sends requests on standard input, matches the answers that its reader   *)
(* finds on standard output, keeps the threads loaded and the turns active *)
(* in the current process, and passes the questions of the process on.     *)
(*                                                                         *)
(* The app-server is external: it takes the requests of its inbox in any   *)
(* order, its messages are read in the order written.  A stop closes the   *)
(* input of the process; whether it then ends by itself or is killed, and  *)
(* how long the stop waits, makes no difference here.  Parameters and      *)
(* texts are left out; a thread, a turn and a question are numbers.        *)
(***************************************************************************)
EXTENDS Integers, Sequences, FiniteSets

CONSTANTS
    CThreads,     \* threads
    CCallers,     \* goroutines that use the adapter
    CUnloaders,   \* goroutines started by turn/completed
    CodexOps,     \* bound: the operations that the callers use
    MaxServers,   \* bound: processes started
    MaxRequests,  \* bound: requests sent
    MaxTurns,     \* bound: turns
    MaxQuestions, \* bound: questions of one process
    MaxWaiting,   \* the limit of serverRequests, 64
    CodexFaults   \* "exit": the app-server ends by itself; "slow": a request
                  \* meets its deadline; "cancel": a caller is cancelled;
                  \* "config": a configuration warning

Users == CCallers \cup CUnloaders
NoUser == "nobody"
NoThread == "no thread"

ASSUME CodexAssumption ==
    /\ CCallers \cap CUnloaders = {} /\ NoUser \notin Users /\ NoThread \notin CThreads
    /\ MaxServers \in Nat /\ MaxRequests \in Nat /\ MaxTurns \in Nat
    /\ MaxQuestions \in Nat /\ MaxWaiting \in Nat
    /\ CodexFaults \subseteq {"exit", "slow", "cancel", "config"}

Servers == 1..MaxServers
ReqIds == 1..MaxRequests
Turns == 1..MaxTurns
Questions == 1..MaxQuestions
CRpcs == {"none", "initialize", "thread", "resume", "turn", "interrupt", "archive",
          "unarchive", "delete", "unsubscribe", "query"}
COps == {"none", "query", "create", "turn", "steer", "interrupt", "archive",
         "unarchive", "delete", "respond", "unload"}
CResults == {"none", "ok", "error", "missing", "early", "exited"}
Message(kind, n, t, result) == [kind |-> kind, n |-> n, turn |-> t, result |-> result]
Answer(result, t) == [result |-> result, turn |-> t]
NoAnswer == Answer("none", 0)
NoQuestion == [gen |-> 0, turn |-> 0, responding |-> FALSE]
IdleCall == [op |-> "none", step |-> "idle", rpc |-> "none", s |-> NoThread,
             id |-> 0, gen |-> 0, turn |-> 0]

VARIABLES
    codex,     \* the adapter: generation, current process or not, flags, the
               \* holder of startGate, nextID
    proc,      \* the process of each generation
    inbox,     \* external: requests that a process has yet to handle
    pipe,      \* messages on the standard output of a process
    pend,      \* CodexAdapter.pending: the generation of a request
    reply,     \* the channel of a request
    loaded,    \* loaded and loadedGeneration: a generation, or 0
    active,    \* activeTurns and activeTurnGeneration
    waiting,   \* serverRequests
    tlock,     \* the lock of lockSessionLoad
    ccall,     \* what a goroutine does
    turns,     \* external: the turns of the app-servers
    subs,      \* external: the threads that a process has in memory
    known,     \* external: the threads stored
    posed,     \* external: questions that a process has asked
    answers    \* history: the answers that a question got

serverVars == <<proc, inbox, pipe, turns, subs, known, posed>>
adapterVars == <<codex, pend, reply, loaded, active, waiting>>
codexVars == <<serverVars, adapterVars, tlock, ccall, answers>>

CodexTypeOK ==
    /\ codex \in [gen : 0..MaxServers, cur : BOOLEAN, quarantined : BOOLEAN,
                  configErr : BOOLEAN, closed : BOOLEAN, gate : Users \cup {NoUser},
                  nextID : 0..MaxRequests]
    /\ proc \in [Servers -> {"none", "live", "closing", "dead", "reaped"}]
    /\ pend \in [ReqIds -> 0..MaxServers]
    /\ reply \in [ReqIds -> [result : CResults, turn : 0..MaxTurns]]
    /\ loaded \in [CThreads -> 0..MaxServers]
    /\ active \in [CThreads -> [turn : 0..MaxTurns, gen : 0..MaxServers]]
    /\ waiting \in [Questions -> [gen : 0..MaxServers, turn : 0..MaxTurns,
                                  responding : BOOLEAN]]
    /\ tlock \in [CThreads -> Users \cup {NoUser}]
    /\ \A u \in Users : ccall[u].op \in COps /\ ccall[u].rpc \in CRpcs

CodexInit ==
    /\ codex = [gen |-> 0, cur |-> FALSE, quarantined |-> FALSE, configErr |-> FALSE,
                closed |-> FALSE, gate |-> NoUser, nextID |-> 0]
    /\ proc = [g \in Servers |-> "none"]
    /\ inbox = [g \in Servers |-> {}] /\ pipe = [g \in Servers |-> <<>>]
    /\ pend = [i \in ReqIds |-> 0] /\ reply = [i \in ReqIds |-> NoAnswer]
    /\ loaded = [s \in CThreads |-> 0]
    /\ active = [s \in CThreads |-> [turn |-> 0, gen |-> 0]]
    /\ waiting = [q \in Questions |-> NoQuestion]
    /\ tlock = [s \in CThreads |-> NoUser]
    /\ ccall = [u \in Users |-> IdleCall]
    /\ turns = [t \in Turns |-> [s |-> NoThread, gen |-> 0, state |-> "none"]]
    /\ subs = [g \in Servers |-> {}] /\ known \in SUBSET CThreads
    /\ posed = [g \in Servers |-> 0]
    /\ answers = [g \in Servers |-> [q \in Questions |-> 0]]

-----------------------------------------------------------------------------
(***************************************************************************)
(* The current process, its start and its stop.                            *)
(***************************************************************************)
\* isCurrentGenerationLocked.
IsCurrent(g) == codex.gen = g /\ ~codex.quarantined /\ codex.cur

At(u, step) == ccall[u].step = step
To(u, step) == ccall' = [ccall EXCEPT ![u].step = step]
\* The request r is to be made; ensureStarted comes first.
Ask(u, r) == ccall' = [ccall EXCEPT ![u].step = "gate", ![u].rpc = r]

\* The call returns and gives its lock back.
Returns(u) ==
    /\ ccall' = [ccall EXCEPT ![u] = IdleCall]
    /\ tlock' = [s \in CThreads |-> IF tlock[s] = u THEN NoUser ELSE tlock[s]]

\* stopProcessTarget: the input of the process is closed.
Stopped(g) == [proc EXCEPT ![g] = IF @ = "live" THEN "closing" ELSE @]

\* Mutant: a quarantined process is not waited for.
EnsureStartedAtOnce(u) ==
    /\ At(u, "gate") /\ codex.gate \in {NoUser, u} /\ ~codex.closed
    /\ IF codex.cur /\ ~codex.quarantined
       THEN /\ codex' = [codex EXCEPT !.gate = NoUser] /\ To(u, "send")
            /\ UNCHANGED <<serverVars, tlock>>
       ELSE /\ codex.gen < MaxServers
            /\ codex' = [codex EXCEPT !.gate = u] /\ To(u, "publish")
            /\ proc' = [proc EXCEPT ![codex.gen + 1] = "live"]
            /\ UNCHANGED <<inbox, pipe, turns, subs, known, posed, tlock>>
    /\ UNCHANGED <<pend, reply, loaded, active, waiting, answers>>

\* The adapter is closed, the process runs, the previous one is awaited, or a
\* new one is started.
EnsureStarted(u) ==
    /\ At(u, "gate") /\ codex.gate \in {NoUser, u}
    /\ \/ /\ codex.closed \/ (codex.cur /\ codex.quarantined)
          /\ codex' = [codex EXCEPT !.gate = NoUser] /\ Returns(u)
          /\ UNCHANGED serverVars
       \/ /\ ~codex.closed /\ codex.cur /\ ~codex.quarantined
          /\ codex' = [codex EXCEPT !.gate = NoUser] /\ To(u, "send")
          /\ UNCHANGED <<serverVars, tlock>>
       \/ /\ ~codex.closed /\ codex.cur /\ codex.quarantined /\ codex.gate # u
          /\ codex' = [codex EXCEPT !.gate = u]
          /\ UNCHANGED <<serverVars, tlock, ccall>>
       \/ /\ ~codex.closed /\ ~codex.cur /\ codex.gen < MaxServers
          /\ codex' = [codex EXCEPT !.gate = u] /\ To(u, "publish")
          /\ proc' = [proc EXCEPT ![codex.gen + 1] = "live"]
          /\ UNCHANGED <<inbox, pipe, turns, subs, known, posed, tlock>>
    /\ UNCHANGED <<pend, reply, loaded, active, waiting, answers>>

\* publishStartedProcess; a process of a closed adapter is killed.
PublishStartedProcess(u) ==
    /\ At(u, "publish")
    /\ IF codex.closed
       THEN /\ codex' = [codex EXCEPT !.gate = NoUser] /\ Returns(u)
            /\ proc' = [proc EXCEPT ![codex.gen + 1] = "reaped"]
       ELSE /\ codex' = [codex EXCEPT !.gen = @ + 1, !.cur = TRUE,
                                      !.quarantined = FALSE, !.configErr = FALSE]
            /\ To(u, "hello") /\ UNCHANGED <<proc, tlock>>
    /\ UNCHANGED <<inbox, pipe, turns, subs, known, posed, pend, reply, loaded,
                   active, waiting, answers>>

\* stopProcess(cmd): only while cmd is the current process.
StopProcess(g) == IF codex.cur /\ codex.gen = g THEN Stopped(g) ELSE proc

\* quarantineProcess of the generation g.
QuarantineProcess(g) ==
    IF ~codex.closed /\ IsCurrent(g)
    THEN codex' = [codex EXCEPT !.quarantined = TRUE] /\ proc' = Stopped(g)
    ELSE UNCHANGED <<codex, proc>>

\* The request u makes is registered and written; the write fails when the
\* input is closed or the process has ended.
Write(u, r, g, step) ==
    LET id == codex.nextID + 1 IN
    /\ codex.nextID < MaxRequests
    /\ codex' = [codex EXCEPT !.nextID = id]
    /\ proc[g] = "live"
    /\ pend' = [pend EXCEPT ![id] = g]
    /\ inbox' = [inbox EXCEPT ![g] = @ \cup {[id |-> id, rpc |-> r, s |-> ccall[u].s,
                                             turn |-> ccall[u].turn]}]
    /\ ccall' = [ccall EXCEPT ![u].step = step, ![u].id = id, ![u].gen = g]
    /\ UNCHANGED <<proc, pipe, turns, subs, known, posed, reply, loaded, active,
                   waiting, tlock, answers>>

\* ensureStarted sends initialize.
Initialize(u) ==
    /\ At(u, "hello")
    /\ \/ codex.cur /\ ~codex.configErr /\ Write(u, "initialize", codex.gen, "init")
       \/ /\ ~codex.cur \/ codex.configErr \/ proc[codex.gen] # "live"
          /\ codex' = [codex EXCEPT !.gate = NoUser] /\ Returns(u)
          /\ proc' = StopProcess(codex.gen)
          /\ UNCHANGED <<inbox, pipe, turns, subs, known, posed, pend, reply, loaded,
                         active, waiting, answers>>

\* The end of ensureStarted: initialized is written, or the process is stopped.
Initialized(u) ==
    LET g == ccall[u].gen IN
    /\ At(u, "init") /\ reply[ccall[u].id] # NoAnswer
    /\ codex' = [codex EXCEPT !.gate = NoUser]
    /\ IF reply[ccall[u].id].result = "ok" /\ ~codex.configErr /\ proc[g] = "live"
       THEN To(u, "send") /\ UNCHANGED <<proc, tlock>>
       ELSE proc' = StopProcess(g) /\ Returns(u)
    /\ UNCHANGED <<inbox, pipe, turns, subs, known, posed, pend, reply, loaded,
                   active, waiting, answers>>

\* The deadline of initialize: the process is quarantined and stopped.
InitializeLate(u) ==
    LET g == ccall[u].gen IN
    /\ "slow" \in CodexFaults /\ At(u, "init")
    /\ pend' = [pend EXCEPT ![ccall[u].id] = 0]
    /\ codex' = [codex EXCEPT !.gate = NoUser,
                              !.quarantined = @ \/ (~codex.closed /\ IsCurrent(g))]
    /\ proc' = StopProcess(g) /\ Returns(u)
    /\ UNCHANGED <<inbox, pipe, turns, subs, known, posed, reply, loaded, active,
                   waiting, answers>>

-----------------------------------------------------------------------------
(***************************************************************************)
(* Requests.                                                               *)
(***************************************************************************)
\* request, up to the write.
SendToServer(u) ==
    /\ At(u, "send")
    /\ \/ codex.cur /\ ~codex.configErr /\ Write(u, ccall[u].rpc, codex.gen, "wait")
       \/ /\ ~codex.cur \/ codex.configErr \/ proc[codex.gen] # "live"
          /\ Returns(u) /\ UNCHANGED <<serverVars, adapterVars, answers>>

\* requestOnTarget: only through the process of the generation.
RequestOnTarget(u) ==
    LET g == ccall[u].gen IN
    /\ At(u, "target")
    /\ \/ IsCurrent(g) /\ Write(u, "unsubscribe", g, "wait")
       \/ /\ ~IsCurrent(g) \/ proc[g] # "live"
          /\ Returns(u) /\ UNCHANGED <<serverVars, adapterVars, answers>>

\* The caller is gone, or its deadline has passed: then request quarantines the
\* generation of the request, and requestOnTarget does not.
GiveUp(u) ==
    /\ At(u, "wait")
    /\ pend' = [pend EXCEPT ![ccall[u].id] = 0] /\ Returns(u)
    /\ \/ "cancel" \in CodexFaults /\ UNCHANGED <<codex, proc>>
       \/ /\ "slow" \in CodexFaults
          /\ IF ccall[u].op = "unload" THEN UNCHANGED <<codex, proc>>
             ELSE QuarantineProcess(ccall[u].gen)
    /\ UNCHANGED <<inbox, pipe, turns, subs, known, posed, reply, loaded, active,
                   waiting, answers>>

\* handleRPCMessageForGeneration, an answer: only a request of the same
\* generation that still waits gets it.
Delivered(g, m) ==
    IF pend[m.n] = g
    THEN /\ pend' = [pend EXCEPT ![m.n] = 0]
         /\ reply' = [reply EXCEPT ![m.n] = Answer(m.result, m.turn)]
    ELSE UNCHANGED <<pend, reply>>

-----------------------------------------------------------------------------
(***************************************************************************)
(* The operations.  A call that has its answer goes on as its operation    *)
(* says; the lock of a thread is held from the first step to the last.     *)
(***************************************************************************)
\* The answer that the call u has got for its request r.
Got(u, r) == IF At(u, "wait") /\ ccall[u].rpc = r THEN reply[ccall[u].id].result ELSE "none"
Gone(result) == result = "missing"

\* markThreadLoaded: the generation is read when the answer has come.
MarkThreadLoaded(s) == loaded' = [loaded EXCEPT ![s] = codex.gen]
Forget(s) == loaded' = [loaded EXCEPT ![s] = 0]

New(op, s) == [IdleCall EXCEPT !.op = op, !.s = s]
Idle(u) == At(u, "idle")
Locks(u, s) == tlock[s] = NoUser /\ tlock' = [tlock EXCEPT ![s] = u]

\* ensureThreadLoadedLocked, before the request r; "none" stands for no request.
EnsureThreadLoadedLocked(u, op, s, r) ==
    ccall' = [ccall EXCEPT ![u] =
        [New(op, s) EXCEPT !.step = "gate", !.rpc = IF loaded[s] = codex.gen /\ codex.gen > 0
                                                    THEN r ELSE "resume"]]

\* Mutant: the lock is given back before the turn is recorded.
StartTurnUnlocked(u, s) ==
    /\ Idle(u) /\ tlock[s] = NoUser
    /\ active[s].turn = 0
    /\ EnsureThreadLoadedLocked(u, "turn", s, "turn")
    /\ UNCHANGED <<serverVars, adapterVars, tlock, answers>>

\* StartTurnWithOptions: the lock, the check for an active turn, the load.
StartCodexTurn(u, s) ==
    /\ Idle(u) /\ tlock[s] = NoUser
    /\ active[s].turn = 0
    /\ Locks(u, s) /\ EnsureThreadLoadedLocked(u, "turn", s, "turn")
    /\ UNCHANGED <<serverVars, adapterVars, answers>>

\* Mutant: the answer is not recorded, only turn/started is.
TurnForgotten(u) ==
    /\ Got(u, "turn") # "none"
    /\ Returns(u)
    /\ UNCHANGED <<serverVars, codex, pend, reply, loaded, active, waiting, answers>>

\* StartTurnWithOptions has the answer of turn/start: the turn is recorded with
\* the generation that is current now, if one is.
TurnStarted(u) ==
    /\ Got(u, "turn") # "none"
    /\ active' = IF Got(u, "turn") = "ok" /\ ~codex.configErr /\ IsCurrent(codex.gen)
                 THEN [active EXCEPT ![ccall[u].s] = [turn |-> reply[ccall[u].id].turn,
                                                      gen  |-> codex.gen]]
                 ELSE active
    /\ Returns(u)
    /\ UNCHANGED <<serverVars, codex, pend, reply, loaded, waiting, answers>>

\* ensureThreadLoadedLocked has its answer; SteerTurn and StartReview give the
\* lock back here.
ThreadResumed(u) ==
    LET op == ccall[u].op IN
    /\ Got(u, "resume") # "none"
    /\ IF Got(u, "resume") = "ok" /\ ~codex.configErr
       THEN /\ MarkThreadLoaded(ccall[u].s)
            /\ CASE op = "turn" -> Ask(u, "turn") /\ UNCHANGED tlock
                 [] op = "archive" -> Ask(u, "archive") /\ UNCHANGED tlock
                 [] op = "steer" -> /\ Ask(u, "query")
                                    /\ tlock' = [tlock EXCEPT ![ccall[u].s] = NoUser]
                 [] OTHER -> Returns(u)
       ELSE Returns(u) /\ UNCHANGED loaded
    /\ UNCHANGED <<serverVars, codex, pend, reply, active, waiting, answers>>

\* SteerTurn, and StartReview with another request; a loaded thread needs no lock
\* beyond the check.
SteerTurn(u, s) ==
    /\ Idle(u) /\ tlock[s] = NoUser
    /\ EnsureThreadLoadedLocked(u, "steer", s, "query")
    /\ tlock' = [tlock EXCEPT ![s] = IF ccall'[u].rpc = "resume" THEN u ELSE @]
    /\ UNCHANGED <<serverVars, adapterVars, answers>>

\* The calls that only ask the app-server something.
Query(u) ==
    /\ Idle(u)
    /\ ccall' = [ccall EXCEPT ![u] = [New("query", NoThread) EXCEPT !.step = "gate",
                                                                    !.rpc = "query"]]
    /\ UNCHANGED <<serverVars, adapterVars, tlock, answers>>

QueryAnswered(u) ==
    /\ Got(u, "query") # "none" /\ Returns(u)
    /\ UNCHANGED <<serverVars, adapterVars, answers>>

\* StartThreadWithOptions and ForkThread; the thread has no identifier, and so
\* no lock, before the answer.
StartThread(u, s) ==
    /\ Idle(u) /\ s \notin known /\ \A v \in Users : ccall[v].s # s
    /\ ccall' = [ccall EXCEPT ![u] = [New("create", s) EXCEPT !.step = "gate",
                                                              !.rpc = "thread"]]
    /\ UNCHANGED <<serverVars, adapterVars, tlock, answers>>

ThreadStarted(u) ==
    /\ Got(u, "thread") # "none"
    /\ IF Got(u, "thread") = "ok" /\ ~codex.configErr
       THEN MarkThreadLoaded(ccall[u].s) ELSE UNCHANGED loaded
    /\ Returns(u)
    /\ UNCHANGED <<serverVars, codex, pend, reply, active, waiting, answers>>

\* InterruptTurn takes the active turn; a refusal because the turn is not there
\* yet is tried again while the turn is still active.
InterruptTurn(u, s) ==
    /\ Idle(u) /\ active[s].turn # 0
    /\ ccall' = [ccall EXCEPT ![u] = [New("interrupt", s) EXCEPT
                     !.step = "gate", !.rpc = "interrupt", !.turn = active[s].turn]]
    /\ UNCHANGED <<serverVars, adapterVars, tlock, answers>>

InterruptAnswered(u) ==
    /\ Got(u, "interrupt") # "none"
    /\ \/ /\ Got(u, "interrupt") = "early" /\ active[ccall[u].s].turn = ccall[u].turn
          /\ Ask(u, "interrupt") /\ UNCHANGED tlock
       \/ Returns(u)
    /\ UNCHANGED <<serverVars, adapterVars, answers>>

\* ArchiveThread: load, archive, unload.
ArchiveThread(u, s) ==
    /\ Idle(u) /\ Locks(u, s)
    /\ EnsureThreadLoadedLocked(u, "archive", s, "archive")
    /\ UNCHANGED <<serverVars, adapterVars, answers>>

\* unloadThreadLocked, before its request.
Archived(u) ==
    LET s == ccall[u].s IN
    /\ Got(u, "archive") # "none"
    /\ IF Got(u, "archive") = "ok" /\ active[s].turn = 0 /\ loaded[s] = codex.gen
       THEN Ask(u, "unsubscribe") /\ UNCHANGED tlock
       ELSE Returns(u)
    /\ UNCHANGED <<serverVars, adapterVars, answers>>

\* UnarchiveThread: unarchive, forget, load.
UnarchiveThread(u, s) ==
    /\ Idle(u) /\ Locks(u, s)
    /\ ccall' = [ccall EXCEPT ![u] = [New("unarchive", s) EXCEPT !.step = "gate",
                                                                 !.rpc = "unarchive"]]
    /\ UNCHANGED <<serverVars, adapterVars, answers>>

Unarchived(u) ==
    /\ Got(u, "unarchive") # "none"
    /\ IF Got(u, "unarchive") = "ok"
       THEN Forget(ccall[u].s) /\ Ask(u, "resume") /\ UNCHANGED tlock
       ELSE Returns(u) /\ UNCHANGED loaded
    /\ UNCHANGED <<serverVars, codex, pend, reply, active, waiting, answers>>

\* DeleteThread.
DeleteThread(u, s) ==
    /\ Idle(u) /\ Locks(u, s)
    /\ ccall' = [ccall EXCEPT ![u] = [New("delete", s) EXCEPT !.step = "gate",
                                                              !.rpc = "delete"]]
    /\ UNCHANGED <<serverVars, adapterVars, answers>>

Deleted(u) ==
    /\ Got(u, "delete") # "none"
    /\ IF Got(u, "delete") = "ok" \/ Gone(Got(u, "delete"))
       THEN Forget(ccall[u].s) ELSE UNCHANGED loaded
    /\ Returns(u)
    /\ UNCHANGED <<serverVars, codex, pend, reply, active, waiting, answers>>

\* unloadThreadForGeneration, started by turn/completed of the process target:
\* the lock, and the thread is still loaded there and has no active turn.
UnloadThreadForGeneration(u) ==
    LET s == ccall[u].s
        g == ccall[u].gen IN
    /\ At(u, "unload") /\ tlock[s] = NoUser
    /\ IF IsCurrent(g) /\ loaded[s] = g /\ active[s].turn = 0
       THEN Locks(u, s) /\ ccall' = [ccall EXCEPT ![u].step = "target",
                                                  ![u].rpc = "unsubscribe"]
       ELSE Returns(u)
    /\ UNCHANGED <<serverVars, adapterVars, answers>>

\* The answer of thread/unsubscribe, of an unload and of an archive.
Unloaded(u) ==
    LET s == ccall[u].s
        g == ccall[u].gen IN
    /\ Got(u, "unsubscribe") # "none"
    /\ IF /\ Got(u, "unsubscribe") = "ok" \/ Gone(Got(u, "unsubscribe"))
          /\ ccall[u].op = "unload" => codex.cur /\ codex.gen = g /\ loaded[s] = g
       THEN Forget(s) ELSE UNCHANGED loaded
    /\ Returns(u)
    /\ UNCHANGED <<serverVars, codex, pend, reply, active, waiting, answers>>

\* Close: no process starts any more, the current one is stopped.
CloseAdapter ==
    /\ ~codex.closed
    /\ codex' = [codex EXCEPT !.closed = TRUE] /\ proc' = StopProcess(codex.gen)
    /\ UNCHANGED <<inbox, pipe, turns, subs, known, posed, pend, reply, loaded,
                   active, waiting, tlock, ccall, answers>>

-----------------------------------------------------------------------------
(***************************************************************************)
(* Questions of the app-server.                                            *)
(***************************************************************************)
\* RespondPendingRequest claims the question q.
RespondPendingRequest(u, q) ==
    /\ Idle(u) /\ waiting[q].gen # 0 /\ ~waiting[q].responding
    /\ waiting' = [waiting EXCEPT ![q].responding = TRUE]
    /\ ccall' = [ccall EXCEPT ![u] = [New("respond", NoThread) EXCEPT
                     !.step = "respond", !.id = q, !.gen = waiting[q].gen]]
    /\ UNCHANGED <<serverVars, codex, pend, reply, loaded, active, tlock, answers>>

\* Mutant: the answer goes to the process that is current now.
WriteResponseToCurrent(u) ==
    LET q == ccall[u].id IN
    /\ At(u, "respond")
    /\ \/ /\ codex.cur /\ proc[codex.gen] = "live"
          /\ answers' = [answers EXCEPT ![codex.gen][q] = @ + 1]
          /\ To(u, "responded") /\ UNCHANGED <<waiting, tlock>>
       \/ /\ waiting' = [waiting EXCEPT ![q].responding = FALSE]
          /\ Returns(u) /\ UNCHANGED answers
    /\ UNCHANGED <<serverVars, codex, pend, reply, loaded, active>>

\* The generation is compared and the answer written; a failure gives the claim
\* back to whatever question has the number now.
WriteResponse(u) ==
    LET q == ccall[u].id
        g == ccall[u].gen IN
    /\ At(u, "respond")
    /\ \/ /\ codex.cur /\ codex.gen = g /\ proc[g] = "live"
          /\ answers' = [answers EXCEPT ![g][q] = @ + 1]
          /\ To(u, "responded") /\ UNCHANGED <<waiting, tlock>>
       \/ /\ waiting' = [waiting EXCEPT ![q].responding = FALSE]
          /\ Returns(u) /\ UNCHANGED answers
    /\ UNCHANGED <<serverVars, codex, pend, reply, loaded, active>>

\* The question is removed, by its number.
Responded(u) ==
    /\ At(u, "responded")
    /\ waiting' = [waiting EXCEPT ![ccall[u].id] = NoQuestion]
    /\ Returns(u)
    /\ UNCHANGED <<serverVars, codex, pend, reply, loaded, active, answers>>

\* handleServerRequestForGeneration: a question is kept unless its number is
\* taken or the table is full.
Asked(g, m) ==
    waiting' = IF /\ waiting[m.n].gen = 0
                  /\ Cardinality({q \in Questions : waiting[q].gen # 0}) < MaxWaiting
               THEN [waiting EXCEPT ![m.n] = [gen |-> g, turn |-> m.turn,
                                              responding |-> FALSE]]
               ELSE waiting

-----------------------------------------------------------------------------
(***************************************************************************)
(* The reader, and the end of a process.                                   *)
(***************************************************************************)
\* handleNotificationForGeneration of turn/started and turn/completed; the
\* latter also starts the unload of the thread.
Began(g, m) ==
    active' = [active EXCEPT ![turns[m.turn].s] = [turn |-> m.turn, gen |-> g]]

Ended(g, m) ==
    LET s == turns[m.turn].s IN
    /\ active' = IF active[s].gen = g THEN [active EXCEPT ![s] = [turn |-> 0, gen |-> 0]]
                 ELSE active
    /\ \E u \in CUnloaders :
           /\ Idle(u)
           /\ ccall' = [ccall EXCEPT ![u] = [New("unload", s) EXCEPT !.step = "unload",
                                                                     !.gen = g]]

\* readLoop: a message of a process that is not current any more is dropped.
ReadLoop(g) ==
    LET m == Head(pipe[g]) IN
    /\ pipe[g] # <<>>
    /\ pipe' = [pipe EXCEPT ![g] = Tail(@)]
    /\ \/ ~IsCurrent(g) /\ UNCHANGED <<adapterVars, ccall>>
       \/ /\ IsCurrent(g)
          /\ \/ /\ m.kind = "answer" /\ Delivered(g, m)
                /\ UNCHANGED <<codex, loaded, active, waiting, ccall>>
             \/ /\ m.kind = "started" /\ Began(g, m)
                /\ UNCHANGED <<codex, pend, reply, loaded, waiting, ccall>>
             \/ /\ m.kind = "completed" /\ Ended(g, m)
                /\ UNCHANGED <<codex, pend, reply, loaded, waiting>>
             \/ /\ m.kind = "ask" /\ Asked(g, m)
                /\ UNCHANGED <<codex, pend, reply, loaded, active, ccall>>
             \/ /\ m.kind = "resolved"
                /\ waiting' = [waiting EXCEPT ![m.n] = IF @.gen = g THEN NoQuestion ELSE @]
                /\ UNCHANGED <<codex, pend, reply, loaded, active, ccall>>
             \/ /\ m.kind = "config" /\ codex' = [codex EXCEPT !.configErr = TRUE]
                /\ UNCHANGED <<pend, reply, loaded, active, waiting, ccall>>
    /\ UNCHANGED <<proc, inbox, turns, subs, known, posed, tlock, answers>>

\* Mutant: only the requests of the current generation are answered.
FinishProcessCurrentOnly(g) ==
    LET current == codex.cur /\ codex.gen = g /\ ~codex.quarantined IN
    /\ proc[g] = "dead"
    /\ proc' = [proc EXCEPT ![g] = "reaped"]
    /\ codex' = IF codex.gen = g THEN [codex EXCEPT !.cur = FALSE, !.quarantined = FALSE]
                ELSE codex
    /\ IF current
       THEN /\ reply' = [i \in ReqIds |-> IF pend[i] = g THEN Answer("exited", 0)
                                          ELSE reply[i]]
            /\ pend' = [i \in ReqIds |-> IF pend[i] = g THEN 0 ELSE pend[i]]
            /\ loaded' = [s \in CThreads |-> 0]
            /\ waiting' = [q \in Questions |-> NoQuestion]
            /\ active' = [s \in CThreads |-> [turn |-> 0, gen |-> 0]]
       ELSE UNCHANGED <<pend, reply, loaded, waiting, active>>
    /\ pipe' = [pipe EXCEPT ![g] = <<>>]
    /\ UNCHANGED <<inbox, turns, subs, known, posed, tlock, ccall, answers>>

\* waitLoop and finishProcess: the requests of the generation are answered, and
\* of the current process everything is forgotten.
FinishProcess(g) ==
    LET current == codex.cur /\ codex.gen = g IN
    /\ proc[g] = "dead"
    /\ proc' = [proc EXCEPT ![g] = "reaped"]
    /\ codex' = IF current THEN [codex EXCEPT !.cur = FALSE, !.quarantined = FALSE,
                                              !.configErr = FALSE]
                ELSE codex
    /\ reply' = [i \in ReqIds |-> IF pend[i] = g THEN Answer("exited", 0) ELSE reply[i]]
    /\ pend' = [i \in ReqIds |-> IF pend[i] = g THEN 0 ELSE pend[i]]
    /\ loaded' = IF current THEN [s \in CThreads |-> 0] ELSE loaded
    /\ waiting' = [q \in Questions |-> IF current \/ waiting[q].gen = g THEN NoQuestion
                                       ELSE waiting[q]]
    /\ active' = [s \in CThreads |-> IF current \/ active[s].gen = g
                                     THEN [turn |-> 0, gen |-> 0] ELSE active[s]]
    /\ pipe' = [pipe EXCEPT ![g] = <<>>]
    /\ UNCHANGED <<inbox, turns, subs, known, posed, tlock, ccall, answers>>

-----------------------------------------------------------------------------
(***************************************************************************)
(* The app-server.                                                         *)
(***************************************************************************)
Runs(g) == proc[g] \in {"live", "closing"}
Says(g, m) == pipe' = [pipe EXCEPT ![g] = @ \o m]

\* The process handles one request.
Serve(g, r) ==
    LET Reply(result, t) == <<Message("answer", r.id, t, result)>>
        Only(result) == Says(g, Reply(result, 0)) /\ UNCHANGED <<turns, subs, known>>
        fresh == {t \in Turns : turns[t].state = "none"} IN
    /\ Runs(g) /\ r \in inbox[g]
    /\ inbox' = [inbox EXCEPT ![g] = @ \ {r}]
    /\ \/ r.rpc \in {"initialize", "archive", "unarchive", "query"}
          /\ \E result \in {"ok", "error"} : Only(result)
       \/ /\ r.rpc = "thread" /\ Says(g, Reply("ok", 0))
          /\ known' = known \cup {r.s} /\ subs' = [subs EXCEPT ![g] = @ \cup {r.s}]
          /\ UNCHANGED turns
       \/ /\ r.rpc = "resume" /\ r.s \in known /\ Says(g, Reply("ok", 0))
          /\ subs' = [subs EXCEPT ![g] = @ \cup {r.s}] /\ UNCHANGED <<turns, known>>
       \/ /\ r.rpc \in {"resume", "delete"} /\ r.s \notin known /\ Only("missing")
       \/ /\ r.rpc = "delete" /\ r.s \in known /\ Says(g, Reply("ok", 0))
          /\ known' = known \ {r.s} /\ subs' = [subs EXCEPT ![g] = @ \ {r.s}]
          /\ UNCHANGED turns
       \/ /\ r.rpc = "unsubscribe" /\ r.s \in subs[g] /\ Says(g, Reply("ok", 0))
          /\ subs' = [subs EXCEPT ![g] = @ \ {r.s}] /\ UNCHANGED <<turns, known>>
       \/ /\ r.rpc \in {"unsubscribe", "turn"} /\ r.s \notin subs[g] /\ Only("missing")
       \/ /\ r.rpc = "turn" /\ r.s \in subs[g]
          /\ \E t \in fresh :
             /\ \A v \in fresh : t <= v
             /\ turns' = [turns EXCEPT ![t] = [s |-> r.s, gen |-> g, state |-> "running"]]
             /\ Says(g, Reply("ok", t) \o <<Message("started", 0, t, "")>>)
          /\ UNCHANGED <<subs, known>>
       \/ /\ r.rpc = "interrupt" /\ turns[r.turn].gen = g
          /\ turns[r.turn].state = "running"
          /\ \/ Only("early")
             \/ /\ turns' = [turns EXCEPT ![r.turn].state = "ended"]
                /\ Says(g, Reply("ok", 0) \o <<Message("completed", 0, r.turn, "")>>)
                /\ UNCHANGED <<subs, known>>
       \/ /\ r.rpc = "interrupt" /\ ~(turns[r.turn].gen = g /\ turns[r.turn].state = "running")
          /\ Only("error")
    /\ UNCHANGED <<proc, posed, adapterVars, tlock, ccall, answers>>

TurnEnds(t) ==
    LET g == turns[t].gen IN
    /\ turns[t].state = "running" /\ Runs(g)
    /\ turns' = [turns EXCEPT ![t].state = "ended"]
    /\ Says(g, <<Message("completed", 0, t, "")>>)
    /\ UNCHANGED <<proc, inbox, subs, known, posed, adapterVars, tlock, ccall, answers>>

\* A question of a turn; each process numbers its own.
AskUser(t) ==
    LET g == turns[t].gen IN
    /\ turns[t].state = "running" /\ Runs(g) /\ posed[g] < MaxQuestions
    /\ posed' = [posed EXCEPT ![g] = @ + 1]
    /\ Says(g, <<Message("ask", posed[g] + 1, t, "")>>)
    /\ UNCHANGED <<proc, inbox, turns, subs, known, adapterVars, tlock, ccall, answers>>

\* The process settles its question, with or without an answer.
SettleQuestion(g, q) ==
    /\ Runs(g) /\ q <= posed[g]
    /\ \A i \in 1..Len(pipe[g]) : pipe[g][i].n # q \/ pipe[g][i].kind \notin {"ask", "resolved"}
    /\ waiting[q].gen = g
    /\ Says(g, <<Message("resolved", q, 0, "")>>)
    /\ UNCHANGED <<proc, inbox, turns, subs, known, posed, adapterVars, tlock, ccall, answers>>

ConfigWarning(g) ==
    /\ "config" \in CodexFaults /\ Runs(g) /\ codex.gen = g /\ ~codex.configErr
    /\ pipe[g] = <<>> /\ Says(g, <<Message("config", 0, 0, "")>>)
    /\ UNCHANGED <<proc, inbox, turns, subs, known, posed, adapterVars, tlock, ccall, answers>>

\* The process ends: by itself, or because its input was closed or it was killed.
Exit(g) ==
    /\ proc[g] = "closing" \/ (proc[g] = "live" /\ "exit" \in CodexFaults)
    /\ codex.gen >= g
    /\ proc' = [proc EXCEPT ![g] = "dead"] /\ inbox' = [inbox EXCEPT ![g] = {}]
    /\ turns' = [t \in Turns |-> IF turns[t].gen = g /\ turns[t].state = "running"
                                 THEN [turns[t] EXCEPT !.state = "lost"] ELSE turns[t]]
    /\ subs' = [subs EXCEPT ![g] = {}]
    /\ UNCHANGED <<pipe, known, posed, adapterVars, tlock, ccall, answers>>

-----------------------------------------------------------------------------
CodexCalls(u, s) ==
    \/ "turn" \in CodexOps /\ StartCodexTurn(u, s)
    \/ "steer" \in CodexOps /\ SteerTurn(u, s)
    \/ "create" \in CodexOps /\ StartThread(u, s)
    \/ "interrupt" \in CodexOps /\ InterruptTurn(u, s)
    \/ "archive" \in CodexOps /\ ArchiveThread(u, s)
    \/ "unarchive" \in CodexOps /\ UnarchiveThread(u, s)
    \/ "delete" \in CodexOps /\ DeleteThread(u, s)

CodexAnswers(u) ==
    \/ EnsureStarted(u) \/ PublishStartedProcess(u) \/ Initialize(u) \/ Initialized(u)
    \/ InitializeLate(u) \/ SendToServer(u) \/ RequestOnTarget(u) \/ GiveUp(u)
    \/ ThreadResumed(u) \/ TurnStarted(u) \/ QueryAnswered(u) \/ ThreadStarted(u)
    \/ InterruptAnswered(u) \/ Archived(u) \/ Unarchived(u) \/ Deleted(u)
    \/ UnloadThreadForGeneration(u) \/ Unloaded(u)
    \/ WriteResponse(u) \/ Responded(u)

CodexServer ==
    \/ \E g \in Servers : \/ ReadLoop(g) \/ FinishProcess(g) \/ Exit(g) \/ ConfigWarning(g)
                          \/ \E r \in inbox[g] : Serve(g, r)
                          \/ \E q \in Questions : SettleQuestion(g, q)
    \/ \E t \in Turns : TurnEnds(t) \/ ("respond" \in CodexOps /\ AskUser(t))

CodexNext ==
    \/ \E u \in CCallers : \/ \E s \in CThreads : CodexCalls(u, s)
                           \/ "query" \in CodexOps /\ Query(u)
                           \/ \E q \in Questions : RespondPendingRequest(u, q)
    \/ \E u \in Users : CodexAnswers(u)
    \/ CodexServer
    \/ "close" \in CodexOps /\ CloseAdapter

CodexSpec == CodexInit /\ [][CodexNext]_codexVars

-----------------------------------------------------------------------------
(***************************************************************************)
(* Properties.                                                             *)
(***************************************************************************)
\* "A timed-out RPC's app-server generation" is fenced "before the next request
\* can reuse its stdio pipe" (quarantineProcess): however requests time out,
\* processes end and calls overlap, at most one app-server process runs, and a
\* process that runs beside none is the one that the adapter knows, or about to be.
OneAppServer == Cardinality({g \in Servers : Runs(g)}) <= 1

\* Nobody waits for an answer that can not come: a request that is registered
\* belongs to a process whose end has still to be handled, and a call that waits is
\* registered or has its answer.
NoneWaitsForTheDead ==
    /\ \A i \in ReqIds : pend[i] # 0 => proc[pend[i]] \in {"live", "closing", "dead"}
    /\ \A u \in Users : ccall[u].step \in {"wait", "init"} =>
           pend[ccall[u].id] # 0 \/ reply[ccall[u].id] # NoAnswer

\* One turn of a thread runs at a time, across the answer of turn/start, its
\* notifications and a replaced process: the check for an active turn, the request
\* and the record are one step under the lock of the thread.
OneTurnPerThread ==
    \A t, v \in Turns :
        /\ turns[t].state = "running" /\ turns[v].state = "running"
        /\ turns[t].s = turns[v].s
        => t = v

\* An answer reaches the process that asked.  Two answers reach it only if an
\* earlier process asked a question of the same number: a call that answers that
\* one and fails gives the claim on the newer question back.
AnsweredOnce ==
    \A g \in Servers, q \in Questions :
        /\ answers[g][q] > 0 => q <= posed[g]
        /\ answers[g][q] > 1 => \E h \in Servers : h < g /\ q <= posed[h]

\* Every question has one answer at most.
OneAnswerEach == \A g \in Servers, q \in Questions : answers[g][q] <= 1

\* A thread that is reported busy has a turn: it runs in the current process, or
\* its end is still to be read or handled.
BusyHasTurn ==
    \A s \in CThreads : active[s].turn # 0 =>
        LET t == active[s].turn
            g == turns[t].gen IN
        \/ turns[t].state = "running"
        \/ turns[t].state = "lost" /\ proc[g] = "dead"
        \/ \E i \in 1..Len(pipe[g]) : pipe[g][i].kind = "completed" /\ pipe[g][i].turn = t

\* Of the Codex adapter: one process at a time, one turn of a thread at a time,
\* one answer for a question, and nobody waits for a process that is gone.
CodexIsSound == OneAppServer /\ NoneWaitsForTheDead /\ OneTurnPerThread /\ AnsweredOnce
=============================================================================
