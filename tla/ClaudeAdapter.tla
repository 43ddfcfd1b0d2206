------------------------------ MODULE ClaudeAdapter ------------------------------
(***************************************************************************)
(* The Claude Code adapter of the Node (agent/claude_adapter.go) and its   *)
(* index of sessions (agent/session_store.go): every turn is a process of  *)
(* its own, reserved in the map of active runs before it starts; a reader  *)
(* takes its output, a waiter its end; the index file is replaced at every *)
(* change.                                                                 *)
(*                                                                         *)
(* A record keeps its status, its latest turn, the turn whose result it    *)
(* shows, and one name (archiving a session writes the record the same     *)
(* way).  Routes, usage, events and texts are left out.                    *)
(***************************************************************************)
EXTENDS Integers, FiniteSets

CONSTANTS
    ClaudeUsers,       \* goroutines that create sessions and send turns
    MaxClaudeSessions, \* bound: sessions created
    MaxClaudeTurns,    \* bound: turns reserved
    MaxNames,          \* bound: renames
    MaxLoads,          \* bound: restarts of the Node
    ClaudeFaults       \* "save": a save fails; "sync": the index is replaced and
                       \* the sync of its directory fails; "start": the command
                       \* does not start; "load": the index can not be read

ASSUME ClaudeAssumption ==
    /\ MaxClaudeSessions \in Nat /\ MaxClaudeTurns \in Nat /\ MaxNames \in Nat
    /\ MaxLoads \in Nat /\ ClaudeFaults \subseteq {"save", "sync", "start", "load"}

CSessions == 1..MaxClaudeSessions
CTurns == 1..MaxClaudeTurns
NoSession == [status |-> "none", turn |-> 0, result |-> 0, name |-> 0]
NoRun == [turn |-> 0, canceled |-> FALSE, cmd |-> FALSE]
NoSend == [op |-> "none", step |-> "idle", s |-> 0, turn |-> 0, previous |-> NoSession]
CStatus == {"none", "created", "running", "completed", "failed", "canceled", "interrupted"}

VARIABLES
    sessions,  \* ClaudeCodeAdapter.sessions
    index,     \* the records of claude-code-sessions.json
    indexErr,  \* indexLoadErr # nil
    crun,      \* ClaudeCodeAdapter.active
    sends,     \* what a goroutine does
    cproc,     \* the process of a turn; "orphan": an earlier Node started it
    output,    \* whether its result is written, read, and the output ended
    turnOf,    \* the session of a turn, or 0
    made,      \* sessions created so far
    names,     \* renames so far
    named,     \* history: the name that rename last acknowledged
    loads      \* restarts so far

indexVars == <<sessions, index, indexErr>>
runVars == <<cproc, output, turnOf>>
claudeCount == <<made, names, named, loads>>
claudeVars == <<indexVars, crun, sends, runVars, claudeCount>>

CRecord == [status : CStatus, turn : 0..MaxClaudeTurns, result : 0..MaxClaudeTurns,
            name : 0..MaxNames]

ClaudeTypeOK ==
    /\ sessions \in [CSessions -> CRecord] /\ index \in [CSessions -> CRecord]
    /\ indexErr \in BOOLEAN
    /\ crun \in [CSessions -> [turn : 0..MaxClaudeTurns, canceled : BOOLEAN, cmd : BOOLEAN]]
    /\ cproc \in [CTurns -> {"none", "live", "dead", "waited", "orphan"}]
    /\ output \in [CTurns -> {"none", "written", "read", "done"}]
    /\ turnOf \in [CTurns -> 0..MaxClaudeSessions]
    /\ \A u \in ClaudeUsers : sends[u].op \in {"none", "create", "send"}

ClaudeInit ==
    /\ sessions = [s \in CSessions |-> NoSession] /\ index = sessions /\ indexErr = FALSE
    /\ crun = [s \in CSessions |-> NoRun] /\ sends = [u \in ClaudeUsers |-> NoSend]
    /\ cproc = [t \in CTurns |-> "none"] /\ output = [t \in CTurns |-> "none"]
    /\ turnOf = [t \in CTurns |-> 0]
    /\ made = 0 /\ names = 0 /\ loads = 0 /\ named = [s \in CSessions |-> 0]

SessionExists(s) == sessions[s] # NoSession
Busy(s) == crun[s] # NoRun
Leaves(u) == sends' = [sends EXCEPT ![u] = NoSend]
Steps(u, step) == sends' = [sends EXCEPT ![u].step = step]

-----------------------------------------------------------------------------
(***************************************************************************)
(* The index.                                                              *)
(***************************************************************************)
\* saveIndexLocked of the records new.  Every record is written; before the file
\* is replaced a failure leaves it as it was, after it a failure is reported too.
SaveIndexLocked(new, outcome) ==
    \/ outcome = "saved" /\ ~indexErr /\ index' = new
    \/ outcome = "uncommitted" /\ (indexErr \/ "save" \in ClaudeFaults) /\ UNCHANGED index
    \/ outcome = "committed" /\ ~indexErr /\ "sync" \in ClaudeFaults /\ index' = new

Outcomes == {"saved", "uncommitted", "committed"}

\* markInterruptedClaudeSessions.
MarkInterrupted(r) ==
    [s \in CSessions |-> IF r[s].status = "running" THEN [r[s] EXCEPT !.status = "interrupted"]
                         ELSE r[s]]

\* persistIndexAsyncLocked: a failure is only reported.
PersistIndexAsyncLocked(new) ==
    sessions' = new /\ \E outcome \in Outcomes : SaveIndexLocked(new, outcome)

\* The Node ends, by a crash or after CloseClaude, and the adapter starts again:
\* loadIndex.  A process that lives then goes on, since it is only in a group of its
\* own and Close waits for none; the new Node neither reads it nor waits for it, and
\* whether it has ended nothing here can tell.  Its session is only "interrupted".
LoadIndex ==
    /\ loads < MaxLoads /\ loads' = loads + 1
    /\ crun' = [s \in CSessions |-> NoRun] /\ sends' = [u \in ClaudeUsers |-> NoSend]
    /\ cproc' = [t \in CTurns |-> CASE cproc[t] = "live" -> "orphan"
                                    [] cproc[t] = "dead" -> "waited"
                                    [] OTHER -> cproc[t]]
    /\ output' = [t \in CTurns |-> IF cproc[t] = "none" THEN "none" ELSE "done"]
    /\ turnOf' = [t \in CTurns |-> turnOf[t]]
    /\ \/ sessions' = MarkInterrupted(index) /\ indexErr' = FALSE
       \/ /\ "load" \in ClaudeFaults
          /\ sessions' = [s \in CSessions |-> NoSession] /\ indexErr' = TRUE
    /\ UNCHANGED <<index, made, names, named>>

-----------------------------------------------------------------------------
(***************************************************************************)
(* Create, SendToClaude and the start of a turn.                                   *)
(***************************************************************************)
\* Create: the record is saved before the turn; a session whose record is not
\* saved does not exist.
Create(u) ==
    LET s == made + 1
        new == [sessions EXCEPT ![s] = [NoSession EXCEPT !.status = "created"]] IN
    /\ sends[u] = NoSend /\ made < MaxClaudeSessions
    /\ made' = s
    /\ \E outcome \in Outcomes :
           /\ SaveIndexLocked(new, outcome)
           /\ sessions' = IF outcome = "uncommitted" THEN sessions ELSE new
           /\ sends' = IF outcome = "saved"
                       THEN [sends EXCEPT ![u] = [NoSend EXCEPT !.op = "create",
                                                  !.step = "reserve", !.s = s]]
                       ELSE sends
    /\ UNCHANGED <<indexErr, crun, runVars, names, named, loads>>

\* SendToClaude finds the record; the turn starts later.
SendToClaude(u, s) ==
    /\ sends[u] = NoSend /\ SessionExists(s)
    /\ sends' = [sends EXCEPT ![u] = [NoSend EXCEPT !.op = "send", !.step = "reserve", !.s = s]]
    /\ UNCHANGED <<indexVars, crun, runVars, claudeCount>>

\* A turn that did not start: SendToClaude returns, Create takes its session back.
Fails(u) ==
    IF sends[u].op = "create" THEN Steps(u, "undo") ELSE Leaves(u)

\* Mutant: an active run does not keep a second one out.
ReserveAlways(u) ==
    LET s == sends[u].s
        free == {t \in CTurns : turnOf[t] = 0} IN
    /\ sends[u].step = "reserve" /\ SessionExists(s)
    /\ \E t \in free :
       /\ \A v \in free : t <= v
       /\ crun' = [crun EXCEPT ![s] = [NoRun EXCEPT !.turn = t]]
       /\ sends' = [sends EXCEPT ![u].step = "prepare", ![u].turn = t]
       /\ turnOf' = [turnOf EXCEPT ![t] = s]
    /\ UNCHANGED <<indexVars, cproc, output, claudeCount>>

\* startTurnWithOverrides: the turn is reserved, one for a session.
ReserveRun(u) ==
    LET s == sends[u].s
        free == {t \in CTurns : turnOf[t] = 0} IN
    /\ sends[u].step = "reserve"
    /\ IF SessionExists(s) /\ ~Busy(s)
       THEN \E t \in free :
               /\ \A v \in free : t <= v
               /\ crun' = [crun EXCEPT ![s] = [NoRun EXCEPT !.turn = t]]
               /\ sends' = [sends EXCEPT ![u].step = "prepare", ![u].turn = t]
               /\ turnOf' = [turnOf EXCEPT ![t] = s]
       ELSE Fails(u) /\ UNCHANGED <<crun, turnOf>>
    /\ UNCHANGED <<indexVars, cproc, output, claudeCount>>

\* cleanupReservation, of the goroutine's own run.
CleanupReservation(u) ==
    LET s == sends[u].s IN
    crun' = [crun EXCEPT ![s] = IF @.turn = sends[u].turn THEN NoRun ELSE @]

\* The records, when s goes to the record r: one that UndoCreate has taken out of
\* the map meanwhile does not come back.
WithRecord(s, r) == IF SessionExists(s) THEN [sessions EXCEPT ![s] = r] ELSE sessions

\* The arguments are built, or refused; the record says running and is saved.
PrepareRun(u) ==
    LET s == sends[u].s
        r == [sessions[s] EXCEPT !.status = "running", !.turn = sends[u].turn, !.result = 0]
        new == WithRecord(s, r) IN
    /\ sends[u].step = "prepare"
    /\ \/ CleanupReservation(u) /\ Fails(u) /\ UNCHANGED <<sessions, index>>
       \/ /\ ~crun[s].canceled
          /\ \E outcome \in Outcomes :
                 /\ SaveIndexLocked(new, outcome)
                 /\ sessions' = CASE outcome = "saved" -> new
                                  [] outcome = "uncommitted" -> sessions
                                  [] OTHER -> WithRecord(s, [r EXCEPT !.status = "interrupted"])
                 /\ IF outcome = "saved"
                    THEN /\ sends' = [sends EXCEPT ![u].step = "start",
                                                   ![u].previous = sessions[s]]
                         /\ UNCHANGED crun
                    ELSE CleanupReservation(u) /\ Fails(u)
    /\ UNCHANGED <<indexErr, runVars, claudeCount>>

\* The turn was canceled, or its command did not start: the record is what it was
\* before PrepareRun.
RollBack(u) ==
    LET s == sends[u].s
        old == WithRecord(s, sends[u].previous) IN
    /\ \E outcome \in Outcomes :
           /\ SaveIndexLocked(old, outcome)
           /\ sessions' = IF outcome = "uncommitted" THEN sessions ELSE old
    /\ CleanupReservation(u) /\ Fails(u)

StartCommand(u) ==
    LET s == sends[u].s
        t == sends[u].turn IN
    /\ sends[u].step = "start"
    /\ \/ /\ crun[s].canceled \/ "start" \in ClaudeFaults
          /\ RollBack(u) /\ UNCHANGED <<cproc, output>>
       \/ /\ ~crun[s].canceled
          /\ cproc' = [cproc EXCEPT ![t] = "live"]
          /\ Steps(u, "started") /\ UNCHANGED <<sessions, index, crun, output>>
    /\ UNCHANGED <<indexErr, turnOf, claudeCount>>

Killed(t) == [cproc EXCEPT ![t] = IF @ = "live" THEN "dead" ELSE @]

\* The command is known to Cancel; a cancellation in between kills it here.
CommandStarted(u) ==
    LET s == sends[u].s IN
    /\ sends[u].step = "started"
    /\ crun' = [crun EXCEPT ![s].cmd = TRUE]
    /\ cproc' = IF crun[s].canceled THEN Killed(sends[u].turn) ELSE cproc
    /\ Leaves(u)
    /\ UNCHANGED <<indexVars, output, turnOf, claudeCount>>

\* Create takes the session back when its first turn did not start.
UndoCreate(u) ==
    LET s == sends[u].s
        without == [sessions EXCEPT ![s] = NoSession] IN
    /\ sends[u].step = "undo"
    /\ \E outcome \in Outcomes :
           /\ SaveIndexLocked(without, outcome)
           /\ sessions' = IF outcome = "uncommitted" THEN sessions ELSE without
    /\ Leaves(u)
    /\ UNCHANGED <<indexErr, crun, runVars, claudeCount>>

-----------------------------------------------------------------------------
(***************************************************************************)
(* The process of a turn.                                                  *)
(***************************************************************************)
WriteResult(t) ==
    /\ cproc[t] = "live" /\ output[t] = "none"
    /\ output' = [output EXCEPT ![t] = "written"]
    /\ UNCHANGED <<indexVars, crun, sends, cproc, turnOf, claudeCount>>

ProcessEnds(t) ==
    /\ cproc[t] = "live" /\ cproc' = [cproc EXCEPT ![t] = "dead"]
    /\ UNCHANGED <<indexVars, crun, sends, output, turnOf, claudeCount>>

\* handleStreamLine of the result: whatever record the session has now gets it.
HandleStreamLine(t) ==
    LET s == turnOf[t] IN
    /\ output[t] = "written" /\ output' = [output EXCEPT ![t] = "read"]
    /\ IF SessionExists(s)
       THEN \E status \in {"completed", "failed"} :
            PersistIndexAsyncLocked([sessions EXCEPT ![s].status = status, ![s].result = t])
       ELSE UNCHANGED <<sessions, index>>
    /\ UNCHANGED <<indexErr, crun, sends, cproc, turnOf, claudeCount>>

\* readStdout meets the end of the output; a result that is written may be lost,
\* since waitRun closes the pipe when the process has ended.
ReadStdout(t) ==
    /\ cproc[t] = "dead" /\ output[t] \in {"none", "written", "read"}
    /\ \A u \in ClaudeUsers : sends[u].turn # t
    /\ output' = [output EXCEPT ![t] = "done"]
    /\ UNCHANGED <<indexVars, crun, sends, cproc, turnOf, claudeCount>>

\* waitRun: after the process and its output the session is free again.
WaitRun(t) ==
    LET s == turnOf[t] IN
    /\ cproc[t] = "dead" /\ output[t] = "done"
    /\ \A u \in ClaudeUsers : sends[u].turn # t
    /\ cproc' = [cproc EXCEPT ![t] = "waited"]
    /\ crun' = [crun EXCEPT ![s] = NoRun]
    /\ IF SessionExists(s)
       THEN \E status \in {"completed", "failed"} :
            PersistIndexAsyncLocked([sessions EXCEPT ![s].status =
               IF @ # "running" THEN @ ELSE IF crun[s].canceled THEN "canceled" ELSE status])
       ELSE UNCHANGED <<sessions, index>>
    /\ UNCHANGED <<indexErr, sends, output, turnOf, claudeCount>>

-----------------------------------------------------------------------------
(***************************************************************************)
(* Cancel, Rename (and SetArchived) and DeleteClaudeSession.                            *)
(***************************************************************************)
\* Cancel; Close does the same to every run.
Cancel(s) ==
    /\ Busy(s)
    /\ crun' = [crun EXCEPT ![s].canceled = TRUE]
    /\ cproc' = IF crun[s].cmd THEN Killed(crun[s].turn) ELSE cproc
    /\ UNCHANGED <<indexVars, sends, output, turnOf, claudeCount>>

CloseClaude ==
    /\ \E s \in CSessions : Busy(s)
    /\ crun' = [s \in CSessions |-> IF Busy(s) THEN [crun[s] EXCEPT !.canceled = TRUE]
                                    ELSE crun[s]]
    /\ cproc' = [t \in CTurns |-> IF /\ turnOf[t] # 0 /\ cproc[t] = "live"
                                     /\ crun[turnOf[t]].turn = t /\ crun[turnOf[t]].cmd
                                  THEN "dead" ELSE cproc[t]]
    /\ UNCHANGED <<indexVars, sends, output, turnOf, claudeCount>>

Rename(s) ==
    LET new == [sessions EXCEPT ![s].name = names + 1] IN
    /\ SessionExists(s) /\ names < MaxNames /\ names' = names + 1
    /\ \E outcome \in Outcomes :
           /\ SaveIndexLocked(new, outcome)
           /\ sessions' = IF outcome = "uncommitted" THEN sessions ELSE new
           /\ named' = IF outcome = "saved" THEN [named EXCEPT ![s] = names + 1] ELSE named
    /\ UNCHANGED <<indexErr, crun, sends, runVars, made, loads>>

DeleteClaudeSession(s) ==
    LET without == [sessions EXCEPT ![s] = NoSession] IN
    /\ SessionExists(s) /\ ~Busy(s)
    /\ \E outcome \in Outcomes :
           /\ SaveIndexLocked(without, outcome)
           /\ sessions' = IF outcome = "uncommitted" THEN sessions ELSE without
    /\ UNCHANGED <<indexErr, crun, sends, runVars, claudeCount>>

-----------------------------------------------------------------------------
ClaudeUserStep(u) ==
    \/ Create(u) \/ ReserveRun(u) \/ PrepareRun(u) \/ StartCommand(u) \/ CommandStarted(u)
    \/ UndoCreate(u) \/ \E s \in CSessions : SendToClaude(u, s)

ClaudeNext ==
    \/ \E u \in ClaudeUsers : ClaudeUserStep(u)
    \/ \E t \in CTurns : \/ WriteResult(t) \/ ProcessEnds(t) \/ HandleStreamLine(t)
                         \/ ReadStdout(t) \/ WaitRun(t)
    \/ \E s \in CSessions : Cancel(s) \/ Rename(s) \/ DeleteClaudeSession(s)
    \/ CloseClaude \/ LoadIndex

ClaudeSpec == ClaudeInit /\ [][ClaudeNext]_claudeVars

-----------------------------------------------------------------------------
(***************************************************************************)
(* Properties.                                                             *)
(***************************************************************************)
\* Since the Node started, a session has one process at a time: "two concurrent
\* session.send do not start two Claude processes"
\* (docs/11-local-bridge-and-ai-control.md), through failed and canceled starts as
\* well; and the result that its record shows is the one of its latest turn, although
\* the reader of a turn outlives the process.  A process that an earlier Node left
\* ("orphan") may run beside it: loadIndex frees its session.
OneClaudeProcess ==
    /\ \A t, v \in CTurns : cproc[t] = "live" /\ cproc[v] = "live" /\ turnOf[t] = turnOf[v]
                            => t = v
    /\ \A s \in CSessions : sessions[s].result \in {0, sessions[s].turn}

\* A restart of the Node shows the sessions that the adapter shows, with their
\* names, although saves fail before and after the file is replaced: what a failed
\* change leaves in memory is what it left on disk.
RestartKeepsSessions ==
    indexErr \/ \A s \in CSessions : /\ SessionExists(s) <=> index[s] # NoSession
                                     /\ sessions[s].name = index[s].name

\* A session is reported running while a turn of it is reserved or runs.
RunningHasRun ==
    \A s \in CSessions : sessions[s].status = "running" => crun[s].turn = sessions[s].turn

\* A name that session.rename has acknowledged stays.
RenameIsKept == \A s \in CSessions : SessionExists(s) => sessions[s].name >= named[s]

\* Of the Claude adapter: one process of a session at a time since the Node started,
\* and an index that a restart can rely on.
ClaudeIsSound == OneClaudeProcess /\ RestartKeepsSessions
=============================================================================
