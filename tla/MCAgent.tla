-------------------------------- MODULE MCAgent --------------------------------
(***************************************************************************)
(* Small instances of the parts of a Node that keep a state of their own:  *)
(* the ledger of session creations ("ledger"), the Codex adapter, the      *)
(* Claude Code adapter ("claude"), the visibility of sessions              *)
(* ("visibility"), the application with its runtime ("app") and the writer *)
(* of files ("edits").  They share no state here: each behaviour runs one  *)
(* of them and the others rest.  agentPart says which.  The Codex adapter  *)
(* with every operation at once is too large; it is looked at in parts:    *)
(*   "turns"     new threads and turns, beside a process that may end;     *)
(*   "deadlines" turns beside requests that time out;                      *)
(*   "loads"     turns and steers beside archived threads, which unload;   *)
(*   "threads"   threads that are interrupted, unarchived and deleted;     *)
(*   "questions" turns that ask, of two turns and of two processes;        *)
(*   "warnings"  queries and new threads, under warnings of the settings.   *)
(***************************************************************************)
EXTENDS SessionCreate, CodexAdapter, ClaudeAdapter, SessionVisibility, NodeApp, FileEdit, TLC

CONSTANTS
    AgentParts, \* the parts that this run looks at
    Pair        \* callers, pages, requests: whatever comes in pairs

VARIABLE agentPart \* the part of this behaviour

agentVars == <<vars, codexVars, claudeVars, visVars, appVars, fileEditVars>>

CodexParts == {"turns", "deadlines", "loads", "threads", "questions", "warnings"}

AgentInit ==
    /\ agentPart \in AgentParts
    /\ Init /\ CodexInit /\ ClaudeInit /\ VisInit /\ AppInit /\ FileEditInit
    /\ agentPart \in {"turns", "threads", "warnings"} \/ known = CThreads
    /\ agentPart # "edits" => efile = [f \in EditFiles |-> {}] /\ elink = CHOOSE f \in EditFiles : TRUE

----------------------------------------------------------------------------
Uses(ops) == \A u \in CCallers : ccall[u].op \in ops \cup {"none"}
NoTurnLost == \A t \in Turns : turns[t].state # "lost"
OneServer == codex.gen <= 1
OneTurn == Cardinality({t \in Turns : turns[t].state # "none"}) <= 1
NoQuestions == \A g \in Servers : posed[g] = 0

InAgentPart ==
    /\ agentPart # "questions" => NoQuestions
    /\ agentPart # "deadlines" => ~codex.quarantined
    /\ agentPart # "threads" => ~codex.closed
    /\ agentPart # "warnings" => ~codex.configErr /\ \A g \in Servers : \A i \in DOMAIN pipe[g] : pipe[g][i].kind # "config"
    /\ CASE agentPart = "turns" -> Uses({"turn", "create"})
         [] agentPart = "deadlines" -> Uses({"turn"}) \/ (Uses({"query"}) /\ codex.nextID <= 3)
         [] agentPart = "loads" -> Uses({"turn", "archive", "steer"}) /\ NoTurnLost /\ codex.nextID <= 5
         [] agentPart = "threads" ->
                Uses({"turn", "unarchive", "delete", "interrupt"}) /\ OneServer /\ OneTurn /\ codex.nextID <= 5
         [] agentPart = "questions" -> Uses({"turn", "respond"})
         [] agentPart = "warnings" -> Uses({"query", "create"}) /\ codex.nextID <= 3

\* A link is moved beside one request: two that see it differently take
\* different locks, and NoChangeIsLost does not hold.
LinkSeenOnce == esaves.moves > 0 => Cardinality({q \in EditReqs : edits[q].at # "none"}) <= 1

AgentNext ==
    \/ /\ agentPart = "ledger" /\ Next
       /\ UNCHANGED <<agentPart, codexVars, claudeVars, visVars, appVars, fileEditVars>>
    \/ /\ agentPart \in CodexParts /\ UNCHANGED agentPart /\ CodexNext /\ InAgentPart'
       /\ UNCHANGED <<vars, claudeVars, visVars, appVars, fileEditVars>>
    \/ /\ agentPart = "claude" /\ ClaudeNext
       /\ UNCHANGED <<agentPart, vars, codexVars, visVars, appVars, fileEditVars>>
    \/ /\ agentPart = "visibility" /\ VisNext
       /\ UNCHANGED <<agentPart, vars, codexVars, claudeVars, appVars, fileEditVars>>
    \/ /\ agentPart = "app" /\ AppNext
       /\ UNCHANGED <<agentPart, vars, codexVars, claudeVars, visVars, fileEditVars>>
    \/ /\ agentPart = "edits" /\ FileEditNext /\ LinkSeenOnce'
       /\ UNCHANGED <<agentPart, vars, codexVars, claudeVars, visVars, appVars>>

AgentSpec == AgentInit /\ [][AgentNext]_<<agentPart, agentVars>>

\* The members of a pair have equal parts in all that is modelled.
AgentSymmetry == Permutations(Pair) \cup Permutations(Specs)

\* The part that runs has its types; the others are at rest.
AgentTypeOK ==
    /\ agentPart = "ledger" => TypeOK
    /\ agentPart \in CodexParts => CodexTypeOK
    /\ agentPart = "claude" => ClaudeTypeOK
    /\ agentPart = "visibility" => VisTypeOK
    /\ agentPart = "app" => AppTypeOK
    /\ agentPart = "edits" => FileEditTypeOK
=============================================================================
