------------------------------- MODULE NodeLink -------------------------------
(***************************************************************************)
(* The link between a Hub and one Node: the sessions of the Node           *)
(* (src/internal/node/run.go), the Hub's connection handler                *)
(* (hub/server/node_ws.go), the connection registry                        *)
(* (hub/registry/registry.go), capability calls and the revocation of the  *)
(* machine (hub/core/service.go).                                          *)
(*                                                                         *)
(* The Node runs one session after the other.  The Hub may still be busy   *)
(* with the handler of an old session when the next one arrives, so every  *)
(* session s has a handler of its own, with its Connection and its socket. *)
(* The entries of the registry of different machines are independent: one  *)
(* machine is modelled.                                                    *)
(***************************************************************************)
EXTENDS Integers, Sequences, Functions

CONSTANTS
    MaxSessions,  \* bound: number of sessions that the Node opens
    Calls,        \* capability calls; a call has its own request id
    RevokeAt      \* bound: the last session of the Node when the owner
                  \* revokes the machine; {}: it is not revoked

ASSUME SessionsAssumption == MaxSessions \in Nat
ASSUME RevokeAssumption == RevokeAt \subseteq 0..MaxSessions
ASSUME CallsAssumption == {"established", "close"} \cap Calls = {}

Sessions == 1..MaxSessions

VARIABLES
    npc,      \* the Node: "off", "handshake", "online"
    cur,      \* its last session
    handling, \* a request that holds a slot of requestSem: "taken", "executed"
    ran,      \* how often the Node executed a call
    via,      \* the session through which the Node received a call
    sock,     \* a socket: "none", "open", "dead" (the Hub cannot know), "closed"
    toNode,   \* messages on the way to the Node
    toHub,    \* responses on the way to the Hub
    hpc,      \* the handler of a session
    gen,      \* Connection.Generation
    lost,     \* Connection.closed is closed
    prev,     \* the connection that Register replaced
    conn,     \* Registry.conns: the session of the machine's connection, or 0
    doomed,   \* connections that CloseMachine or CloseStale is about to close
    lastGen,  \* machines.last_connection_generation
    active,   \* machines.status = 'active'
    revoke,   \* RevokeMachine: "no", "committed", "closing", "done"
    rconn,    \* the connection that CloseMachine found
    cpc,      \* where a call is
    cconn,    \* the connection that it uses
    writing,  \* calls whose WriteJSON goroutine is under way
    inbox,    \* the response in its channel
    answer    \* what CallCapability returned

nodeVars == <<npc, cur, handling, ran, via>>
wireVars == <<sock, toNode, toHub>>
hubVars  == <<hpc, gen, prev, lastGen>>
regVars  == <<lost, conn, doomed>>
machVars == <<active, revoke, rconn>>
callVars == <<cpc, cconn, writing, inbox, answer>>
vars == <<nodeVars, wireVars, hubVars, regVars, machVars, callVars>>

Init ==
    /\ npc = "off" /\ cur = 0 /\ handling = [c \in Calls |-> "no"]
    /\ ran = [c \in Calls |-> 0] /\ via = [c \in Calls |-> 0]
    /\ sock = [s \in Sessions |-> "none"]
    /\ toNode = [s \in Sessions |-> <<>>]
    /\ toHub = [s \in Sessions |-> <<>>]
    /\ hpc = [s \in Sessions |-> "none"]
    /\ gen = [s \in Sessions |-> 0] /\ prev = [s \in Sessions |-> 0]
    /\ lost = [s \in Sessions |-> FALSE] /\ conn = 0 /\ doomed = {}
    /\ lastGen = 0 /\ active = TRUE /\ revoke = "no" /\ rconn = 0
    /\ cpc = [c \in Calls |-> "idle"] /\ cconn = [c \in Calls |-> 0]
    /\ writing = {} /\ inbox = [c \in Calls |-> "none"] /\ answer = [c \in Calls |-> "none"]

-----------------------------------------------------------------------------
(***************************************************************************)
(* The Node.                                                               *)
(***************************************************************************)
\* runSession: device token, dial, and the two hellos on the Node's side.  A
\* revoked machine gets no token.
Dial ==
    LET s == cur + 1 IN
    /\ npc = "off" /\ s \in Sessions /\ active
    /\ cur' = s /\ npc' = "handshake"
    /\ sock' = [sock EXCEPT ![s] = "open"]
    /\ hpc' = [hpc EXCEPT ![s] = "hello"]
    /\ UNCHANGED <<handling, ran, via, toNode, toHub, gen, prev, lastGen,
                   regVars, machVars, callVars>>

\* The session ends on the Node's side: an error, a missing heartbeat ack, the
\* end of the process.  The Hub learns of it, or not.
NodeEnds ==
    /\ npc # "off"
    /\ npc' = "off"
    /\ \E end \in {"dead", "closed"} :
          sock' = [sock EXCEPT ![cur] = IF @ = "closed" THEN @ ELSE end]
    /\ toNode' = [toNode EXCEPT ![cur] = <<>>]
    /\ UNCHANGED <<cur, handling, ran, via, toHub, hubVars, regVars, machVars,
                   callVars>>

Replies == {"ok", "error", "refused", "limit"}

Reply(s, c, what) ==
    toHub' = [toHub EXCEPT ![s] =
                 IF s = cur /\ npc = "online" /\ sock[s] = "open"
                 THEN Append(@, <<c, what>>) ELSE @]

\* The Node waits for session.established: any other message ends the session.
NodeReadsHandshake ==
    /\ npc = "handshake" /\ toNode[cur] # <<>>
    /\ toNode' = [toNode EXCEPT ![cur] = IF Head(@) = "established"
                                         THEN Tail(@) ELSE <<>>]
    /\ IF Head(toNode[cur]) = "established"
       THEN npc' = "online" /\ UNCHANGED sock
       ELSE npc' = "off" /\ sock' = [sock EXCEPT ![cur] = "closed"]
    /\ UNCHANGED <<cur, handling, ran, via, toHub, hubVars, regVars, machVars,
                   callVars>>

\* The reader of heartbeatLoop: a request takes a slot of requestSem, or is
\* refused because other requests of the Hub have them all; connection.close
\* ends the session.
NodeReads ==
    LET c == Head(toNode[cur]) IN
    /\ npc = "online" /\ toNode[cur] # <<>>
    /\ toNode' = [toNode EXCEPT ![cur] = IF c = "close" THEN <<>> ELSE Tail(@)]
    /\ \/ /\ c = "close"
          /\ npc' = "off"
          /\ sock' = [sock EXCEPT ![cur] = "closed"]
          /\ UNCHANGED <<handling, via, toHub>>
       \/ /\ c \in Calls
          /\ handling' = [handling EXCEPT ![c] = "taken"]
          /\ via' = [via EXCEPT ![c] = cur]
          /\ UNCHANGED <<npc, sock, toHub>>
       \/ /\ c \in Calls
          /\ Reply(cur, c, "limit")
          /\ UNCHANGED <<npc, sock, handling, via>>
    /\ UNCHANGED <<cur, ran, hubVars, regVars, machVars, callVars>>

\* handleCapabilityRequest executes the request; it may outlive its session.
NodeExecutes(c) ==
    /\ handling[c] = "taken"
    /\ handling' = [handling EXCEPT ![c] = "executed"]
    /\ ran' = [ran EXCEPT ![c] = @ + 1]
    /\ UNCHANGED <<npc, cur, via, wireVars, hubVars, regVars, machVars,
                   callVars>>

\* The response goes to the connection of the request, and the slot is free.
\* A request that was turned away (NODE_UPDATING, its deadline) is "refused".
NodeReplies(c) ==
    /\ handling[c] # "no"
    /\ handling' = [handling EXCEPT ![c] = "no"]
    /\ \/ handling[c] = "taken" /\ Reply(via[c], c, "refused")
       \/ /\ handling[c] = "executed"
          /\ \E what \in {"ok", "error"} : Reply(via[c], c, what)
    /\ UNCHANGED <<npc, cur, ran, via, sock, toNode, hubVars, regVars,
                   machVars, callVars>>

(***************************************************************************)
(* The network fails: nobody has noticed yet ("dead"), or both sides see   *)
(* it.                                                                     *)
(***************************************************************************)
NetworkFails(s) ==
    /\ sock[s] \in {"open", "dead"}
    /\ \E k \in {"dead", "closed"} : sock' = [sock EXCEPT ![s] = k]
    /\ UNCHANGED <<nodeVars, toNode, toHub, hubVars, regVars, machVars,
                   callVars>>

-----------------------------------------------------------------------------
(***************************************************************************)
(* The Hub's handler of a session (handleNodeConnect).                     *)
(***************************************************************************)
\* A write to a socket: the Node gets it only if the socket is open.
Deliver(s, msgs) ==
    toNode' = [toNode EXCEPT ![s] = IF sock[s] = "open" THEN @ \o msgs ELSE @]

\* Connection.Close, with the connection.close message before it.
CloseConnection(s) ==
    /\ Deliver(s, <<"close">>)
    /\ sock' = [sock EXCEPT ![s] = "closed"]
    /\ lost' = [lost EXCEPT ![s] = TRUE]

\* verifyClientHello and NextGeneration.
Admit(s) ==
    /\ hpc[s] = "hello"
    /\ \/ /\ sock[s] # "closed" /\ active
          /\ lastGen' = lastGen + 1
          /\ gen' = [gen EXCEPT ![s] = lastGen + 1]
          /\ hpc' = [hpc EXCEPT ![s] = "admitted"]
          /\ UNCHANGED sock
       \/ /\ hpc' = [hpc EXCEPT ![s] = "gone"]
          /\ sock' = [sock EXCEPT ![s] = "closed"]
          /\ UNCHANGED <<lastGen, gen>>
    /\ UNCHANGED <<nodeVars, toNode, toHub, prev, regVars, machVars, callVars>>

\* Mutant: the generations are not compared.
RegisterAny(s) == TRUE

Newer(s) == conn = 0 \/ gen[conn] < gen[s]

\* Register, under r.mu.
Register(s) ==
    /\ hpc[s] = "admitted"
    /\ IF Newer(s)
       THEN /\ conn' = s
            /\ prev' = [prev EXCEPT ![s] = conn]
            /\ hpc' = [hpc EXCEPT ![s] = IF conn = 0 THEN "registered"
                                                     ELSE "replacing"]
            /\ UNCHANGED sock
       ELSE /\ hpc' = [hpc EXCEPT ![s] = "gone"]
            /\ sock' = [sock EXCEPT ![s] = "closed"]
            /\ UNCHANGED <<conn, prev>>
    /\ UNCHANGED <<nodeVars, toNode, toHub, gen, lastGen, lost, doomed,
                   machVars, callVars>>

\* Mutant: the replaced connection is forgotten.
ForgetReplaced(s) ==
    /\ hpc[s] = "replacing"
    /\ hpc' = [hpc EXCEPT ![s] = "registered"]
    /\ UNCHANGED <<nodeVars, wireVars, gen, prev, lastGen, regVars, machVars,
                   callVars>>

\* After r.mu is released: replaced.MarkLost and closeReplaced.
CloseReplaced(s) ==
    /\ hpc[s] = "replacing"
    /\ CloseConnection(prev[s])
    /\ hpc' = [hpc EXCEPT ![s] = "registered"]
    /\ UNCHANGED <<nodeVars, toHub, gen, prev, lastGen, conn, doomed, machVars,
                   callVars>>

\* Mutant: TouchMachine's error is ignored.
TouchIgnored(s) == TRUE

TouchSucceeds(s) == active

\* ReplaceCapabilities and TouchMachine; a revoked machine is turned away, and
\* so is any Node when the database fails.
Touch(s) ==
    /\ hpc[s] = "registered"
    /\ \/ /\ TouchSucceeds(s)
          /\ hpc' = [hpc EXCEPT ![s] = "touched"]
          /\ UNCHANGED sock
       \/ /\ hpc' = [hpc EXCEPT ![s] = "leaving"]
          /\ sock' = [sock EXCEPT ![s] = "closed"]
    /\ UNCHANGED <<nodeVars, toNode, toHub, gen, prev, lastGen, regVars,
                   machVars, callVars>>

\* session.established.
Establish(s) ==
    /\ hpc[s] = "touched"
    /\ Deliver(s, <<"established">>)
    /\ IF sock[s] = "closed"
       THEN /\ lost' = [lost EXCEPT ![s] = TRUE]
            /\ hpc' = [hpc EXCEPT ![s] = "leaving"]
       ELSE /\ hpc' = [hpc EXCEPT ![s] = "reading"]
            /\ UNCHANGED lost
    /\ UNCHANGED <<nodeVars, sock, toHub, gen, prev, lastGen, conn, doomed,
                   machVars, callVars>>

\* nodeReadLoop, capability.response: DeliverResponse finds the pending call.
ReadResponse(s) ==
    LET m == Head(toHub[s]) IN
    /\ hpc[s] = "reading" /\ toHub[s] # <<>>
    /\ toHub' = [toHub EXCEPT ![s] = Tail(@)]
    /\ inbox' = [inbox EXCEPT ![m[1]] =
                    IF /\ ~lost[s] /\ cconn[m[1]] = s
                       /\ cpc[m[1]] \in {"pending", "waiting"} /\ @ = "none"
                    THEN m[2] ELSE @]
    /\ UNCHANGED <<nodeVars, sock, toNode, hubVars, regVars, machVars, cpc,
                   cconn, writing, answer>>

\* nodeReadLoop, heartbeat: Touch fails for a connection that was replaced.
HeartbeatRejected(s) ==
    /\ hpc[s] = "reading" /\ sock[s] = "open" /\ conn # s
    /\ hpc' = [hpc EXCEPT ![s] = "leaving"]
    /\ UNCHANGED <<nodeVars, wireVars, gen, prev, lastGen, regVars, machVars,
                   callVars>>

\* ReadJSON fails.
ReadFails(s) ==
    /\ hpc[s] = "reading" /\ sock[s] = "closed"
    /\ lost' = [lost EXCEPT ![s] = TRUE]
    /\ hpc' = [hpc EXCEPT ![s] = "leaving"]
    /\ UNCHANGED <<nodeVars, wireVars, gen, prev, lastGen, conn, doomed,
                   machVars, callVars>>

\* Mutant: whatever connection the machine has is removed.
OwnEntryAny(s) == TRUE

OwnEntry(s) == conn = s

\* The deferred Remove, CloseNow.
Remove(s) ==
    /\ hpc[s] = "leaving"
    /\ hpc' = [hpc EXCEPT ![s] = "gone"]
    /\ sock' = [sock EXCEPT ![s] = "closed"]
    /\ IF OwnEntry(s)
       THEN conn' = 0 /\ lost' = [lost EXCEPT ![s] = TRUE]
       ELSE UNCHANGED regVars
    /\ UNCHANGED <<nodeVars, toNode, toHub, gen, prev, lastGen, doomed,
                   machVars, callVars>>

\* CloseStale: no heartbeat for 95 seconds, be it that the socket is dead or
\* that the heartbeats were late.  The connections are collected under r.mu
\* and closed after it.
CloseStale ==
    /\ conn # 0
    /\ doomed' = doomed \cup {conn}
    /\ UNCHANGED <<nodeVars, wireVars, hubVars, lost, conn, machVars, callVars>>

\* WriteJSON and Close, for CloseStale and CloseMachine.
CloseDoomed(s) ==
    /\ s \in doomed
    /\ doomed' = doomed \ {s}
    /\ CloseConnection(s)
    /\ UNCHANGED <<nodeVars, toHub, hubVars, conn, machVars, callVars>>

-----------------------------------------------------------------------------
(***************************************************************************)
(* RevokeMachine.                                                          *)
(***************************************************************************)
Revoke ==
    /\ cur \in RevokeAt /\ revoke = "no"
    /\ active' = FALSE /\ revoke' = "committed"
    /\ UNCHANGED <<nodeVars, wireVars, hubVars, regVars, rconn, callVars>>

\* CloseMachine looks the connection up under r.mu, and closes it after that.
CloseMachine ==
    /\ revoke = "committed"
    /\ revoke' = "closing" /\ rconn' = conn
    /\ doomed' = doomed \cup ({conn} \ {0})
    /\ UNCHANGED <<nodeVars, wireVars, hubVars, lost, conn, active, callVars>>

RevokeReturns ==
    /\ revoke = "closing" /\ rconn \notin doomed
    /\ revoke' = "done"
    /\ UNCHANGED <<nodeVars, wireVars, hubVars, regVars, active, rconn,
                   callVars>>

-----------------------------------------------------------------------------
(***************************************************************************)
(* CallCapability, Registry.Call and Connection.Call.                      *)
(***************************************************************************)
Answer(c, a) ==
    /\ cpc' = [cpc EXCEPT ![c] = "done"]
    /\ answer' = [answer EXCEPT ![c] = a]

\* The status of the machine is checked.
Check(c) ==
    /\ cpc[c] = "idle"
    /\ IF active THEN cpc' = [cpc EXCEPT ![c] = "checked"] /\ UNCHANGED answer
                 ELSE Answer(c, "inactive")
    /\ UNCHANGED <<nodeVars, wireVars, hubVars, regVars, machVars, cconn,
                   writing, inbox>>

\* Registry.Call looks the connection up, under r.mu.
LookUp(c) ==
    /\ cpc[c] = "checked"
    /\ IF conn = 0 THEN Answer(c, "offline") /\ UNCHANGED cconn
       ELSE /\ cconn' = [cconn EXCEPT ![c] = conn]
            /\ cpc' = [cpc EXCEPT ![c] = "bound"]
            /\ UNCHANGED answer
    /\ UNCHANGED <<nodeVars, wireVars, hubVars, regVars, machVars, writing,
                   inbox>>

\* The call enters Connection.pending and, unless the connection is lost, a
\* goroutine starts to write the request.
Enroll(c) ==
    /\ cpc[c] = "bound"
    /\ IF lost[cconn[c]] THEN Answer(c, "lost") /\ UNCHANGED writing
       ELSE /\ cpc' = [cpc EXCEPT ![c] = "pending"]
            /\ writing' = writing \cup {c}
            /\ UNCHANGED answer
    /\ UNCHANGED <<nodeVars, wireVars, hubVars, regVars, machVars, cconn,
                   inbox>>

\* The goroutine has written the request; its call may have given up by then.
Written(c) ==
    LET s == cconn[c] IN
    /\ c \in writing /\ sock[s] # "closed"
    /\ writing' = writing \ {c}
    /\ Deliver(s, <<c>>)
    /\ cpc' = [cpc EXCEPT ![c] = IF @ = "pending" THEN "waiting" ELSE @]
    /\ UNCHANGED <<nodeVars, sock, toHub, hubVars, regVars, machVars, cconn,
                   inbox, answer>>

\* The write fails, because the socket is closed or because the call has given
\* up and its context is canceled; in that case the socket may stay as it is.
\* WriteJSON marks the connection lost either way.
WriteFails(c) ==
    LET s == cconn[c] IN
    /\ c \in writing /\ (sock[s] = "closed" \/ cpc[c] = "done")
    /\ writing' = writing \ {c}
    /\ lost' = [lost EXCEPT ![s] = TRUE]
    /\ \E k \in {sock[s], "closed"} : sock' = [sock EXCEPT ![s] = k]
    /\ IF cpc[c] = "pending" THEN Answer(c, "lost")
                             ELSE UNCHANGED <<cpc, answer>>
    /\ UNCHANGED <<nodeVars, toNode, toHub, hubVars, conn, doomed, machVars,
                   cconn, inbox>>

\* Mutant: a lost call is reported as if it had never been sent.
LostAsOffline(c) == Answer(c, "offline")

\* Mutant: the loss is not classified and reaches the caller as it is.
LostUnclassified(c) == Answer(c, "unclassified")

\* Mutant: a lost call is tried again on the machine's next connection.
LostIsRetried(c) ==
    cpc' = [cpc EXCEPT ![c] = "checked"] /\ UNCHANGED answer

ReportLost(c) == Answer(c, "lost")

\* closed ends the call, also while its write is under way.
FailLost(c) ==
    /\ cpc[c] \in {"pending", "waiting"} /\ lost[cconn[c]]
    /\ ReportLost(c)
    /\ UNCHANGED <<nodeVars, wireVars, hubVars, regVars, machVars, cconn,
                   writing, inbox>>

Receive(c) ==
    /\ cpc[c] = "waiting" /\ inbox[c] # "none"
    /\ Answer(c, inbox[c])
    /\ UNCHANGED <<nodeVars, wireVars, hubVars, regVars, machVars, cconn,
                   writing, inbox>>

\* ctx.Done(): the deadline of the call, or its caller has gone.
TimeOut(c) ==
    /\ cpc[c] \in {"pending", "waiting"}
    /\ Answer(c, "deadline")
    /\ UNCHANGED <<nodeVars, wireVars, hubVars, regVars, machVars, cconn,
                   writing, inbox>>

-----------------------------------------------------------------------------
NodeStep == NodeReadsHandshake \/ NodeReads

HandlerStep(s) ==
    \/ Admit(s) \/ Register(s) \/ CloseReplaced(s) \/ Touch(s) \/ Establish(s)
    \/ ReadResponse(s) \/ ReadFails(s) \/ Remove(s)

CallStep(c) ==
    LookUp(c) \/ Enroll(c) \/ Written(c) \/ WriteFails(c) \/ FailLost(c)
    \/ Receive(c)

Next ==
    \/ Dial \/ NodeEnds \/ NodeStep
    \/ \E c \in Calls : NodeExecutes(c) \/ NodeReplies(c)
    \/ \E s \in Sessions : \/ HandlerStep(s) \/ HeartbeatRejected(s)
                          \/ NetworkFails(s) \/ CloseDoomed(s)
    \/ CloseStale \/ Revoke \/ CloseMachine \/ RevokeReturns
    \/ \E c \in Calls : Check(c) \/ CallStep(c) \/ TimeOut(c)

Spec == Init /\ [][Next]_vars

(***************************************************************************)
(* Goroutines that can take a step take it; the Node notices by its        *)
(* heartbeats that its socket is not open any more, and the Hub's ticker   *)
(* that a socket is dead.  Nothing is assumed of the deadlines of calls.   *)
(***************************************************************************)
Fairness ==
    /\ WF_vars(NodeStep)
    /\ WF_vars(npc # "off" /\ sock[cur] # "open" /\ NodeEnds)
    /\ \A c \in Calls : /\ WF_vars(NodeReplies(c))
                        /\ WF_vars(CallStep(c))
    /\ \A s \in Sessions : WF_vars(HandlerStep(s)) /\ WF_vars(CloseDoomed(s))
    /\ WF_vars(conn # 0 /\ sock[conn] = "dead" /\ CloseStale)

FairSpec == Spec /\ Fairness

-----------------------------------------------------------------------------
(***************************************************************************)
(* Every variable holds a value of its kind.                               *)
(***************************************************************************)
TypeOK ==
    /\ npc \in {"off", "handshake", "online"} /\ cur \in 0..MaxSessions
    /\ handling \in [Calls -> {"no", "taken", "executed"}]
    /\ ran \in [Calls -> Nat]
    /\ via \in [Calls -> 0..MaxSessions]
    /\ sock \in [Sessions -> {"none", "open", "dead", "closed"}]
    /\ hpc \in [Sessions -> {"none", "hello", "admitted", "replacing",
                             "registered", "touched", "reading", "leaving",
                             "gone"}]
    /\ gen \in [Sessions -> Nat] /\ prev \in [Sessions -> 0..MaxSessions]
    /\ lost \in [Sessions -> BOOLEAN] /\ conn \in 0..MaxSessions
    /\ doomed \in SUBSET Sessions
    /\ lastGen \in Nat /\ active \in BOOLEAN
    /\ revoke \in {"no", "committed", "closing", "done"}
    /\ rconn \in 0..MaxSessions
    /\ cpc \in [Calls -> {"idle", "checked", "bound", "pending", "waiting",
                          "done"}]
    /\ cconn \in [Calls -> 0..MaxSessions] /\ writing \in SUBSET Calls
    /\ inbox \in [Calls -> {"none"} \cup Replies]
    /\ answer \in [Calls -> {"none", "offline", "inactive", "lost", "deadline"}
                              \cup Replies]

BeingReplaced(s) == \E t \in Sessions : hpc[t] = "replacing" /\ prev[t] = s

(***************************************************************************)
(* The one active connection: a handler that reads from a connection that  *)
(* is not lost owns the machine's entry of the registry, unless a newer    *)
(* handler has just taken it and is about to close this one.  The deferred *)
(* Remove of an older handler does not take the entry away.                *)
(***************************************************************************)
OneActiveConnection ==
    \A s \in Sessions : hpc[s] = "reading" /\ ~lost[s]
                            => conn = s \/ BeingReplaced(s)

(***************************************************************************)
(* The newest session stays callable: while its handler reads from an open *)
(* socket, no handler of an older session, late to register or to leave,   *)
(* takes the registry's entry from it.                                     *)
(***************************************************************************)
NewestStays ==
    \A s \in Sessions :
        hpc[s] = "reading" /\ sock[s] = "open" /\ gen[s] = lastGen => conn = s

(***************************************************************************)
(* When RevokeMachine has returned, no handler reads from an open socket,  *)
(* although handlers may have been admitted before the revocation and may  *)
(* register after it.                                                      *)
(***************************************************************************)
RevokedIsCutOff ==
    revoke = "done" =>
        \A s \in Sessions : hpc[s] = "reading"
                                => sock[s] = "closed" \/ BeingReplaced(s)

(***************************************************************************)
(* Errors that say "retry" are safe to retry for every action: the Node    *)
(* has not executed the call and never will (MACHINE_OFFLINE from the      *)
(* registry, RESOURCE_LIMIT and NODE_UPDATING from the Node).              *)
(***************************************************************************)
RetryIsSafe ==
    \A c \in Calls :
        answer[c] \in {"offline", "inactive", "limit", "refused"} =>
            /\ ran[c] = 0 /\ handling[c] = "no" /\ c \notin writing
            /\ \A s \in Sessions : c \notin Range(toNode[s])

(***************************************************************************)
(* A request is not replayed, over lost and replaced connections, and a    *)
(* successful answer is the answer of its execution.                       *)
(***************************************************************************)
NoReplay ==
    \A c \in Calls : /\ ran[c] <= 1
                     /\ answer[c] = "ok" => ran[c] = 1

(***************************************************************************)
(* Every call that was sent ends without its deadline: the answer comes,   *)
(* or the loss of the connection, its replacement or the missing           *)
(* heartbeats end it.                                                      *)
(***************************************************************************)
CallsEnd == \A c \in Calls : cpc[c] = "waiting" ~> cpc[c] = "done"

(***************************************************************************)
(* A connection on which calls fail as lost does not stay the machine's    *)
(* connection.                                                             *)
(***************************************************************************)
LostIsRemoved == \A s \in Sessions : conn = s /\ lost[s] ~> conn # s

\* The connection that the registry calls is the newest one; no older handler
\* keeps, takes or outlives it, and none survives a revocation.
ConnectionIsCurrent == OneActiveConnection /\ NewestStays /\ RevokedIsCutOff

\* What a caller is told of a call is true: "retry" means that it never ran,
\* and it runs once at most.
CallsAreSafe == RetryIsSafe /\ NoReplay
=============================================================================
