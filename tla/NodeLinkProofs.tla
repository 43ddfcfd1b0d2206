---------------------------- MODULE NodeLinkProofs ----------------------------
(***************************************************************************)
(* Proofs about the link between a Hub and a Node, for any number of       *)
(* sessions and calls: the newest session owns the machine's connection,   *)
(* a revoked machine is cut off, a call is executed once at most, and an   *)
(* error that says "retry" means that it was not and will not be.          *)
(***************************************************************************)
EXTENDS NodeLink, TLAPS

(***************************************************************************)
(* The connections.                                                        *)
(***************************************************************************)
\* Handlers that have been in the registry and have not yet removed themselves.
Registered == {"replacing", "registered", "touched", "reading", "leaving"}
HandlerSteps == Registered \cup {"none", "hello", "admitted", "gone"}
Sockets == {"none", "open", "dead", "closed"}

\* The types that the argument needs.
LinkTypes ==
    /\ npc \in {"off", "handshake", "online"} /\ cur \in 0..MaxSessions
    /\ npc # "off" => cur \in Sessions
    /\ sock \in [Sessions -> Sockets]
    /\ hpc \in [Sessions -> HandlerSteps]
    /\ gen \in [Sessions -> Nat] /\ prev \in [Sessions -> 0..MaxSessions]
    /\ lost \in [Sessions -> BOOLEAN] /\ conn \in 0..MaxSessions
    /\ doomed \in SUBSET Sessions /\ lastGen \in Nat

\* A session has a handler when it was dialled.
Dialled == \A s \in Sessions : hpc[s] = "none" <=> s > cur

\* NextGeneration: a handler that was admitted has a number of its own.
Generations ==
    /\ \A s \in Sessions : /\ gen[s] <= lastGen
                           /\ hpc[s] \in Registered \cup {"admitted"} => gen[s] > 0
                           /\ hpc[s] \in {"none", "hello"} => gen[s] = 0
    /\ \A s, t \in Sessions : gen[s] = gen[t] /\ gen[s] > 0 => s = t

\* Remove is the last thing that a handler does.
EntryIsRegistered == conn # 0 => hpc[conn] \in Registered

\* Register replaces older connections only, and those have been registered.
ReplacedIsOlder ==
    \A t \in Sessions : hpc[t] = "replacing" =>
        /\ prev[t] \in Sessions /\ prev[t] # t /\ gen[prev[t]] < gen[t]
        /\ hpc[prev[t]] \in Registered \cup {"gone"}

\* A handler whose connection is not the machine's is being replaced, or its
\* connection is lost and its socket closed.
OthersAreReplaced ==
    \A s \in Sessions : hpc[s] \in Registered =>
        conn = s \/ BeingReplaced(s) \/ (lost[s] /\ sock[s] = "closed")

\* Behind CloseMachine, what was established before is cut off, or is about to
\* be; nothing is established after the commit.
Revoked ==
    /\ revoke # "no" => ~active
    /\ revoke \in {"closing", "done"} => \A s \in Sessions : hpc[s] \in {"touched", "reading"} =>
          \/ sock[s] = "closed" \/ BeingReplaced(s)
          \/ revoke = "closing" /\ s = rconn /\ s \in doomed

LinkInv == /\ LinkTypes /\ Dialled /\ Generations /\ EntryIsRegistered /\ ReplacedIsOlder
           /\ OthersAreReplaced /\ Revoked

\* No session, no connection.
LEMMA LinkInit == Init => LinkInv
  BY SessionsAssumption
     DEF Init, LinkInv, LinkTypes, Dialled, Generations, EntryIsRegistered, ReplacedIsOlder,
         OthersAreReplaced, Revoked, Sessions, Registered, HandlerSteps, Sockets

(***************************************************************************)
(* A step that leaves the handlers and the registry alone: sockets that    *)
(* are closed stay closed, lost connections lost, and a connection that is *)
(* no longer about to be closed has been closed.                           *)
(***************************************************************************)
OnlySockets ==
    /\ UNCHANGED <<cur, hubVars, conn, machVars>>
    /\ npc' \in {"off", "handshake", "online"} /\ (npc' # "off" => npc # "off")
    /\ sock' \in [Sessions -> Sockets] /\ lost' \in [Sessions -> BOOLEAN]
    /\ doomed' \in SUBSET Sessions
    /\ \A s \in Sessions : /\ sock[s] = "closed" => sock'[s] = "closed"
                           /\ lost[s] => lost'[s]
                           /\ s \in doomed => s \in doomed' \/ sock'[s] = "closed"

\* Such a step keeps the invariant.
LEMMA OnlySocketsKeeps == LinkInv /\ OnlySockets => LinkInv'
  <1> SUFFICES ASSUME LinkInv, OnlySockets PROVE LinkInv'
    OBVIOUS
  <1> USE DEF LinkInv, OnlySockets, hubVars, machVars
  <1>1. LinkTypes' /\ Dialled'
    BY DEF LinkTypes, Dialled
  <1>2. Generations' /\ EntryIsRegistered' /\ ReplacedIsOlder'
    BY DEF Generations, EntryIsRegistered, ReplacedIsOlder
  <1>3. OthersAreReplaced' /\ Revoked'
    BY DEF OthersAreReplaced, Revoked, BeingReplaced
  <1> QED
    BY <1>1, <1>2, <1>3

(***************************************************************************)
(* A handler that is registered goes on; it is established only while the  *)
(* machine is active.                                                      *)
(***************************************************************************)
HandlerMoves(s) ==
    /\ UNCHANGED <<npc, cur, gen, prev, lastGen, conn, doomed, machVars>>
    /\ hpc[s] \in Registered \ {"replacing"}
    /\ \E at \in Registered \ {"replacing"} :
          /\ hpc' = [hpc EXCEPT ![s] = at]
          /\ at \in {"touched", "reading"} => active \/ hpc[s] \in {"touched", "reading"}
    /\ sock' \in [Sessions -> Sockets] /\ lost' \in [Sessions -> BOOLEAN]
    /\ \A t \in Sessions : /\ sock[t] = "closed" => sock'[t] = "closed"
                           /\ lost[t] => lost'[t]

\* Such a step keeps the invariant.
LEMMA HandlerMovesKeeps ==
    ASSUME LinkInv, NEW s \in Sessions, HandlerMoves(s)
    PROVE  LinkInv'
  <1> USE DEF LinkInv, HandlerMoves, machVars
  <1>1. PICK at \in Registered \ {"replacing"} :
          /\ hpc' = [hpc EXCEPT ![s] = at]
          /\ at \in {"touched", "reading"} => active \/ hpc[s] \in {"touched", "reading"}
    OBVIOUS
  <1>2. /\ hpc'[s] = at /\ \A t \in Sessions \ {s} : hpc'[t] = hpc[t]
        /\ \A t \in Sessions : hpc'[t] = "replacing" <=> hpc[t] = "replacing"
    BY <1>1 DEF LinkTypes, Registered
  <1>3. LinkTypes' /\ Dialled'
    BY <1>1, <1>2 DEF LinkTypes, Dialled, Registered, HandlerSteps
  <1>4. Generations' /\ EntryIsRegistered' /\ ReplacedIsOlder'
    BY <1>1, <1>2 DEF Generations, EntryIsRegistered, ReplacedIsOlder, Registered
  <1>5. \A t \in Sessions : BeingReplaced(t)' <=> BeingReplaced(t)
    BY <1>2 DEF BeingReplaced
  <1>6. OthersAreReplaced'
    BY <1>1, <1>2, <1>5 DEF OthersAreReplaced
  <1>7. Revoked'
    BY <1>1, <1>2, <1>5 DEF Revoked
  <1> QED
    BY <1>3, <1>4, <1>6, <1>7

\* A new session has no number yet and is in nobody's way.
LEMMA DialKeeps == LinkInv /\ Dial => LinkInv'
  <1> SUFFICES ASSUME LinkInv, Dial PROVE LinkInv'
    OBVIOUS
  <1> DEFINE s == cur + 1
  <1> USE DEF LinkInv, Dial, regVars, machVars
  <1>1. /\ s \in Sessions /\ cur' = s /\ hpc[s] = "none" /\ gen[s] = 0 /\ conn # s
        /\ hpc'[s] = "hello" /\ \A t \in Sessions \ {s} : hpc'[t] = hpc[t] /\ sock'[t] = sock[t]
        /\ UNCHANGED <<gen, prev, lastGen, lost, conn, doomed, active, revoke, rconn>>
    BY DEF LinkTypes, Dialled, Generations, EntryIsRegistered, Sessions, Registered
  <1>2. LinkTypes'
    BY <1>1 DEF LinkTypes, Sessions, HandlerSteps, Sockets
  <1>3. Dialled'
    BY <1>1, SessionsAssumption DEF Dialled, Sessions, LinkTypes
  <1>4. Generations' /\ EntryIsRegistered' /\ ReplacedIsOlder'
    BY <1>1 DEF Generations, EntryIsRegistered, ReplacedIsOlder, Registered, LinkTypes, Sessions
  <1>5. \A t \in Sessions : BeingReplaced(t)' <=> BeingReplaced(t)
    BY <1>1 DEF BeingReplaced
  <1>6. OthersAreReplaced' /\ Revoked'
    BY <1>1, <1>5 DEF OthersAreReplaced, Revoked, Registered
  <1> QED
    BY <1>2, <1>3, <1>4, <1>6

\* A handler that is turned away before it is registered.
LEMMA TurnedAwayKeeps ==
    ASSUME LinkInv, NEW s \in Sessions, hpc[s] \in {"hello", "admitted"},
           hpc' = [hpc EXCEPT ![s] = "gone"], sock' = [sock EXCEPT ![s] = "closed"],
           UNCHANGED <<npc, cur, gen, prev, lastGen, regVars, machVars>>
    PROVE  LinkInv'
  <1> USE DEF LinkInv, regVars, machVars
  <1>1. /\ hpc'[s] = "gone" /\ sock'[s] = "closed"
        /\ \A t \in Sessions \ {s} : hpc'[t] = hpc[t] /\ sock'[t] = sock[t]
    BY DEF LinkTypes
  <1>2. LinkTypes' /\ Dialled'
    BY <1>1 DEF LinkTypes, Dialled, HandlerSteps, Sockets
  <1>3. Generations' /\ EntryIsRegistered' /\ ReplacedIsOlder'
    BY <1>1 DEF Generations, EntryIsRegistered, ReplacedIsOlder, Registered
  <1>4. \A t \in Sessions : BeingReplaced(t)' <=> BeingReplaced(t)
    BY <1>1 DEF BeingReplaced
  <1>5. OthersAreReplaced' /\ Revoked'
    BY <1>1, <1>4 DEF OthersAreReplaced, Revoked, Registered
  <1> QED
    BY <1>2, <1>3, <1>5

\* Admit gives the next number, or turns the Node away.
LEMMA AdmitKeeps ==
    ASSUME LinkInv, NEW s \in Sessions, Admit(s)
    PROVE  LinkInv'
  <1>1. CASE hpc' = [hpc EXCEPT ![s] = "gone"]
    <2>1. /\ hpc[s] = "hello" /\ sock' = [sock EXCEPT ![s] = "closed"]
          /\ UNCHANGED <<npc, cur, gen, prev, lastGen, regVars, machVars>>
      BY <1>1 DEF Admit, nodeVars, LinkInv, LinkTypes
    <2> QED
      BY <1>1, <2>1, TurnedAwayKeeps
  <1>2. CASE hpc' = [hpc EXCEPT ![s] = "admitted"]
    <2> USE DEF LinkInv, Admit, nodeVars, regVars, machVars
    <2>1. /\ hpc[s] = "hello" /\ lastGen' = lastGen + 1 /\ gen' = [gen EXCEPT ![s] = lastGen + 1]
          /\ UNCHANGED <<npc, cur, sock, prev, lost, conn, doomed, active, revoke, rconn>>
      BY <1>2 DEF LinkTypes
    <2>2. /\ hpc'[s] = "admitted" /\ gen'[s] = lastGen + 1 /\ gen[s] = 0
          /\ \A t \in Sessions \ {s} : hpc'[t] = hpc[t] /\ gen'[t] = gen[t]
      BY <1>2, <2>1 DEF LinkTypes, Generations
    <2>3. LinkTypes'
      BY <1>2, <2>1, <2>2 DEF LinkTypes, HandlerSteps
    <2>4. Dialled' /\ EntryIsRegistered'
      BY <2>1, <2>2 DEF Dialled, EntryIsRegistered, Registered, LinkTypes, Sessions
    <2>5. Generations'
      BY <2>1, <2>2 DEF Generations, LinkTypes, Registered
    <2>6. ReplacedIsOlder'
      BY <2>1, <2>2 DEF ReplacedIsOlder, Generations, LinkTypes
    <2>7. \A t \in Sessions : BeingReplaced(t)' <=> BeingReplaced(t)
      BY <2>1, <2>2 DEF BeingReplaced
    <2>8. OthersAreReplaced' /\ Revoked'
      BY <2>1, <2>2, <2>7 DEF OthersAreReplaced, Revoked, Registered
    <2> QED
      BY <2>3, <2>4, <2>5, <2>6, <2>8
  <1> QED
    BY <1>1, <1>2 DEF Admit

\* Register takes the entry from an older connection, which it is to close.
LEMMA RegisterKeeps ==
    ASSUME LinkInv, NEW s \in Sessions, Register(s)
    PROVE  LinkInv'
  <1>1. CASE ~Newer(s)
    <2>1. /\ hpc[s] = "admitted" /\ hpc' = [hpc EXCEPT ![s] = "gone"]
          /\ sock' = [sock EXCEPT ![s] = "closed"]
          /\ UNCHANGED <<npc, cur, gen, prev, lastGen, regVars, machVars>>
      BY <1>1 DEF Register, nodeVars, regVars
    <2> QED
      BY <2>1, TurnedAwayKeeps
  <1>2. CASE Newer(s)
    <2> DEFINE at == IF conn = 0 THEN "registered" ELSE "replacing"
    <2> USE DEF LinkInv, machVars, nodeVars
    <2>1. /\ hpc[s] = "admitted" /\ conn' = s /\ prev' = [prev EXCEPT ![s] = conn]
          /\ hpc' = [hpc EXCEPT ![s] = at]
          /\ UNCHANGED <<npc, cur, sock, gen, lastGen, lost, doomed, active, revoke, rconn>>
      BY <1>2 DEF Register
    <2>2. /\ hpc'[s] = at /\ prev'[s] = conn /\ conn # s /\ (conn # 0 => conn \in Sessions)
          /\ \A t \in Sessions \ {s} : hpc'[t] = hpc[t] /\ prev'[t] = prev[t]
      BY <2>1 DEF LinkTypes, EntryIsRegistered, Registered, Sessions
    <2>3. LinkTypes' /\ Dialled'
      BY <2>1, <2>2 DEF LinkTypes, Dialled, HandlerSteps, Registered, Sessions
    <2>4. Generations' /\ EntryIsRegistered'
      BY <2>1, <2>2 DEF Generations, EntryIsRegistered, Registered
    <2>5. ReplacedIsOlder'
      <3> SUFFICES ASSUME NEW t \in Sessions, hpc'[t] = "replacing"
                   PROVE  /\ prev'[t] \in Sessions /\ prev'[t] # t /\ gen[prev'[t]] < gen[t]
                          /\ hpc'[prev'[t]] \in Registered \cup {"gone"}
        BY <2>1 DEF ReplacedIsOlder
      <3>1. CASE t = s
        BY <1>2, <2>1, <2>2, <3>1 DEF Newer, EntryIsRegistered
      <3>2. CASE t # s
        <4>1. prev[t] # s
          BY <2>1, <2>2, <3>2 DEF ReplacedIsOlder, Registered
        <4> QED
          BY <2>2, <3>2, <4>1 DEF ReplacedIsOlder
      <3> QED
        BY <3>1, <3>2
    <2>6. \A t \in Sessions : /\ BeingReplaced(t) => BeingReplaced(t)'
                              /\ conn = t => BeingReplaced(t)'
      BY <2>1, <2>2 DEF BeingReplaced, Sessions
    <2>7. OthersAreReplaced' /\ Revoked'
      BY <2>1, <2>2, <2>6 DEF OthersAreReplaced, Revoked, Registered
    <2> QED
      BY <2>3, <2>4, <2>5, <2>7
  <1> QED
    BY <1>1, <1>2

\* The replaced connection is closed before its successor goes on.
LEMMA CloseReplacedKeeps ==
    ASSUME LinkInv, NEW s \in Sessions, CloseReplaced(s)
    PROVE  LinkInv'
  <1> DEFINE p == prev[s]
  <1> USE DEF LinkInv, machVars, nodeVars
  <1>1. /\ hpc[s] = "replacing" /\ hpc' = [hpc EXCEPT ![s] = "registered"]
        /\ p \in Sessions /\ p # s
        /\ sock' = [sock EXCEPT ![p] = "closed"] /\ lost' = [lost EXCEPT ![p] = TRUE]
        /\ UNCHANGED <<npc, cur, gen, prev, lastGen, conn, doomed, active, revoke, rconn>>
    BY DEF CloseReplaced, CloseConnection, ReplacedIsOlder
  <1>2. /\ hpc'[s] = "registered" /\ sock'[p] = "closed" /\ lost'[p]
        /\ \A t \in Sessions \ {s} : hpc'[t] = hpc[t]
        /\ \A t \in Sessions \ {p} : sock'[t] = sock[t] /\ lost'[t] = lost[t]
    BY <1>1 DEF LinkTypes
  <1>3. LinkTypes' /\ Dialled'
    BY <1>1, <1>2 DEF LinkTypes, Dialled, HandlerSteps, Registered, Sockets
  <1>4. Generations' /\ EntryIsRegistered' /\ ReplacedIsOlder'
    BY <1>1, <1>2 DEF Generations, EntryIsRegistered, ReplacedIsOlder, Registered
  <1>5. \A t \in Sessions \ {p} : BeingReplaced(t) => BeingReplaced(t)'
    BY <1>1, <1>2 DEF BeingReplaced
  <1>6. OthersAreReplaced'
    BY <1>1, <1>2, <1>5 DEF OthersAreReplaced, Registered
  <1>7. Revoked'
    BY <1>1, <1>2, <1>5 DEF Revoked
  <1> QED
    BY <1>3, <1>4, <1>6, <1>7

\* The deferred Remove takes away no entry but its own.
LEMMA RemoveKeeps ==
    ASSUME LinkInv, NEW s \in Sessions, Remove(s)
    PROVE  LinkInv'
  <1> USE DEF LinkInv, machVars, nodeVars, regVars
  <1>1. /\ hpc[s] = "leaving" /\ hpc' = [hpc EXCEPT ![s] = "gone"]
        /\ sock' = [sock EXCEPT ![s] = "closed"]
        /\ conn' = (IF conn = s THEN 0 ELSE conn)
        /\ lost' \in [Sessions -> BOOLEAN] /\ \A t \in Sessions \ {s} : lost'[t] = lost[t]
        /\ UNCHANGED <<npc, cur, gen, prev, lastGen, doomed, active, revoke, rconn>>
    BY DEF Remove, OwnEntry, LinkTypes
  <1>2. /\ hpc'[s] = "gone" /\ sock'[s] = "closed"
        /\ \A t \in Sessions \ {s} : hpc'[t] = hpc[t] /\ sock'[t] = sock[t]
    BY <1>1 DEF LinkTypes
  <1>3. conn' \in 0..MaxSessions
    BY <1>1, SessionsAssumption DEF LinkTypes
  <1>7. LinkTypes' /\ Dialled'
    BY <1>1, <1>2, <1>3 DEF LinkTypes, Dialled, HandlerSteps, Sockets
  <1>4. Generations' /\ EntryIsRegistered' /\ ReplacedIsOlder'
    BY <1>1, <1>2 DEF Generations, EntryIsRegistered, ReplacedIsOlder, Registered, LinkTypes, Sessions
  <1>5. \A t \in Sessions : BeingReplaced(t) => BeingReplaced(t)'
    BY <1>1, <1>2 DEF BeingReplaced
  <1>6. OthersAreReplaced' /\ Revoked'
    BY <1>1, <1>2, <1>5 DEF OthersAreReplaced, Revoked, Registered
  <1> QED
    BY <1>4, <1>6, <1>7

\* RevokeMachine: the machine is not active, then its connection is closed.
LEMMA RevocationKeeps ==
    ASSUME LinkInv, Revoke \/ CloseMachine \/ RevokeReturns
    PROVE  LinkInv'
  <1> USE DEF LinkInv, nodeVars, wireVars, hubVars, regVars, machVars
  <1>1. /\ UNCHANGED <<npc, cur, sock, hpc, gen, prev, lost, conn, lastGen>>
        /\ doomed \subseteq doomed' /\ doomed' \in SUBSET Sessions
    <2> DEFINE found == {conn} \ {0}
    <2>1. found \subseteq Sessions /\ doomed \subseteq Sessions
      BY DEF LinkTypes, Sessions
    <2>2. doomed' = doomed \/ doomed' = doomed \cup found
      BY DEF Revoke, CloseMachine, RevokeReturns
    <2>3. doomed \subseteq doomed' /\ doomed' \in SUBSET Sessions
      <3> HIDE DEF found
      <3> QED
        BY <2>1, <2>2
    <2> QED
      BY <2>3 DEF Revoke, CloseMachine, RevokeReturns
  <1>2. LinkTypes' /\ Dialled' /\ Generations' /\ EntryIsRegistered' /\ ReplacedIsOlder'
    BY <1>1 DEF LinkTypes, Dialled, Generations, EntryIsRegistered, ReplacedIsOlder
  <1>3. \A t \in Sessions : BeingReplaced(t) <=> BeingReplaced(t)'
    BY <1>1 DEF BeingReplaced
  <1>4. OthersAreReplaced'
    BY <1>1, <1>3 DEF OthersAreReplaced
  <1>5. ASSUME Revoke PROVE Revoked'
    BY <1>1, <1>5 DEF Revoke, Revoked
  <1>6. ASSUME CloseMachine PROVE Revoked'
    BY <1>1, <1>3, <1>6 DEF CloseMachine, Revoked, OthersAreReplaced, Registered, Sessions
  <1>7. ASSUME RevokeReturns PROVE Revoked'
    BY <1>1, <1>3, <1>7 DEF RevokeReturns, Revoked
  <1> QED
    BY <1>2, <1>4, <1>5, <1>6, <1>7

\* The steps of a handler.
LEMMA HandlerKeeps ==
    ASSUME LinkInv, NEW s \in Sessions, HandlerStep(s) \/ HeartbeatRejected(s)
    PROVE  LinkInv'
  <1> USE DEF nodeVars, wireVars, hubVars, regVars
  <1>1. ASSUME Touch(s) PROVE HandlerMoves(s)
    BY <1>1 DEF Touch, TouchSucceeds, HandlerMoves, LinkInv, LinkTypes, Registered, Sockets
  <1>2. ASSUME Establish(s) PROVE HandlerMoves(s)
    BY <1>2 DEF Establish, HandlerMoves, LinkInv, LinkTypes, Registered
  <1>3. ASSUME ReadFails(s) \/ HeartbeatRejected(s) PROVE HandlerMoves(s)
    BY <1>3 DEF ReadFails, HeartbeatRejected, HandlerMoves, LinkInv, LinkTypes, Registered
  <1>4. ASSUME ReadResponse(s) PROVE OnlySockets
    BY <1>4 DEF ReadResponse, OnlySockets, LinkInv, LinkTypes
  <1> QED
    BY <1>1, <1>2, <1>3, <1>4, HandlerMovesKeeps, OnlySocketsKeeps, AdmitKeeps, RegisterKeeps,
       CloseReplacedKeeps, RemoveKeeps DEF HandlerStep

\* Every other step leaves the handlers and the registry alone.
LEMMA OtherStepsKeep ==
    ASSUME LinkInv,
           \/ NodeEnds \/ NodeStep \/ CloseStale \/ UNCHANGED vars
           \/ \E c \in Calls : NodeExecutes(c) \/ NodeReplies(c) \/ Check(c) \/ CallStep(c) \/ TimeOut(c)
           \/ \E s \in Sessions : NetworkFails(s) \/ CloseDoomed(s)
    PROVE  LinkInv'
  <1> USE DEF LinkInv, LinkTypes, OnlySockets, nodeVars, wireVars, hubVars, regVars, machVars
  <1>1. ASSUME NodeEnds PROVE OnlySockets
    BY <1>1 DEF NodeEnds, Sockets
  <1>2. ASSUME NodeStep PROVE OnlySockets
    BY <1>2 DEF NodeStep, NodeReadsHandshake, NodeReads, Sockets
  <1>3. ASSUME CloseStale PROVE OnlySockets
    BY <1>3 DEF CloseStale, Sessions
  <1>4. ASSUME UNCHANGED vars PROVE OnlySockets
    BY <1>4 DEF vars
  <1>5. ASSUME NEW c \in Calls, NodeExecutes(c) \/ NodeReplies(c) \/ Check(c) \/ TimeOut(c)
        PROVE  OnlySockets
    BY <1>5 DEF NodeExecutes, NodeReplies, Check, TimeOut
  <1>6. ASSUME NEW c \in Calls, CallStep(c) PROVE OnlySockets
    <2>1. ASSUME LookUp(c) \/ Enroll(c) \/ FailLost(c) \/ Receive(c) \/ Written(c) PROVE OnlySockets
      BY <2>1 DEF LookUp, Enroll, FailLost, Receive, Written
    <2>2. ASSUME WriteFails(c) PROVE OnlySockets
      BY <2>2 DEF WriteFails, Sockets
    <2> QED
      BY <1>6, <2>1, <2>2 DEF CallStep
  <1>7. ASSUME NEW s \in Sessions, NetworkFails(s) PROVE OnlySockets
    BY <1>7 DEF NetworkFails, Sockets
  <1>8. ASSUME NEW s \in Sessions, CloseDoomed(s) PROVE OnlySockets
    BY <1>8 DEF CloseDoomed, CloseConnection, Sockets
  <1> HIDE DEF LinkInv, LinkTypes, OnlySockets, nodeVars, wireVars, hubVars, regVars, machVars
  <1> QED
    BY <1>1, <1>2, <1>3, <1>4, <1>5, <1>6, <1>7, <1>8, OnlySocketsKeeps

\* Every step keeps the invariant.
LEMMA LinkStep == LinkInv /\ [Next]_vars => LinkInv'
  BY DialKeeps, RevocationKeeps, HandlerKeeps, OtherStepsKeep DEF Next

(***************************************************************************)
(* The one active connection is the newest, and a revocation cuts the      *)
(* machine off.                                                            *)
(***************************************************************************)
THEOREM LinkIsCurrent == Spec => []ConnectionIsCurrent
  <1>1. LinkInv => ConnectionIsCurrent
    <2> SUFFICES ASSUME LinkInv PROVE ConnectionIsCurrent
      OBVIOUS
    <2>1. OneActiveConnection
      BY DEF LinkInv, OthersAreReplaced, OneActiveConnection, Registered
    <2>2. NewestStays
      <3> SUFFICES ASSUME NEW s \in Sessions, hpc[s] = "reading", sock[s] = "open",
                          gen[s] = lastGen, BeingReplaced(s)
                   PROVE  FALSE
        BY DEF NewestStays, LinkInv, OthersAreReplaced, Registered
      <3>1. PICK t \in Sessions : hpc[t] = "replacing" /\ prev[t] = s
        BY DEF BeingReplaced
      <3>2. gen[s] < gen[t] /\ gen[t] <= lastGen /\ gen[t] \in Nat /\ gen[s] \in Nat
        BY <3>1 DEF LinkInv, LinkTypes, ReplacedIsOlder, Generations
      <3> QED
        BY <3>2
    <2>3. RevokedIsCutOff
      BY DEF LinkInv, Revoked, RevokedIsCutOff
    <2> QED
      BY <2>1, <2>2, <2>3 DEF ConnectionIsCurrent
  <1> QED
    BY <1>1, LinkInit, LinkStep, PTL DEF Spec

-----------------------------------------------------------------------------
(***************************************************************************)
(* The calls.                                                              *)
(***************************************************************************)
Messages == Calls \cup {"established", "close"}
Steps == {"idle", "checked", "bound", "pending", "waiting", "done"}
Ends == {"none", "offline", "inactive", "lost", "deadline"} \cup Replies

\* The types that the argument needs.
CallTypes ==
    /\ handling \in [Calls -> {"no", "taken", "executed"}]
    /\ ran \in [Calls -> Nat] /\ via \in [Calls -> 0..MaxSessions]
    /\ toNode \in [Sessions -> Seq(Messages)]
    /\ toHub \in [Sessions -> Seq(Calls \X Replies)]
    /\ active \in BOOLEAN /\ revoke \in {"no", "committed", "closing", "done"}
    /\ rconn \in 0..MaxSessions
    /\ cpc \in [Calls -> Steps] /\ cconn \in [Calls -> 0..MaxSessions]
    /\ writing \in SUBSET Calls
    /\ inbox \in [Calls -> {"none"} \cup Replies] /\ answer \in [Calls -> Ends]

\* A message is at one place of a queue at most.
Once(q, m) == \A i, j \in DOMAIN q : q[i] = m /\ q[j] = m => i = j

OnWire(c) == \E s \in Sessions : c \in Range(toNode[s])

\* The Node has not executed the call and will not.
NeverRuns(c) == c \notin writing /\ ~OnWire(c) /\ handling[c] = "no" /\ ran[c] = 0

\* A response is on its way to the caller, or has reached it.
Told(c, what) == \/ \E s \in Sessions : <<c, what>> \in Range(toHub[s])
                 \/ inbox[c] = what \/ answer[c] = what

\* The request of a call is at one place: in the hands of the goroutine that
\* writes it, on the wire of the call's connection, or at the Node.
OneRequest(c) ==
    /\ \A s \in Sessions : c \in Range(toNode[s]) => s = cconn[c] /\ Once(toNode[s], c)
    /\ c \in writing => ~OnWire(c)
    /\ c \in writing \/ OnWire(c) => handling[c] = "no" /\ ran[c] = 0
    /\ handling[c] = "taken" => ran[c] = 0
    /\ handling[c] = "executed" => ran[c] = 1
    /\ ran[c] <= 1

\* Before the request is written there is no answer from the Node; a refusal
\* and a success tell the truth; and an answer ends its call.
Answers(c) ==
    /\ cpc[c] \in {"idle", "checked", "bound"} \/ answer[c] \in {"offline", "inactive"} =>
          NeverRuns(c) /\ \A r \in Replies : ~Told(c, r)
    /\ Told(c, "limit") \/ Told(c, "refused") => NeverRuns(c)
    /\ Told(c, "ok") => ran[c] = 1
    /\ answer[c] # "none" => cpc[c] = "done"

CallSafe(c) == OneRequest(c) /\ Answers(c)

CallInv == CallTypes /\ \A c \in Calls : CallSafe(c)

-----------------------------------------------------------------------------
(***************************************************************************)
(* What the operations on queues do to the messages in them.               *)
(***************************************************************************)
\* The rest of a queue has the messages of the queue, its first one perhaps not.
LEMMA TailFacts ==
    ASSUME NEW S, NEW q \in Seq(S), q # <<>>
    PROVE  /\ Head(q) \in S /\ Tail(q) \in Seq(S) /\ Head(q) \in Range(q)
           /\ Range(Tail(q)) \subseteq Range(q)
           /\ \A m : Once(q, m) => Once(Tail(q), m)
           /\ Once(q, Head(q)) => Head(q) \notin Range(Tail(q))
  <1>1. /\ Len(q) \in Nat /\ Len(q) > 0 /\ DOMAIN q = 1..Len(q) /\ q \in [1..Len(q) -> S]
        /\ Head(q) = q[1] /\ Tail(q) \in Seq(S) /\ Len(Tail(q)) = Len(q) - 1
        /\ DOMAIN Tail(q) = 1..(Len(q) - 1)
        /\ \A i \in 1..(Len(q) - 1) : Tail(q)[i] = q[i + 1]
    OBVIOUS
  <1>2. \A i \in DOMAIN Tail(q) : i + 1 \in DOMAIN q /\ Tail(q)[i] = q[i + 1] /\ i \in Int
    BY <1>1
  <1>3. \A m : Once(q, m) => Once(Tail(q), m)
    BY <1>2 DEF Once
  <1>4. Once(q, Head(q)) => Head(q) \notin Range(Tail(q))
    BY <1>1, <1>2 DEF Once, Range
  <1>5. Range(Tail(q)) \subseteq Range(q)
    BY <1>2 DEF Range
  <1> QED
    BY <1>1, <1>3, <1>4, <1>5 DEF Range

\* A message at the end of a queue.
LEMMA ConcatFacts ==
    ASSUME NEW S, NEW q \in Seq(S), NEW m \in S
    PROVE  /\ q \o <<m>> \in Seq(S) /\ Range(q \o <<m>>) \subseteq Range(q) \cup {m}
           /\ \A n : Once(q, n) /\ (n # m \/ n \notin Range(q)) => Once(q \o <<m>>, n)
  <1> DEFINE r == q \o <<m>>
  <1>1. /\ Len(q) \in Nat /\ DOMAIN q = 1..Len(q) /\ r \in Seq(S) /\ DOMAIN r = 1..(Len(q) + 1)
        /\ \A i \in 1..Len(q) : r[i] = q[i]
        /\ r[Len(q) + 1] = m
    OBVIOUS
  <1> HIDE DEF r
  <1>2. \A i \in DOMAIN r : (i \in DOMAIN q /\ r[i] = q[i]) \/ (i = Len(q) + 1 /\ r[i] = m)
    BY <1>1
  <1>3. Range(r) \subseteq Range(q) \cup {m}
    BY <1>2 DEF Range
  <1>4. ASSUME NEW n, Once(q, n), n # m \/ n \notin Range(q) PROVE Once(r, n)
    BY <1>2, <1>4 DEF Once, Range
  <1> QED
    BY <1>1, <1>3, <1>4 DEF r

\* Append is such an end.
LEMMA AppendFacts ==
    ASSUME NEW S, NEW q \in Seq(S), NEW m \in S
    PROVE  Append(q, m) \in Seq(S) /\ Range(Append(q, m)) \subseteq Range(q) \cup {m}
  <1>1. Append(q, m) = q \o <<m>>
    OBVIOUS
  <1> QED
    BY <1>1, ConcatFacts

\* Deliver writes one message to one socket, or it is lost.
LEMMA DeliverFacts ==
    ASSUME CallTypes, NEW s, NEW m \in Messages, Deliver(s, <<m>>)
    PROVE  /\ toNode' \in [Sessions -> Seq(Messages)]
           /\ \A t \in Sessions :
                 /\ Range(toNode'[t]) \subseteq Range(toNode[t]) \cup {m}
                 /\ t # s => toNode'[t] = toNode[t]
                 /\ \A n : Once(toNode[t], n) /\ (n # m \/ n \notin Range(toNode[t]))
                              => Once(toNode'[t], n)
  <1>1. /\ toNode \in [Sessions -> Seq(Messages)]
        /\ toNode' = [toNode EXCEPT ![s] = IF sock[s] = "open" THEN @ \o <<m>> ELSE @]
    BY DEF CallTypes, Deliver
  <1>2. ASSUME NEW t \in Sessions
        PROVE  /\ toNode[t] \in Seq(Messages)
               /\ toNode'[t] = toNode[t] \/ toNode'[t] = toNode[t] \o <<m>>
               /\ t # s => toNode'[t] = toNode[t]
    BY <1>1
  <1>3. toNode' \in [Sessions -> Seq(Messages)]
    BY <1>1, <1>2, ConcatFacts
  <1>4. ASSUME NEW t \in Sessions
        PROVE  /\ Range(toNode'[t]) \subseteq Range(toNode[t]) \cup {m}
               /\ \A n : Once(toNode[t], n) /\ (n # m \/ n \notin Range(toNode[t]))
                            => Once(toNode'[t], n)
    <2> DEFINE q == toNode[t]
               r == toNode'[t]
    <2>1. q \in Seq(Messages) /\ (r = q \/ r = q \o <<m>>)
      BY <1>2
    <2> HIDE DEF q, r
    <2> DEFINE p == q \o <<m>>
    <2>2. /\ Range(p) \subseteq Range(q) \cup {m}
          /\ \A n : Once(q, n) /\ (n # m \/ n \notin Range(q)) => Once(p, n)
      BY <2>1, ConcatFacts
    <2>3. r = q \/ r = p
      BY <2>1
    <2> HIDE DEF p
    <2>4. /\ Range(r) \subseteq Range(q) \cup {m}
          /\ \A n : Once(q, n) /\ (n # m \/ n \notin Range(q)) => Once(r, n)
      BY <2>2, <2>3
    <2> QED
      BY <2>4 DEF q, r
  <1> QED
    BY <1>2, <1>3, <1>4

\* Reply sends one response to one session, or it is lost.
LEMMA ReplyFacts ==
    ASSUME CallTypes, NEW s, NEW c \in Calls, NEW what \in Replies, Reply(s, c, what)
    PROVE  /\ toHub' \in [Sessions -> Seq(Calls \X Replies)]
           /\ \A t \in Sessions : Range(toHub'[t]) \subseteq Range(toHub[t]) \cup {<<c, what>>}
  <1> DEFINE m == <<c, what>>
  <1>1. /\ toHub \in [Sessions -> Seq(Calls \X Replies)] /\ m \in Calls \X Replies
        /\ toHub' = [toHub EXCEPT ![s] = IF s = cur /\ npc = "online" /\ sock[s] = "open"
                                         THEN Append(@, m) ELSE @]
    BY DEF CallTypes, Reply
  <1> HIDE DEF m
  <1>2. ASSUME NEW t \in Sessions
        PROVE  /\ toHub[t] \in Seq(Calls \X Replies)
               /\ toHub'[t] = toHub[t] \/ toHub'[t] = Append(toHub[t], m)
    BY <1>1
  <1>3. toHub' \in [Sessions -> Seq(Calls \X Replies)]
    BY <1>1, <1>2, AppendFacts
  <1>4. \A t \in Sessions : Range(toHub'[t]) \subseteq Range(toHub[t]) \cup {m}
    BY <1>1, <1>2, AppendFacts
  <1> QED
    BY <1>3, <1>4 DEF m

-----------------------------------------------------------------------------
(***************************************************************************)
(* A step that brings a call no nearer to its execution: the request does  *)
(* not get on the wire, nothing new is told.                               *)
(***************************************************************************)
Unsent(c) == cpc[c] \in {"idle", "checked", "bound"} \/ answer[c] \in {"offline", "inactive"}

Fades(c) ==
    /\ handling'[c] = handling[c] /\ ran'[c] = ran[c]
    /\ cconn'[c] = cconn[c] \/ cpc[c] = "checked"
    /\ c \in writing' => c \in writing
    /\ \A s \in Sessions : /\ c \in Range(toNode'[s]) => c \in Range(toNode[s])
                           /\ Once(toNode[s], c) => Once(toNode'[s], c)
    /\ Unsent(c)' => Unsent(c)
    /\ answer'[c] = answer[c] \/ cpc'[c] = "done"
    /\ cpc[c] = "done" => cpc'[c] = "done"
    /\ \A r \in Replies : Told(c, r)' => Told(c, r)

\* Such a step keeps what is claimed of the call.
LEMMA FadesKeeps ==
    ASSUME NEW c \in Calls, CallSafe(c), Fades(c)
    PROVE  CallSafe(c)'
  <1>1. OnWire(c)' => OnWire(c)
    BY DEF Fades, OnWire
  <1>2. NeverRuns(c) => NeverRuns(c)'
    BY <1>1 DEF Fades, NeverRuns
  <1>3. OneRequest(c)'
    <2>1. cpc[c] = "checked" => NeverRuns(c)
      BY DEF CallSafe, Answers
    <2> QED
      BY <1>1, <2>1 DEF Fades, CallSafe, OneRequest, OnWire, NeverRuns
  <1>4. Answers(c)'
    <2> USE DEF Replies, Fades, CallSafe, Answers
    <2>1. Unsent(c)' => NeverRuns(c)' /\ \A r \in Replies : ~Told(c, r)'
      BY <1>2 DEF Unsent
    <2>2. Told(c, "limit")' \/ Told(c, "refused")' => NeverRuns(c)'
      BY <1>2
    <2>3. Told(c, "ok")' => ran'[c] = 1
      OBVIOUS
    <2> QED
      BY <2>1, <2>2, <2>3 DEF Unsent
  <1> QED
    BY <1>3, <1>4 DEF CallSafe

(***************************************************************************)
(* A step of the connections: requests may get lost, and no call notices.  *)
(***************************************************************************)
OnlyLoses ==
    /\ UNCHANGED <<handling, ran, via, toHub, callVars>>
    /\ toNode' \in [Sessions -> Seq(Messages)]
    /\ active' \in BOOLEAN /\ revoke' \in {"no", "committed", "closing", "done"}
    /\ rconn' \in 0..MaxSessions
    /\ \A s \in Sessions :
          /\ Range(toNode'[s]) \subseteq Range(toNode[s]) \cup {"close", "established"}
          /\ \A c \in Calls : Once(toNode[s], c) => Once(toNode'[s], c)

\* Such a step keeps the invariant.
LEMMA OnlyLosesKeeps ==
    ASSUME CallInv, OnlyLoses
    PROVE  CallInv'
  <1> USE DEF OnlyLoses, callVars
  <1>1. CallTypes'
    BY DEF CallInv, CallTypes
  <1>2. ASSUME NEW c \in Calls PROVE CallSafe(c)'
    <2>1. c \notin {"close", "established"}
      BY CallsAssumption
    <2>2. Fades(c)
      BY <2>1 DEF Fades, Unsent, Told
    <2> QED
      BY <2>2, FadesKeeps DEF CallInv
  <1> QED
    BY <1>1, <1>2 DEF CallInv

\* The Node takes the first message of its session, or drops them all.
LEMMA ShrinkFacts ==
    ASSUME CallTypes, cur \in Sessions, NEW q,
           q = <<>> \/ (toNode[cur] # <<>> /\ q = Tail(toNode[cur])),
           toNode' = [toNode EXCEPT ![cur] = q]
    PROVE  /\ toNode' \in [Sessions -> Seq(Messages)] /\ toNode'[cur] = q
           /\ \A s \in Sessions : /\ Range(toNode'[s]) \subseteq Range(toNode[s])
                                  /\ \A c : Once(toNode[s], c) => Once(toNode'[s], c)
  <1>1. toNode \in [Sessions -> Seq(Messages)] /\ toNode[cur] \in Seq(Messages)
    BY DEF CallTypes
  <1>2. /\ q \in Seq(Messages) /\ Range(q) \subseteq Range(toNode[cur])
        /\ \A c : Once(toNode[cur], c) => Once(q, c)
    <2>1. CASE q = <<>>
      BY <2>1 DEF Range, Once
    <2>2. CASE toNode[cur] # <<>> /\ q = Tail(toNode[cur])
      BY <1>1, <2>2, TailFacts
    <2> QED
      BY <2>1, <2>2
  <1>3. /\ toNode' \in [Sessions -> Seq(Messages)] /\ toNode'[cur] = q
        /\ \A s \in Sessions \ {cur} : toNode'[s] = toNode[s]
    BY <1>1, <1>2
  <1> QED
    BY <1>2, <1>3

\* The steps of the connections are of this kind.
LEMMA ConnectionsKeepCalls ==
    ASSUME CallInv, LinkTypes,
           \/ Dial \/ NodeEnds \/ NodeReadsHandshake
           \/ CloseStale \/ Revoke \/ CloseMachine \/ RevokeReturns \/ UNCHANGED vars
           \/ \E s \in Sessions :
                 \/ Admit(s) \/ Register(s) \/ CloseReplaced(s) \/ Touch(s) \/ Establish(s)
                 \/ ReadFails(s) \/ Remove(s) \/ HeartbeatRejected(s)
                 \/ NetworkFails(s) \/ CloseDoomed(s)
    PROVE  CallInv'
  <1> USE DEF nodeVars, wireVars, hubVars, regVars, machVars, callVars
  <1>1. CallTypes
    BY DEF CallInv
  <1>2. ASSUME UNCHANGED <<handling, ran, via, toNode, toHub, callVars>>,
               active' \in BOOLEAN, revoke' \in {"no", "committed", "closing", "done"},
               rconn' \in 0..MaxSessions
        PROVE  OnlyLoses
    BY <1>1, <1>2 DEF OnlyLoses, CallTypes
  <1>3. ASSUME NEW s, NEW m \in {"close", "established"}, Deliver(s, <<m>>),
               UNCHANGED <<handling, ran, via, toHub, machVars, callVars>>
        PROVE  OnlyLoses
    <2>1. m \in Messages /\ m \notin Calls
      BY CallsAssumption DEF Messages
    <2> QED
      BY <1>1, <1>3, <2>1, DeliverFacts DEF OnlyLoses, CallTypes
  <1>4. ASSUME NodeEnds \/ NodeReadsHandshake PROVE OnlyLoses
    <2>1. /\ cur \in Sessions
          /\ \E q : /\ q = <<>> \/ (toNode[cur] # <<>> /\ q = Tail(toNode[cur]))
                    /\ toNode' = [toNode EXCEPT ![cur] = q]
          /\ UNCHANGED <<handling, ran, via, toHub, machVars, callVars>>
      BY <1>4 DEF NodeEnds, NodeReadsHandshake, LinkTypes
    <2> QED
      BY <1>1, <2>1, ShrinkFacts DEF OnlyLoses, CallTypes
  <1>5. ASSUME Dial \/ CloseStale \/ UNCHANGED vars PROVE OnlyLoses
    BY <1>1, <1>2, <1>5 DEF Dial, CloseStale, vars, CallTypes
  <1>6. ASSUME Revoke \/ CloseMachine \/ RevokeReturns PROVE OnlyLoses
    BY <1>1, <1>2, <1>6 DEF Revoke, CloseMachine, RevokeReturns, CallTypes, LinkTypes
  <1>7. ASSUME NEW s \in Sessions,
               \/ Admit(s) \/ Register(s) \/ Touch(s)
               \/ ReadFails(s) \/ Remove(s) \/ HeartbeatRejected(s) \/ NetworkFails(s)
        PROVE  OnlyLoses
    BY <1>1, <1>2, <1>7 DEF Admit, Register, Touch, ReadFails, Remove, HeartbeatRejected,
                            NetworkFails, CallTypes
  <1>8. ASSUME NEW s \in Sessions, CloseReplaced(s) \/ Establish(s) \/ CloseDoomed(s)
        PROVE  OnlyLoses
    BY <1>3, <1>8 DEF CloseReplaced, Establish, CloseDoomed, CloseConnection
  <1> QED
    BY <1>4, <1>5, <1>6, <1>7, <1>8, OnlyLosesKeeps

\* The Node takes a request off the wire: it executes it, or says that it does
\* not.  The request is nowhere else.
LEMMA NodeReadsKeeps ==
    ASSUME CallInv, LinkTypes, NodeReads
    PROVE  CallInv'
  <1> USE DEF nodeVars, wireVars, hubVars, regVars, machVars, callVars
  <1>1. CallTypes /\ cur \in Sessions /\ cur \in 0..MaxSessions /\ toNode[cur] # <<>>
    BY DEF CallInv, NodeReads, LinkTypes
  <1>2. toNode[cur] \in Seq(Messages) /\ toNode \in [Sessions -> Seq(Messages)]
    BY <1>1 DEF CallTypes
  <1>3. CASE Head(toNode[cur]) = "close"
    <2>1. /\ toNode' = [toNode EXCEPT ![cur] = <<>>]
          /\ UNCHANGED <<handling, ran, via, toHub, machVars, callVars>>
      BY <1>3, CallsAssumption DEF NodeReads
    <2>2. OnlyLoses
      BY <1>1, <2>1, ShrinkFacts DEF OnlyLoses, CallTypes
    <2> QED
      BY <2>2, OnlyLosesKeeps
  <1>4. ASSUME NEW c \in Calls, c = Head(toNode[cur]) PROVE CallInv'
    <2>1. /\ toNode' = [toNode EXCEPT ![cur] = Tail(toNode[cur])]
          /\ UNCHANGED <<ran, machVars, callVars>>
      BY <1>4, CallsAssumption DEF NodeReads
    <2>2. /\ toNode' \in [Sessions -> Seq(Messages)] /\ toNode'[cur] = Tail(toNode[cur])
          /\ \A s \in Sessions : /\ Range(toNode'[s]) \subseteq Range(toNode[s])
                                 /\ \A d : Once(toNode[s], d) => Once(toNode'[s], d)
      BY <1>1, <2>1, ShrinkFacts
    <2>3. c \in Range(toNode[cur]) /\ (Once(toNode[cur], c) => c \notin Range(toNode'[cur]))
      BY <1>1, <1>2, <1>4, <2>2, TailFacts
    <2>4. /\ OnWire(c) /\ ~OnWire(c)' /\ c \notin writing /\ handling[c] = "no" /\ ran[c] = 0
          /\ \A s \in Sessions : c \notin Range(toNode'[s])
      <3>1. OneRequest(c) /\ OnWire(c)
        BY <1>1, <1>4, <2>3 DEF CallInv, CallSafe, OnWire
      <3>2. \A s \in Sessions : c \in Range(toNode[s]) => s = cur
        BY <1>1, <2>3, <3>1 DEF OneRequest
      <3>3. c \notin Range(toNode'[cur])
        BY <1>1, <2>3, <3>1 DEF OneRequest
      <3>4. \A s \in Sessions : c \notin Range(toNode'[s])
        BY <2>2, <3>2, <3>3
      <3> QED
        BY <3>1, <3>4 DEF OneRequest, OnWire
    <2>5. /\ ~NeverRuns(c) /\ ~Told(c, "limit") /\ ~Told(c, "refused") /\ ~Told(c, "ok")
          /\ ~Unsent(c) /\ (answer[c] # "none" => cpc[c] = "done")
      BY <1>4, <2>4 DEF CallInv, CallSafe, Answers, NeverRuns, Unsent
    <2>6. CASE handling' = [handling EXCEPT ![c] = "taken"] /\ via' = [via EXCEPT ![c] = cur]
               /\ UNCHANGED toHub
      <3>1. CallTypes'
        BY <1>1, <2>1, <2>2, <2>6 DEF CallTypes
      <3>2. CallSafe(c)'
        <4>1. OneRequest(c)'
          BY <1>1, <1>4, <2>1, <2>4, <2>6 DEF OneRequest, CallTypes
        <4>2. Answers(c)'
          BY <2>1, <2>5, <2>6 DEF Answers, Unsent, Told
        <4> QED
          BY <4>1, <4>2 DEF CallSafe
      <3>3. ASSUME NEW d \in Calls, d # c PROVE CallSafe(d)'
        <4>1. Fades(d)
          BY <1>1, <2>1, <2>2, <2>6, <3>3 DEF Fades, Unsent, Told, CallTypes
        <4> QED
          BY <4>1, FadesKeeps DEF CallInv
      <3> QED
        BY <3>1, <3>2, <3>3 DEF CallInv
    <2>7. CASE Reply(cur, c, "limit") /\ UNCHANGED <<handling, via>>
      <3>1. /\ toHub' \in [Sessions -> Seq(Calls \X Replies)]
            /\ \A t \in Sessions : Range(toHub'[t]) \subseteq Range(toHub[t]) \cup {<<c, "limit">>}
        BY <1>1, <1>4, <2>7, ReplyFacts DEF Replies
      <3>2. CallTypes'
        BY <1>1, <2>1, <2>2, <2>7, <3>1 DEF CallTypes
      <3>3. CallSafe(c)'
        <4>1. OneRequest(c)'
          BY <1>1, <1>4, <2>1, <2>4, <2>7 DEF OneRequest, CallTypes
        <4>2. NeverRuns(c)'
          BY <2>1, <2>4, <2>7 DEF NeverRuns
        <4>3. ~Told(c, "ok")'
          BY <2>1, <2>5, <3>1 DEF Told
        <4> QED
          BY <2>1, <2>5, <4>1, <4>2, <4>3 DEF CallSafe, Answers, Unsent
      <3>4. ASSUME NEW d \in Calls, d # c PROVE CallSafe(d)'
        <4>1. Fades(d)
          BY <1>1, <2>1, <2>2, <2>7, <3>1, <3>4 DEF Fades, Unsent, Told
        <4> QED
          BY <4>1, FadesKeeps DEF CallInv
      <3> QED
        BY <3>2, <3>3, <3>4 DEF CallInv
    <2> QED
      BY <1>4, <2>6, <2>7, CallsAssumption DEF NodeReads
  <1> QED
    BY <1>3, <1>4 DEF NodeReads

\* A request is executed once; then only its answer is left.
LEMMA NodeHandlesKeeps ==
    ASSUME CallInv, NEW c \in Calls, NodeExecutes(c) \/ NodeReplies(c)
    PROVE  CallInv'
  <1> USE DEF nodeVars, wireVars, hubVars, regVars, machVars, callVars
  <1>1. CallTypes /\ CallSafe(c) /\ handling[c] # "no" /\ ~NeverRuns(c)
    BY DEF CallInv, NodeExecutes, NodeReplies, NeverRuns
  <1>2. /\ ~Unsent(c) /\ ~Told(c, "limit") /\ ~Told(c, "refused")
        /\ c \notin writing /\ ~OnWire(c)
    BY <1>1 DEF CallSafe, OneRequest, Answers, Unsent
  <1>3. UNCHANGED <<via, toNode, machVars, callVars>>
    BY DEF NodeExecutes, NodeReplies
  <1>4. CASE NodeExecutes(c)
    <2>1. /\ handling[c] = "taken" /\ ran[c] = 0 /\ UNCHANGED toHub
          /\ handling' = [handling EXCEPT ![c] = "executed"] /\ ran' = [ran EXCEPT ![c] = @ + 1]
      BY <1>1, <1>4 DEF NodeExecutes, CallSafe, OneRequest
    <2>2. CallTypes'
      BY <1>1, <1>3, <2>1 DEF CallTypes
    <2>3. CallSafe(c)'
      <3>1. handling'[c] = "executed" /\ ran'[c] = 1
        BY <1>1, <2>1 DEF CallTypes
      <3>2. OneRequest(c)'
        BY <1>1, <1>2, <1>3, <3>1 DEF CallSafe, OneRequest, OnWire
      <3>3. Answers(c)'
        BY <1>1, <1>2, <1>3, <2>1, <3>1 DEF CallSafe, Answers, Told, Unsent
      <3> QED
        BY <3>2, <3>3 DEF CallSafe
    <2>4. ASSUME NEW d \in Calls, d # c PROVE CallSafe(d)'
      <3>1. Fades(d)
        BY <1>1, <1>3, <2>1, <2>4 DEF Fades, Unsent, Told, CallTypes
      <3> QED
        BY <3>1, FadesKeeps DEF CallInv
    <2> QED
      BY <2>2, <2>3, <2>4 DEF CallInv
  <1>5. CASE NodeReplies(c)
    <2>1. PICK what \in {"refused", "ok", "error"} :
             /\ Reply(via[c], c, what)
             /\ IF what = "refused" THEN ran[c] = 0 ELSE ran[c] = 1
      BY <1>1, <1>5 DEF NodeReplies, CallSafe, OneRequest
    <2>2. handling' = [handling EXCEPT ![c] = "no"] /\ UNCHANGED ran
      BY <1>5 DEF NodeReplies
    <2>3. /\ toHub' \in [Sessions -> Seq(Calls \X Replies)]
          /\ \A t \in Sessions : Range(toHub'[t]) \subseteq Range(toHub[t]) \cup {<<c, what>>}
      BY <1>1, <2>1, ReplyFacts DEF Replies
    <2>4. CallTypes'
      BY <1>1, <1>3, <2>2, <2>3 DEF CallTypes
    <2>5. CallSafe(c)'
      <3>1. OneRequest(c)'
        BY <1>1, <1>2, <1>3, <2>2 DEF CallSafe, OneRequest, OnWire, CallTypes
      <3>2. what = "refused" => NeverRuns(c)'
        BY <1>1, <1>2, <1>3, <2>1, <2>2 DEF NeverRuns, OnWire, CallTypes
      <3>3. \A r \in Replies : Told(c, r)' => Told(c, r) \/ r = what
        BY <1>3, <2>3 DEF Told
      <3>4. Answers(c)'
        BY <1>1, <1>2, <1>3, <2>1, <2>2, <3>2, <3>3 DEF Answers, CallSafe, Unsent, Replies
      <3> QED
        BY <3>1, <3>4 DEF CallSafe
    <2>6. ASSUME NEW d \in Calls, d # c PROVE CallSafe(d)'
      <3>1. Fades(d)
        BY <1>1, <1>3, <2>2, <2>3, <2>6 DEF Fades, Unsent, Told, CallTypes
      <3> QED
        BY <3>1, FadesKeeps DEF CallInv
    <2> QED
      BY <2>4, <2>5, <2>6 DEF CallInv
  <1> QED
    BY <1>4, <1>5

\* A response reaches its call, or nobody waits for it any more.
LEMMA ReadResponseKeeps ==
    ASSUME CallInv, NEW s \in Sessions, ReadResponse(s)
    PROVE  CallInv'
  <1> DEFINE m == Head(toHub[s])
  <1> USE DEF nodeVars, wireVars, hubVars, regVars, machVars, callVars
  <1>1. /\ CallTypes /\ toHub[s] \in Seq(Calls \X Replies) /\ toHub[s] # <<>>
        /\ toHub \in [Sessions -> Seq(Calls \X Replies)]
    BY DEF CallInv, CallTypes, ReadResponse
  <1>2. /\ m \in Calls \X Replies /\ Tail(toHub[s]) \in Seq(Calls \X Replies)
        /\ m \in Range(toHub[s]) /\ Range(Tail(toHub[s])) \subseteq Range(toHub[s])
    BY <1>1, TailFacts
  <1>3. /\ toHub' = [toHub EXCEPT ![s] = Tail(toHub[s])]
        /\ inbox' = inbox \/ inbox' = [inbox EXCEPT ![m[1]] = m[2]]
        /\ UNCHANGED <<handling, ran, via, toNode, machVars, cpc, cconn, writing, answer>>
    BY <1>1 DEF ReadResponse, CallTypes
  <1> HIDE DEF m
  <1>4. /\ toHub' \in [Sessions -> Seq(Calls \X Replies)]
        /\ \A t \in Sessions : Range(toHub'[t]) \subseteq Range(toHub[t])
    BY <1>1, <1>2, <1>3
  <1>5. PICK d \in Calls, what \in Replies : m = <<d, what>>
    BY <1>2
  <1>6. inbox' = inbox \/ inbox' = [inbox EXCEPT ![d] = what]
    <2>1. m[1] = d /\ m[2] = what
      BY <1>5
    <2> QED
      BY <1>3, <2>1
  <1>7. CallTypes'
    <2>1. inbox' \in [Calls -> {"none"} \cup Replies]
      BY <1>1, <1>6 DEF CallTypes
    <2> QED
      BY <1>1, <1>3, <1>4, <2>1 DEF CallTypes
  <1>8. ASSUME NEW c \in Calls PROVE CallSafe(c)'
    <2>1. inbox'[c] = inbox[c] \/ (c = d /\ inbox'[c] = what)
      BY <1>1, <1>6 DEF CallTypes
    <2>2. \A r \in Replies : Told(c, r)' => Told(c, r)
      BY <1>2, <1>3, <1>4, <1>5, <2>1 DEF Told
    <2>3. Fades(c)
      BY <1>3, <2>2 DEF Fades, Unsent
    <2> QED
      BY <2>3, FadesKeeps DEF CallInv
  <1> QED
    BY <1>7, <1>8 DEF CallInv

\* The end of a call: what it is told is true, or is not an answer of the Node.
LEMMA AnsweredKeeps ==
    ASSUME CallInv, NEW c \in Calls, NEW a \in Ends, Answer(c, a),
           UNCHANGED <<handling, ran, via, toNode, toHub, active, revoke, rconn, cconn, inbox>>,
           writing' = writing \/ writing' = writing \ {c},
           a \in {"offline", "inactive"} => Unsent(c), a \in Replies => Told(c, a)
    PROVE  CallInv'
  <1>1. CallTypes
    BY DEF CallInv
  <1>2. cpc' = [cpc EXCEPT ![c] = "done"] /\ answer' = [answer EXCEPT ![c] = a]
    BY DEF Answer
  <1>3. CallTypes'
    BY <1>1, <1>2 DEF CallTypes, Steps
  <1>4. ASSUME NEW d \in Calls PROVE CallSafe(d)'
    <2>1. Fades(d)
      BY <1>1, <1>2 DEF Fades, Unsent, Told, CallTypes
    <2> QED
      BY <2>1, FadesKeeps DEF CallInv
  <1> QED
    BY <1>3, <1>4 DEF CallInv

\* The steps of the caller before it waits: the request is not sent yet, or it
\* is in the hands of its goroutine alone.
LEMMA CallerKeeps ==
    ASSUME CallInv, LinkTypes, NEW c \in Calls, Check(c) \/ LookUp(c) \/ Enroll(c)
    PROVE  CallInv'
  <1> USE DEF nodeVars, wireVars, hubVars, regVars, machVars
  <1>1. /\ CallTypes /\ Unsent(c)
        /\ UNCHANGED <<handling, ran, via, toNode, toHub, active, revoke, rconn, inbox>>
    BY DEF CallInv, Check, LookUp, Enroll, Unsent
  <1>2. CASE \E a \in {"inactive", "offline", "lost"} : Answer(c, a) /\ UNCHANGED <<cconn, writing>>
    BY <1>1, <1>2, AnsweredKeeps DEF Ends, Replies
  <1>3. CASE /\ cpc[c] = "idle" \/ cpc[c] = "checked"
             /\ \E p \in {"checked", "bound"} : cpc' = [cpc EXCEPT ![c] = p]
             /\ cconn' = cconn \/ (cpc[c] = "checked" /\ cconn' = [cconn EXCEPT ![c] = conn])
             /\ UNCHANGED <<writing, answer>>
    <2>1. CallTypes'
      BY <1>1, <1>3 DEF CallTypes, LinkTypes, Steps
    <2>2. ASSUME NEW d \in Calls PROVE CallSafe(d)'
      <3>1. Fades(d)
        BY <1>1, <1>3 DEF Fades, Unsent, Told, CallTypes
      <3> QED
        BY <3>1, FadesKeeps DEF CallInv
    <2> QED
      BY <2>1, <2>2 DEF CallInv
  <1>4. CASE /\ cpc[c] = "bound" /\ cpc' = [cpc EXCEPT ![c] = "pending"]
             /\ writing' = writing \cup {c} /\ UNCHANGED <<cconn, answer>>
    <2>1. CallTypes'
      BY <1>1, <1>4 DEF CallTypes, Steps
    <2>2. CallSafe(c)'
      <3>1. NeverRuns(c) /\ \A r \in Replies : ~Told(c, r)
        BY <1>1 DEF CallInv, CallSafe, Answers, Unsent
      <3>2. ~OnWire(c)' /\ \A r \in Replies : ~Told(c, r)'
        BY <1>1, <1>4, <3>1 DEF NeverRuns, OnWire, Told
      <3>3. cpc'[c] = "pending" /\ answer'[c] = "none"
        <4>1. answer[c] = "none"
          BY <1>4 DEF CallInv, CallSafe, Answers
        <4> QED
          BY <1>1, <1>4, <4>1 DEF CallTypes
      <3>4. OneRequest(c)'
        BY <1>1, <3>1, <3>2 DEF NeverRuns, OneRequest, OnWire
      <3>5. Answers(c)'
        BY <3>2, <3>3 DEF Answers, Replies
      <3> QED
        BY <3>4, <3>5 DEF CallSafe
    <2>3. ASSUME NEW d \in Calls, d # c PROVE CallSafe(d)'
      <3>1. Fades(d)
        BY <1>1, <1>4, <2>3 DEF Fades, Unsent, Told, CallTypes
      <3> QED
        BY <3>1, FadesKeeps DEF CallInv
    <2> QED
      BY <2>1, <2>2, <2>3 DEF CallInv
  <1> QED
    BY <1>2, <1>3, <1>4 DEF Check, LookUp, Enroll

\* The request gets on the wire of the call's connection, for the first time.
LEMMA WrittenKeeps ==
    ASSUME CallInv, NEW c \in Calls, Written(c)
    PROVE  CallInv'
  <1> USE DEF nodeVars, wireVars, hubVars, regVars, machVars
  <1>1. /\ CallTypes /\ CallSafe(c) /\ c \in writing /\ writing' = writing \ {c}
        /\ cpc' = [cpc EXCEPT ![c] = IF @ = "pending" THEN "waiting" ELSE @]
        /\ Deliver(cconn[c], <<c>>)
        /\ UNCHANGED <<handling, ran, via, toHub, active, revoke, rconn, cconn, inbox, answer>>
    BY DEF CallInv, Written
  <1>2. /\ toNode' \in [Sessions -> Seq(Messages)]
        /\ \A t \in Sessions :
              /\ Range(toNode'[t]) \subseteq Range(toNode[t]) \cup {c}
              /\ t # cconn[c] => toNode'[t] = toNode[t]
              /\ \A n : Once(toNode[t], n) /\ (n # c \/ n \notin Range(toNode[t]))
                           => Once(toNode'[t], n)
    BY <1>1, DeliverFacts DEF Messages
  <1>3. /\ cpc'[c] = cpc[c] \/ (cpc[c] = "pending" /\ cpc'[c] = "waiting")
        /\ \A d \in Calls \ {c} : cpc'[d] = cpc[d]
    BY <1>1 DEF CallTypes
  <1>4. CallTypes'
    <2>1. cpc' \in [Calls -> Steps]
      BY <1>1 DEF CallTypes, Steps
    <2> QED
      BY <1>1, <1>2, <2>1 DEF CallTypes
  <1>5. CallSafe(c)'
    <2>1. OneRequest(c) /\ Answers(c) /\ ~OnWire(c) /\ ~NeverRuns(c)
      BY <1>1 DEF CallSafe, OneRequest, NeverRuns
    <2>2. \A s \in Sessions : c \in Range(toNode'[s]) => s = cconn[c] /\ Once(toNode'[s], c)
      <3> SUFFICES ASSUME NEW s \in Sessions, c \in Range(toNode'[s])
                   PROVE  s = cconn[c] /\ Once(toNode'[s], c)
        OBVIOUS
      <3>1. c \notin Range(toNode[s])
        BY <2>1 DEF OnWire
      <3>2. s = cconn[c]
        BY <1>2, <3>1
      <3>3. Once(toNode[s], c)
        <4> SUFFICES ASSUME NEW i \in DOMAIN toNode[s], toNode[s][i] = c PROVE FALSE
          BY DEF Once
        <4> QED
          BY <3>1 DEF Range
      <3> QED
        BY <1>2, <3>1, <3>2, <3>3
    <2>3. OneRequest(c)'
      BY <1>1, <2>1, <2>2 DEF OneRequest
    <2>4. \A r \in Replies : Told(c, r)' => Told(c, r)
      BY <1>1 DEF Told
    <2>5. Answers(c)'
      BY <1>1, <1>3, <2>1, <2>4 DEF Answers, Replies
    <2> QED
      BY <2>3, <2>5 DEF CallSafe
  <1>6. ASSUME NEW d \in Calls, d # c PROVE CallSafe(d)'
    <2>1. Fades(d)
      BY <1>1, <1>2, <1>3, <1>6 DEF Fades, Unsent, Told
    <2> QED
      BY <2>1, FadesKeeps DEF CallInv
  <1> QED
    BY <1>4, <1>5, <1>6 DEF CallInv

\* The steps that end a call, or its goroutine.
LEMMA CallEndsKeeps ==
    ASSUME CallInv, NEW c \in Calls, WriteFails(c) \/ FailLost(c) \/ Receive(c) \/ TimeOut(c)
    PROVE  CallInv'
  <1> USE DEF nodeVars, wireVars, hubVars, regVars, machVars
  <1>1. /\ CallTypes /\ (writing' = writing \/ writing' = writing \ {c})
        /\ UNCHANGED <<handling, ran, via, toNode, toHub, active, revoke, rconn, cconn, inbox>>
    BY DEF CallInv, WriteFails, FailLost, Receive, TimeOut
  <1>2. CASE \E a \in {"lost", "deadline"} : Answer(c, a)
    BY <1>1, <1>2, AnsweredKeeps DEF Ends, Replies
  <1>3. CASE Receive(c)
    <2>1. PICK a \in Replies : inbox[c] = a
      BY <1>1, <1>3 DEF Receive, CallTypes
    <2>2. Answer(c, a) /\ Told(c, a) /\ a \in Ends /\ a \notin {"offline", "inactive"}
      BY <1>3, <2>1 DEF Receive, Told, Ends, Replies
    <2> QED
      BY <1>1, <2>1, <2>2, AnsweredKeeps
  <1>4. CASE UNCHANGED <<cpc, answer>>
    <2>1. CallTypes'
      BY <1>1, <1>4 DEF CallTypes
    <2>2. ASSUME NEW d \in Calls PROVE CallSafe(d)'
      <3>1. Fades(d)
        BY <1>1, <1>4 DEF Fades, Unsent, Told
      <3> QED
        BY <3>1, FadesKeeps DEF CallInv
    <2> QED
      BY <2>1, <2>2 DEF CallInv
  <1> QED
    BY <1>2, <1>3, <1>4 DEF WriteFails, FailLost, ReportLost, TimeOut

\* No call has begun.
LEMMA CallInit == Init => CallInv
  <1> SUFFICES ASSUME Init PROVE CallInv
    OBVIOUS
  <1>1. CallTypes
    BY SessionsAssumption DEF Init, CallTypes, Steps, Ends
  <1>2. ASSUME NEW c \in Calls PROVE CallSafe(c)
    <2>1. /\ \A s \in Sessions : Range(toNode[s]) = {} /\ Range(toHub[s]) = {}
          /\ c \notin writing /\ handling[c] = "no" /\ ran[c] = 0
          /\ inbox[c] = "none" /\ answer[c] = "none"
      BY DEF Init, Range
    <2>2. NeverRuns(c) /\ \A r \in Replies : ~Told(c, r)
      BY <2>1 DEF NeverRuns, OnWire, Told, Replies
    <2> QED
      BY <2>1, <2>2 DEF CallSafe, OneRequest, Answers, OnWire, Replies
  <1> QED
    BY <1>1, <1>2 DEF CallInv

\* Every step keeps the invariant.
LEMMA CallStepKeeps == CallInv /\ LinkInv /\ [Next]_vars => CallInv'
  <1> SUFFICES ASSUME CallInv, LinkTypes, [Next]_vars PROVE CallInv'
    BY DEF LinkInv
  <1>1. ASSUME NEW s \in Sessions, HandlerStep(s) \/ HeartbeatRejected(s)
        PROVE  CallInv'
    BY <1>1, ConnectionsKeepCalls, ReadResponseKeeps DEF HandlerStep
  <1>2. ASSUME NEW c \in Calls, Check(c) \/ CallStep(c) \/ TimeOut(c) PROVE CallInv'
    BY <1>2, CallerKeeps, WrittenKeeps, CallEndsKeeps DEF CallStep
  <1> QED
    BY <1>1, <1>2, ConnectionsKeepCalls, NodeReadsKeeps, NodeHandlesKeeps DEF Next, NodeStep

(***************************************************************************)
(* What a caller is told of its call is true: a request is executed once   *)
(* at most, an answer "ok" is the answer of its execution, and an error    *)
(* that says "retry" means that the Node has not executed the request and  *)
(* never will, over lost, replaced and revoked connections.                *)
(***************************************************************************)
THEOREM CallsAreAnswered == Spec => []CallsAreSafe
  <1>1. CallInv => CallsAreSafe
    <2> SUFFICES ASSUME CallInv, NEW c \in Calls
                 PROVE  /\ answer[c] \in {"offline", "inactive", "limit", "refused"} => NeverRuns(c)
                        /\ ran[c] <= 1 /\ (answer[c] = "ok" => ran[c] = 1)
      BY DEF CallsAreSafe, RetryIsSafe, NoReplay, NeverRuns, OnWire
    <2> QED
      BY DEF CallInv, CallSafe, OneRequest, Answers, Told
  <1> QED
    BY <1>1, LinkInit, CallInit, LinkStep, CallStepKeeps, PTL DEF Spec

(***************************************************************************)
(* The state of the sessions, the handlers, the registry and the calls has *)
(* its types throughout.                                                   *)
(***************************************************************************)
THEOREM LinkTypeCorrect == Spec => []TypeOK
  <1>1. LinkInv /\ CallInv => TypeOK
    BY DEF LinkInv, LinkTypes, CallInv, CallTypes, TypeOK, HandlerSteps, Registered, Sockets,
           Steps, Ends
  <1> QED
    BY <1>1, LinkInit, CallInit, LinkStep, CallStepKeeps, PTL DEF Spec
=============================================================================
