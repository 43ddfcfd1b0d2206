----------------------------- MODULE ReleaseDrain -----------------------------
(***************************************************************************)
(* How a Node updates itself without interrupting its tasks: the release   *)
(* notices of the desktop application (nodeui/release_notice.go), the      *)
(* release drain (node/activity.go) and the capability requests that it    *)
(* must see or refuse (node/run.go, node/capabilities.go, localbridge).    *)
(*                                                                         *)
(* A request runs a task: a job, a browser session or an agent turn, which *)
(* goes on after the response, or an operation that ends with it ("call"). *)
(***************************************************************************)
EXTENDS Integers, FiniteSets, Sequences

CONSTANTS
    Remote,       \* requests of the Hub, which take a slot of requestSem
    Local,        \* requests of the local bridge, which do not
    MaxRequests,  \* capacity of requestSem, client.go
    MaxPushes     \* bound: number of pushed releases

ASSUME RequestsAssumption == Remote \cap Local = {}
ASSUME BoundsAssumption == MaxRequests \in Nat /\ MaxPushes \in Nat

Requests == Remote \cup Local
Pushes == 1..MaxPushes
Tasks == {"call", "job", "browser", "agent"}

VARIABLES
    rpc,     \* a request: "new", "arrived", "passed", "running", "over"
    kind,    \* its task
    task,    \* its job, browser session or turn: "none", "active", "ended"
    sem,     \* requestSem: the requests that hold a slot
    drain,   \* Client.releaseDrain
    marker,  \* the release that heartbeat acks announce, 0 if none
    latest,  \* App.releasePushID
    pushing, \* App.releasePushRunning
    ppc,     \* the goroutine of a push
    idle,    \* its idleSince is set
    at,      \* the busy reason it reads next, in BeginReleaseDrain
    exiting, \* the updater waits for the end of the application
    down     \* the application has ended

reqVars == <<rpc, kind, task, sem>>
pushVars == <<marker, latest, pushing, ppc, idle, at>>
vars == <<reqVars, drain, pushVars, exiting, down>>

Init ==
    /\ rpc = [r \in Requests |-> "new"] /\ kind \in [Requests -> Tasks]
    /\ task = [r \in Requests |-> "none"] /\ sem = {} /\ drain = FALSE
    /\ marker = 0 /\ latest = 0 /\ pushing = FALSE
    /\ ppc = [p \in Pushes |-> "none"] /\ idle = [p \in Pushes |-> FALSE]
    /\ at = [p \in Pushes |-> 1]
    /\ exiting = FALSE /\ down = FALSE

\* activityMu is held by a goroutine that is inside BeginReleaseDrain.
Locked == \E p \in Pushes : ppc[p] = "looking"

-----------------------------------------------------------------------------
(***************************************************************************)
(* Requests.                                                               *)
(***************************************************************************)
\* The Node reads a request of the Hub: it gets a slot, or RESOURCE_LIMIT.
Arrive(r) ==
    /\ ~down /\ rpc[r] = "new"
    /\ \/ /\ r \in Local
          /\ rpc' = [rpc EXCEPT ![r] = "arrived"]
          /\ UNCHANGED sem
       \/ /\ r \in Remote /\ Cardinality(sem) < MaxRequests
          /\ rpc' = [rpc EXCEPT ![r] = "arrived"]
          /\ sem' = sem \cup {r}
       \/ /\ r \in Remote /\ Cardinality(sem) >= MaxRequests
          /\ rpc' = [rpc EXCEPT ![r] = "over"]
          /\ UNCHANGED sem
    /\ UNCHANGED <<kind, task, drain, pushVars, exiting, down>>

\* handleCapabilityRequest asks ReleaseDraining, under activityMu; NODE_UPDATING
\* is the whole answer of a request that comes too late.
CheckDrain(r) ==
    /\ ~down /\ ~Locked /\ rpc[r] = "arrived"
    /\ IF ~drain
       THEN rpc' = [rpc EXCEPT ![r] = "passed"] /\ UNCHANGED sem
       ELSE rpc' = [rpc EXCEPT ![r] = "over"] /\ sem' = sem \ {r}
    /\ UNCHANGED <<kind, task, drain, pushVars, exiting, down>>

\* The capability registers its job, session or turn, or does its operation.
StartTask(r) ==
    /\ ~down /\ rpc[r] = "passed"
    /\ rpc' = [rpc EXCEPT ![r] = "running"]
    /\ task' = [task EXCEPT ![r] = IF kind[r] = "call" THEN "none"
                                                      ELSE "active"]
    /\ UNCHANGED <<kind, sem, drain, pushVars, exiting, down>>

\* The response is written and the slot returned; what the request started
\* goes on.
Respond(r) ==
    /\ ~down /\ rpc[r] \in {"passed", "running"}
    /\ rpc' = [rpc EXCEPT ![r] = "over"]
    /\ sem' = sem \ {r}
    /\ UNCHANGED <<kind, task, drain, pushVars, exiting, down>>

TaskEnds(r) ==
    /\ ~down /\ task[r] = "active"
    /\ task' = [task EXCEPT ![r] = "ended"]
    /\ UNCHANGED <<rpc, kind, sem, drain, pushVars, exiting, down>>

-----------------------------------------------------------------------------
(***************************************************************************)
(* Busy reasons.                                                           *)
(***************************************************************************)
\* Mutant: the requests are counted last.
RequestsLast == <<"job", "browser", "agent", "request">>

\* TaskBusyReasons asks in this order: a request is still counted when it has
\* just started its task.
Reasons == <<"request", "job", "browser", "agent">>

BusyFor(reason) ==
    IF reason = "request" THEN sem # {}
    ELSE \E r \in Requests : kind[r] = reason /\ task[r] = "active"

Busy == \E i \in DOMAIN Reasons : BusyFor(Reasons[i])

-----------------------------------------------------------------------------
(***************************************************************************)
(* The goroutine of a pushed release.                                      *)
(***************************************************************************)
\* The operator pushes the next release.
Push ==
    /\ ~down /\ marker < MaxPushes
    /\ marker' = marker + 1
    /\ UNCHANGED <<reqVars, drain, latest, pushing, ppc, idle, at, exiting, down>>

\* handleReleaseNotice, for a heartbeat ack that carries the release.
Notice ==
    /\ ~down /\ marker > 0 /\ ~(pushing /\ latest = marker)
    /\ latest' = marker /\ pushing' = TRUE
    /\ ppc' = [ppc EXCEPT ![marker] = "refresh"]
    /\ UNCHANGED <<reqVars, drain, marker, idle, at, exiting, down>>

\* The deferred reset of runReleaseNotice.
Leave(p) ==
    /\ ppc' = [ppc EXCEPT ![p] = "none"]
    /\ pushing' = IF latest = p THEN FALSE ELSE pushing

\* refreshUpdate: the release is staged and verified, or this push gives up;
\* one check runs at a time.
Refresh(p) ==
    /\ ~down /\ ppc[p] = "refresh"
    /\ \/ /\ \A q \in Pushes \ {p} : ppc[q] # "refresh"
          /\ ppc' = [ppc EXCEPT ![p] = "wait"]
          /\ idle' = [idle EXCEPT ![p] = FALSE]
          /\ UNCHANGED pushing
       \/ Leave(p) /\ UNCHANGED idle
    /\ UNCHANGED <<reqVars, drain, marker, latest, at, exiting, down>>

\* waitReleaseIdle, one tick: a newer push ends the wait, a busy Node restarts
\* the 15 seconds of grace.
Tick(p) ==
    /\ ~down /\ ppc[p] = "wait"
    /\ \/ Leave(p) /\ UNCHANGED idle
       \/ /\ latest = p
          /\ idle' = [idle EXCEPT ![p] = ~Busy]
          /\ UNCHANGED <<ppc, pushing>>
    /\ UNCHANGED <<reqVars, drain, marker, latest, at, exiting, down>>

\* The grace is over: BeginReleaseDrain takes activityMu.
Begin(p) ==
    /\ ~down /\ ~Locked /\ ppc[p] = "wait" /\ latest = p /\ idle[p]
    /\ IF ~drain
       THEN /\ ppc' = [ppc EXCEPT ![p] = "looking"]
            /\ at' = [at EXCEPT ![p] = 1]
            /\ UNCHANGED idle
       ELSE idle' = [idle EXCEPT ![p] = FALSE] /\ UNCHANGED <<ppc, at>>
    /\ UNCHANGED <<reqVars, drain, marker, latest, pushing, exiting, down>>

\* Mutant: the last reason is taken for one more.
LastReason(p) == at[p] > Len(Reasons)

IsLast(p) == at[p] = Len(Reasons)

\* BeginReleaseDrain reads one reason after the other while requests go on.
Look(p) ==
    /\ ~down /\ ppc[p] = "looking"
    /\ IF BusyFor(Reasons[at[p]])
       THEN /\ ppc' = [ppc EXCEPT ![p] = "wait"]
            /\ idle' = [idle EXCEPT ![p] = FALSE]
            /\ UNCHANGED <<at, drain>>
       ELSE IF IsLast(p)
       THEN /\ ppc' = [ppc EXCEPT ![p] = "drained"]
            /\ drain' = TRUE
            /\ UNCHANGED <<at, idle>>
       ELSE at' = [at EXCEPT ![p] = @ + 1] /\ UNCHANGED <<ppc, drain, idle>>
    /\ UNCHANGED <<reqVars, marker, latest, pushing, exiting, down>>

\* Mutant: a failed update leaves the drain behind.
KeepDrain(p) == UNCHANGED drain

EndReleaseDrain(p) == drain' = FALSE

\* applyReadyUpdateOnStartup starts the updater, or fails.
Apply(p) ==
    /\ ~down /\ ppc[p] = "drained"
    /\ \/ exiting' = TRUE /\ UNCHANGED drain
       \/ ~Locked /\ EndReleaseDrain(p) /\ UNCHANGED exiting
    /\ Leave(p)
    /\ UNCHANGED <<reqVars, marker, latest, idle, at, down>>

\* cancelApp, after 350 milliseconds: the application ends, and with it
\* everything it runs.
Exit ==
    /\ ~down /\ exiting
    /\ down' = TRUE
    /\ UNCHANGED <<reqVars, drain, pushVars, exiting>>

-----------------------------------------------------------------------------
PushStep(p) ==
    Refresh(p) \/ Tick(p) \/ Begin(p) \/ Look(p) \/ Apply(p)

Next ==
    \/ \E r \in Requests :
          Arrive(r) \/ CheckDrain(r) \/ StartTask(r) \/ Respond(r) \/ TaskEnds(r)
    \/ Push \/ Notice \/ Exit
    \/ \E p \in Pushes : PushStep(p)

Spec == Init /\ [][Next]_vars

\* The goroutines of the pushes run on, and the 350 milliseconds pass.
FairSpec == Spec /\ WF_vars(Exit) /\ \A p \in Pushes : WF_vars(PushStep(p))

-----------------------------------------------------------------------------
(***************************************************************************)
(* Every variable holds a value of its kind.                               *)
(***************************************************************************)
TypeOK ==
    /\ rpc \in [Requests -> {"new", "arrived", "passed", "running", "over"}]
    /\ kind \in [Requests -> Tasks]
    /\ task \in [Requests -> {"none", "active", "ended"}]
    /\ sem \in SUBSET Remote /\ drain \in BOOLEAN
    /\ marker \in 0..MaxPushes /\ latest \in 0..MaxPushes
    /\ pushing \in BOOLEAN /\ exiting \in BOOLEAN /\ down \in BOOLEAN
    /\ ppc \in [Pushes -> {"none", "refresh", "wait", "looking", "drained"}]
    /\ idle \in [Pushes -> BOOLEAN]
    /\ at \in [Pushes -> 1..Len(Reasons)]

(***************************************************************************)
(* The application does not end for an update while a request is being     *)
(* executed or a task of one is active, although the busy reasons are read *)
(* one by one while requests come and go, and although pushes overtake     *)
(* each other.                                                             *)
(***************************************************************************)
NoRestartWhileBusy ==
    exiting =>
        \A r \in Requests : rpc[r] \notin {"passed", "running"}
                                /\ task[r] # "active"

(***************************************************************************)
(* A drain ends, with the end of the application or with the end of the    *)
(* failed attempt: requests are not refused for ever.                      *)
(***************************************************************************)
DrainEnds == drain ~> (down \/ ~drain)

=============================================================================
