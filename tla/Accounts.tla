------------------------------ MODULE Accounts ------------------------------
(***************************************************************************)
(* What an owner of the Hub signs in with (hub/core/accounts.go,           *)
(* hub/store/accounts.go, hub/server/web.go): sessions of the web pages,   *)
(* connection tokens, keys of the direct interface, and the limiter of     *)
(* failed logins.                                                          *)
(*                                                                         *)
(* Sessions, tokens and keys are those of one owner, and failed logins     *)
(* those from one address: every statement on them filters by it.  A       *)
(* request is a process with one step for each transaction.  A deadline is *)
(* a flag that says it has passed.  Names, labels, scopes, the audit table *)
(* and times of last use are left out.  HubSetup says how the Hub got its  *)
(* owners and its administrator.                                           *)
(***************************************************************************)
EXTENDS HubSetup

CONSTANTS AReqs,         \* requests in flight
          Sessions,      \* bound: web sessions, by number
          Secrets,       \* bound: connection tokens and direct keys, by number
          MaxSecrets,    \* tokens, and keys, an owner may have in use (64)
          LoginLimit,    \* loginFailureLimit
          MaxChanges     \* bound: changes of the password

ASSUME AccountsAssumption ==
    /\ IsFiniteSet(AReqs) /\ AReqs # {}
    /\ {MaxSecrets, LoginLimit} \subseteq Nat \ {0}
    /\ MaxChanges \in Nat
    /\ Sessions \cup Secrets \subseteq Nat

VARIABLES password,   \* changes of the password so far
          session,    \* web_sessions
          secret,     \* connection_tokens and direct_access_keys
          failures,   \* the limiter's count for the address
          areq

acctVars == <<password, session, secret, failures, areq>>

Idle == [step |-> "idle", session |-> 0]
NoSecret == [kind |-> "none", state |-> "none"]

AcctTypeOK ==
    /\ password \in 0..MaxChanges
    /\ session \in [Sessions -> {"none", "live", "ended"}]
    /\ secret \in [Secrets -> [kind : {"none", "token", "key"},
                               state : {"none", "live", "expired", "revoked", "deleted"}]]
    /\ failures \in 0..(LoginLimit + Cardinality(AReqs))
    /\ areq \in [AReqs -> [step : {"idle", "verify", "open", "change", "token", "key"},
                           session : Sessions \cup {0}]]

AcctInit ==
    /\ password = 0
    /\ session = [s \in Sessions |-> "none"]
    /\ secret = [n \in Secrets |-> NoSecret]
    /\ failures = 0
    /\ areq = [q \in AReqs |-> Idle]

Unused(f) == {n \in DOMAIN f : f[n] = "none"}

-----------------------------------------------------------------------------
(* Sessions of an owner. *)

\* blocked of the limiter
Blocked == failures >= LoginLimit

\* handleLogin: the limiter is asked before the password is looked at.
LoginBegin(q) ==
    /\ areq[q] = Idle /\ ~Blocked
    /\ areq' = [areq EXCEPT ![q].step = "verify"]
    /\ UNCHANGED <<password, session, secret, failures>>

\* LoginAccount: a wrong password is counted, a right one clears the count.
LoginVerify(q) ==
    /\ areq[q].step = "verify"
    /\ \/ /\ failures' = failures + 1
          /\ areq' = [areq EXCEPT ![q] = Idle]
       \/ /\ failures' = 0
          /\ areq' = [areq EXCEPT ![q].step = "open"]
    /\ UNCHANGED <<password, session, secret>>

\* CreateWebSession
CreateWebSession(q) ==
    /\ areq[q].step = "open" /\ Unused(session) # {}
    /\ session' = [session EXCEPT ![Min(Unused(session))] = "live"]
    /\ areq' = [areq EXCEPT ![q] = Idle]
    /\ UNCHANGED <<password, secret, failures>>

\* The window of failed logins passes.
WindowPasses ==
    /\ failures > 0 /\ failures' = 0
    /\ UNCHANGED <<password, session, secret, areq>>

\* AuthenticateWebSession
Authentic(s) == session[s] = "live"

\* webSessionOnly: the pages of an owner need a session.
SignedIn == \E s \in Sessions : Authentic(s)

\* ChangeOwnerPassword of the service: the current password is checked first.
ChangeBegin(q) ==
    /\ areq[q] = Idle /\ password < MaxChanges
    /\ \E s \in Sessions :
         /\ Authentic(s)
         /\ areq' = [areq EXCEPT ![q] = [step |-> "change", session |-> s]]
    /\ UNCHANGED <<password, session, secret, failures>>

\* ChangeOwnerPassword of the store: every session but the caller's ends.
ChangeCommit(q) ==
    /\ areq[q].step = "change" /\ password < MaxChanges
    /\ password' = password + 1
    /\ session' = [s \in Sessions |->
         IF session[s] = "live" /\ s # areq[q].session THEN "ended" ELSE session[s]]
    /\ areq' = [areq EXCEPT ![q] = Idle]
    /\ UNCHANGED <<secret, failures>>

\* handleLogout and RevokeWebSession
Logout ==
    /\ \E s \in Sessions : Authentic(s) /\ session' = [session EXCEPT ![s] = "ended"]
    /\ UNCHANGED <<password, secret, failures, areq>>

SessionExpires ==
    /\ \E s \in Sessions : Authentic(s) /\ session' = [session EXCEPT ![s] = "ended"]
    /\ UNCHANGED <<password, secret, failures, areq>>

-----------------------------------------------------------------------------
(* Connection tokens and keys of the direct interface. *)

\* AuthenticateConnectionToken, AuthenticateDirectAccessKey
Good(n) == secret[n].state = "live"

\* What ListConnectionTokens and ListDirectAccessKeys show as in use.
InUse(kind) == {n \in Secrets : secret[n].kind = kind /\ Good(n)}

\* With room for one more than the limit, for comparison.
CountTokensTo(q) ==
    /\ SignedIn /\ areq[q] = Idle
    /\ Cardinality(InUse("token")) <= MaxSecrets
    /\ areq' = [areq EXCEPT ![q].step = "token"]
    /\ UNCHANGED <<password, session, secret, failures>>

\* CreateConnectionToken of the service: counts, and adds in a later statement.
CountTokens(q) ==
    /\ SignedIn /\ areq[q] = Idle
    /\ Cardinality(InUse("token")) < MaxSecrets
    /\ areq' = [areq EXCEPT ![q].step = "token"]
    /\ UNCHANGED <<password, session, secret, failures>>

\* CreateDirectAccessKey of the service
CountKeys(q) ==
    /\ SignedIn /\ areq[q] = Idle
    /\ Cardinality(InUse("key")) < MaxSecrets
    /\ areq' = [areq EXCEPT ![q].step = "key"]
    /\ UNCHANGED <<password, session, secret, failures>>

AddSecret(q, kind) ==
    /\ areq[q].step = kind
    /\ \E n \in Secrets :
         /\ secret[n] = NoSecret /\ \A m \in Secrets : m < n => secret[m] # NoSecret
         /\ secret' = [secret EXCEPT ![n] = [kind |-> kind, state |-> "live"]]
    /\ areq' = [areq EXCEPT ![q] = Idle]
    /\ UNCHANGED <<password, session, failures>>

\* CreateConnectionToken and CreateDirectAccessKey of the store
InsertToken(q) == AddSecret(q, "token")
InsertKey(q) == AddSecret(q, "key")

Becomes(n, kind, from, to) ==
    /\ secret[n].kind = kind /\ secret[n].state \in from
    /\ secret' = [secret EXCEPT ![n].state = to]

\* RevokeConnectionToken and RevokeDirectAccessKey of the store
RevokeConnectionToken(n) == Becomes(n, "token", {"live", "expired"}, "revoked")
RevokeDirectAccessKey(n) == Becomes(n, "key", {"live", "expired"}, "revoked")

\* DeleteConnectionToken and DeleteDirectAccessKey of the store: only what is
\* of no use any more.
DeleteConnectionToken(n) == Becomes(n, "token", {"revoked", "expired"}, "deleted")
DeleteDirectAccessKey(n) == Becomes(n, "key", {"revoked", "expired"}, "deleted")

\* handleAppTokenRevoke, handleAppDirectKeyRevoke
AppTokenRevoke == SignedIn /\ \E n \in Secrets : RevokeConnectionToken(n)
AppDirectKeyRevoke == SignedIn /\ \E n \in Secrets : RevokeDirectAccessKey(n)

\* handleAppTokenDelete, handleAppDirectKeyDelete
AppTokenDelete == SignedIn /\ \E n \in Secrets : DeleteConnectionToken(n)
AppDirectKeyDelete == SignedIn /\ \E n \in Secrets : DeleteDirectAccessKey(n)

SecretExpires ==
    \E n \in Secrets, kind \in {"token", "key"} : Becomes(n, kind, {"live"}, "expired")

SecretStep ==
    /\ AppTokenRevoke \/ AppDirectKeyRevoke \/ AppTokenDelete \/ AppDirectKeyDelete \/ SecretExpires
    /\ UNCHANGED <<password, session, failures, areq>>

\* The Hub ends and starts again: what is in memory is gone.
HubRestarts ==
    /\ failures' = 0
    /\ areq' = [q \in AReqs |-> Idle]
    /\ UNCHANGED <<password, session, secret>>

AcctRequests == \E q \in AReqs :
    \/ LoginBegin(q) \/ LoginVerify(q) \/ CreateWebSession(q) \/ ChangeBegin(q)
    \/ ChangeCommit(q) \/ CountTokens(q) \/ CountKeys(q) \/ InsertToken(q) \/ InsertKey(q)

AcctNext ==
    \/ AcctRequests \/ WindowPasses \/ Logout \/ SessionExpires \/ SecretStep
    \/ HubRestarts

AcctSpec == AcctInit /\ [][AcctNext]_acctVars

-----------------------------------------------------------------------------
(* The limits that are checked in one step and used in a later one are     *)
(* missed by the requests in flight at most.                               *)
QuotasHold ==
    /\ failures < LoginLimit + Cardinality(AReqs)
    /\ \A kind \in {"token", "key"} :
         Cardinality(InUse(kind)) < MaxSecrets + Cardinality(AReqs)

\* Of the accounts: quotas and the login limiter are exceeded by the requests in
\* flight at most; the bootstrap token makes the first owner only; and a Hub that
\* serves has one administrator, whose older sessions have ended.
AccountsAreSound == QuotasHold /\ BootstrapIsFirst /\ ReadyToServe
=============================================================================
