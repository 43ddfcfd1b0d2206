------------------------------ MODULE HubSetup ------------------------------
(***************************************************************************)
(* How a Hub gets its first owner and its administrator (hub/core/service, *)
(* accounts and admin.go, hub/store/store, accounts and admin.go).  A start *)
(* makes sure of the administrator's password and, while there is no owner, *)
(* puts a fresh token into a table and then into a file; whoever has the   *)
(* token becomes the first owner, once.  The Hub may end at any step.      *)
(* Names, labels and the audit table are left out.                         *)
(***************************************************************************)
EXTENDS Integers, FiniteSets, FiniteSetsExt

CONSTANTS Creators,      \* requests of the administrator in flight
          MaxOwners,     \* bound: accounts of owners
          AdminSessions, \* bound: sessions of the administrator, by number
          MaxStarts      \* bound: starts of the Hub

ASSUME SetupAssumption ==
    /\ {MaxOwners, MaxStarts} \subseteq Nat
    /\ AdminSessions \subseteq Nat

VARIABLES hub,        \* "down", the steps of a start, "up"
          starts,     \* starts so far: the token of a start has its number
          owners,     \* how each account came to be, in the order of creation
          bootRow,    \* bootstrap_tokens: the number of the token, or 0
          bootSpent,  \* the token in the table was consumed or has expired
          bootFile,   \* the file bootstrap-token, or 0
          admin,      \* admin_accounts: password_version, or NoAdmin
          adminSession,
          clearing    \* requests that added a user and have yet to clear

setupVars == <<hub, starts, owners, bootRow, bootSpent, bootFile, admin,
               adminSession, clearing>>
bootstrap == <<owners, bootRow, bootSpent, bootFile>>
administrator == <<admin, adminSession>>

NoAdmin == -1

SetupTypeOK ==
    /\ hub \in {"down", "admin", "file", "up"}
    /\ starts \in 0..MaxStarts
    /\ owners \in [1..MaxOwners -> {"none", "bootstrap", "admin"}]
    /\ bootRow \in 0..MaxStarts /\ bootSpent \in BOOLEAN /\ bootFile \in 0..MaxStarts
    /\ admin \in {NoAdmin, 0, 1}
    /\ adminSession \in [AdminSessions -> {"none", "old", "live", "revoked"}]
    /\ clearing \subseteq Creators

\* A new data directory, or one with an administrator from before passwords
\* had to be set, who may still have sessions.
SetupInit ==
    /\ hub = "down" /\ starts = 0
    /\ owners = [i \in 1..MaxOwners |-> "none"]
    /\ bootRow = 0 /\ bootSpent = FALSE /\ bootFile = 0
    /\ \/ admin = NoAdmin /\ adminSession = [s \in AdminSessions |-> "none"]
       \/ admin = 0 /\ adminSession \in [AdminSessions -> {"none", "old"}]
    /\ clearing = {}

\* HasOwner of the store
OwnerCount == Cardinality({i \in 1..MaxOwners : owners[i] # "none"})
HasOwner == OwnerCount > 0

-----------------------------------------------------------------------------
(* Start and end of the Hub. *)

\* RotateAdminPassword: a first password ends the sessions from before it.
RotateAdminPassword ==
    /\ admin' = 1
    /\ adminSession' = [s \in AdminSessions |->
         IF adminSession[s] \in {"old", "live"} THEN "revoked" ELSE adminSession[s]]

\* EnsureAdminAccount: without a password a start ends unless the account has
\* one already.
EnsureAdminAccount ==
    /\ hub = "down" /\ starts < MaxStarts
    /\ starts' = starts + 1
    /\ \/ admin = NoAdmin /\ admin' = 1 /\ hub' = "admin" /\ UNCHANGED adminSession
       \/ admin = 0 /\ RotateAdminPassword /\ hub' = "admin"
       \/ admin = 1 /\ hub' = "admin" /\ UNCHANGED administrator
       \/ admin # 1 /\ hub' = "down" /\ UNCHANGED administrator
    /\ UNCHANGED <<bootstrap, clearing>>

\* EnsureBootstrapToken: the token of this start replaces any other.
EnsureBootstrapToken ==
    /\ ~HasOwner
    /\ bootRow' = starts /\ bootSpent' = FALSE

\* EnsureBootstrap: with an owner only the file goes; without one, a token is
\* put into the table and then into the file.
EnsureBootstrap ==
    /\ \/ /\ hub = "admin" /\ HasOwner
          /\ bootFile' = 0 /\ hub' = "up"
          /\ UNCHANGED <<owners, bootRow, bootSpent>>
       \/ /\ hub = "admin" /\ EnsureBootstrapToken /\ hub' = "file"
          /\ UNCHANGED <<owners, bootFile>>
       \/ /\ hub = "file"
          /\ bootFile' = starts /\ hub' = "up"
          /\ UNCHANGED <<owners, bootRow, bootSpent>>
    /\ UNCHANGED <<starts, administrator, clearing>>

\* The Hub ends: what is in memory is gone.
SetupHubEnds ==
    /\ hub # "down" /\ hub' = "down"
    /\ clearing' = {}
    /\ UNCHANGED <<starts, bootstrap, administrator>>

-----------------------------------------------------------------------------
(* The first owner, and others. *)

AddOwner(how) == owners' = [owners EXCEPT ![OwnerCount + 1] = how]

\* BootstrapOwnerAccount of the store: the token is in the table and good,
\* there is no owner, and one transaction adds the owner and spends it.
BootstrapOwnerAccount(t) ==
    /\ bootRow = t /\ t # 0 /\ ~bootSpent
    /\ ~HasOwner
    /\ AddOwner("bootstrap")
    /\ bootSpent' = TRUE /\ UNCHANGED bootRow

\* handleSetup and BootstrapAccount: the removal of the file may fail.
Setup ==
    /\ hub = "up" /\ OwnerCount < MaxOwners
    /\ \E t \in 1..starts : BootstrapOwnerAccount(t)
    /\ bootFile' \in {0, bootFile}
    /\ UNCHANGED <<hub, starts, administrator, clearing>>

\* CreateUser: the account of a user that the administrator adds.
CreateUser(q) ==
    /\ hub = "up" /\ q \notin clearing /\ OwnerCount < MaxOwners
    /\ \E s \in AdminSessions : adminSession[s] \in {"old", "live"}
    /\ AddOwner("admin")
    /\ clearing' = clearing \cup {q}
    /\ UNCHANGED <<hub, starts, bootRow, bootSpent, bootFile, administrator>>

\* ClearBootstrapTokens and the removal of the file; both may fail.
ClearBootstrapTokens(q) ==
    /\ q \in clearing
    /\ \/ bootRow' = 0 /\ bootSpent' = FALSE
       \/ UNCHANGED <<bootRow, bootSpent>>
    /\ bootFile' \in {0, bootFile}
    /\ clearing' = clearing \ {q}
    /\ UNCHANGED <<hub, starts, owners, administrator>>

-----------------------------------------------------------------------------
(* The administrator's sessions. *)

\* handleAdminLogin: LoginAdmin refuses an account without a password.
AdminLogin ==
    /\ hub = "up" /\ admin = 1 /\ \E s \in AdminSessions : adminSession[s] = "none"
    /\ adminSession' = [adminSession EXCEPT ![Min({s \in AdminSessions : adminSession[s] = "none"})] = "live"]
    /\ UNCHANGED <<hub, starts, bootstrap, admin, clearing>>

\* handleAdminLogout and RevokeAdminSession
AdminLogout ==
    /\ hub = "up"
    /\ \E s \in AdminSessions :
         /\ adminSession[s] \in {"old", "live"}
         /\ adminSession' = [adminSession EXCEPT ![s] = "revoked"]
    /\ UNCHANGED <<hub, starts, bootstrap, admin, clearing>>

\* The token of the table expires and maintenance takes it out (CleanupExpired).
BootExpires ==
    /\ hub = "up" /\ bootRow # 0
    /\ \/ bootSpent' = TRUE /\ UNCHANGED bootRow
       \/ bootSpent /\ bootRow' = 0 /\ bootSpent' = FALSE
    /\ UNCHANGED <<hub, starts, owners, bootFile, administrator, clearing>>

SetupNext ==
    \/ EnsureAdminAccount \/ EnsureBootstrap \/ SetupHubEnds \/ Setup \/ AdminLogin
    \/ AdminLogout \/ BootExpires
    \/ \E q \in Creators : CreateUser(q) \/ ClearBootstrapTokens(q)

SetupSpec == SetupInit /\ [][SetupNext]_setupVars

-----------------------------------------------------------------------------
(* The token that the Hub prints and keeps in a file makes an owner once,  *)
(* and only the first: not after the administrator added somebody, not     *)
(* with a token of an earlier start, not twice.                            *)
BootstrapIsFirst ==
    \A i \in 1..MaxOwners : owners[i] = "bootstrap" => i = 1

(* A Hub that serves can be set up and is the administrator's: while there *)
(* is no owner and the token has not expired, the file holds the token of  *)
(* the table, and no session from before the administrator's password was  *)
(* set is good any more.                                                   *)
ReadyToServe ==
    hub = "up" =>
      /\ ~HasOwner /\ bootRow # 0 => bootFile = bootRow
      /\ admin = 1 /\ \A s \in AdminSessions : adminSession[s] # "old"
=============================================================================
