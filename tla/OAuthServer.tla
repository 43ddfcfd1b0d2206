---------------------------- MODULE OAuthServer ----------------------------
(***************************************************************************)
(* The OAuth server of the Hub (hub/server/oauth.go, hub/store/oauth.go).  *)
(* A client registers, an owner approves it, the client exchanges the code *)
(* for a pair of tokens and renews the pair with its refresh token; owners *)
(* and clients revoke.  Maintenance removes what has expired.              *)
(*                                                                         *)
(* A request is a process: it reads a row in one transaction and writes in *)
(* another, and its client may go away between any two of its steps, which *)
(* cancels its context.  The clock is a small number; a request keeps the  *)
(* time it read.  Scopes, resources, redirect addresses and the proof key  *)
(* are checks on the request alone and are left out, and so is the page of *)
(* consent: a code appears for an owner who approved.                      *)
(***************************************************************************)
EXTENDS Integers, FiniteSets, FiniteSetsExt

CONSTANTS OClients,       \* client identifiers, used once
          OOwners,
          OReqs,          \* requests to the token endpoint in flight
          MaxCodes, MaxGrants, MaxPairs, \* bounds: codes, authorizations, pairs
          MaxOAuthClock,  \* bound: the clock
          CodeTTL, AccessTTL, RefreshTTL,
          OrphanAge,      \* oauthOrphanClientRetention
          HistoryAge,     \* oauthAuthorizationHistoryRetention
          MaxOrphans,     \* oauthMaxOrphanClients
          MaxPerOwner     \* oauthMaxClientsPerOwner

ASSUME OAuthAssumption ==
    /\ {MaxCodes, MaxGrants, MaxPairs, MaxOAuthClock, OrphanAge, HistoryAge} \subseteq Nat
    /\ {CodeTTL, AccessTTL, RefreshTTL, MaxOrphans, MaxPerOwner} \subseteq Nat \ {0}
    /\ AccessTTL <= RefreshTTL

VARIABLES oauthClock,
          client,      \* oauth_clients
          code,        \* oauthState.codes, and the codes that have been used
          grant,       \* oauth_authorizations
          pair,        \* pairs of tokens issued so far
          accessRow,   \* oauth_access_tokens: numbers of pairs
          refreshRow,  \* oauth_refresh_tokens: numbers of pairs
          exchange     \* requests to the token endpoint

oauthVars == <<oauthClock, client, code, grant, pair, accessRow, refreshRow, exchange>>
tokenRows == <<pair, accessRow, refreshRow>>

Codes == 1..MaxCodes
Grants == 1..MaxGrants
Pairs == 1..MaxPairs
Nobody == "nobody"
NoTime == -1

NoClient == [row |-> FALSE, used |-> FALSE, born |-> 0, renews |-> FALSE]
NoCode == [state |-> "none", client |-> Nobody, owner |-> Nobody, until |-> 0]
NoGrant == [row |-> FALSE, code |-> 0, client |-> Nobody, owner |-> Nobody,
            until |-> 0, revoked |-> NoTime, deleted |-> FALSE]
NoPair == [grant |-> 0, born |-> NoTime]
NoExchange == [step |-> "idle", client |-> Nobody, owner |-> Nobody, code |-> 0,
               grant |-> 0, consumed |-> 0, now |-> 0]

Times == 0..(MaxOAuthClock + RefreshTTL + CodeTTL)

OAuthTypeOK ==
    /\ oauthClock \in 0..MaxOAuthClock
    /\ client \in [OClients -> [row : BOOLEAN, used : BOOLEAN, born : Times, renews : BOOLEAN]]
    /\ code \in [Codes -> [state : {"none", "pending", "gone"}, client : OClients \cup {Nobody},
                           owner : OOwners \cup {Nobody}, until : Times]]
    /\ grant \in [Grants -> [row : BOOLEAN, code : 0..MaxCodes, client : OClients \cup {Nobody},
                             owner : OOwners \cup {Nobody}, until : Times,
                             revoked : Times \cup {NoTime}, deleted : BOOLEAN]]
    /\ pair \in [Pairs -> [grant : 0..MaxGrants, born : Times \cup {NoTime}]]
    /\ accessRow \subseteq Pairs /\ refreshRow \subseteq Pairs
    /\ exchange \in [OReqs -> [step : {"idle", "client", "create", "save", "undo"},
                               client : OClients \cup {Nobody}, owner : OOwners \cup {Nobody},
                               code : 0..MaxCodes, grant : 0..MaxGrants,
                               consumed : 0..MaxPairs, now : Times]]

OAuthInit ==
    /\ oauthClock = 0
    /\ client = [c \in OClients |-> NoClient]
    /\ code = [k \in Codes |-> NoCode]
    /\ grant = [g \in Grants |-> NoGrant]
    /\ pair = [p \in Pairs |-> NoPair]
    /\ accessRow = {} /\ refreshRow = {}
    /\ exchange = [r \in OReqs |-> NoExchange]

AccessUntil(p) == pair[p].born + AccessTTL
RefreshUntil(p) == pair[p].born + RefreshTTL
TokensOf(g) == {p \in Pairs : pair[p].grant = g}

\* A foreign key of every token and authorization: their client is known.
Known(c) == client[c].row

OAuthTick ==
    /\ oauthClock < MaxOAuthClock
    /\ oauthClock' = oauthClock + 1
    /\ UNCHANGED <<client, code, grant, tokenRows, exchange>>

-----------------------------------------------------------------------------
(* Clients. *)

\* Clients that maintenance and registration may forget.
Forgettable(cs, gs, ps) ==
    {c \in cs : /\ client[c].row
                /\ client[c].born <= oauthClock - OrphanAge
                /\ \A g \in gs : grant[g].client # c
                /\ \A p \in ps : grant[pair[p].grant].client # c}

\* CountOrphanOAuthClients: clients nobody can use any more count as well.
Orphans ==
    {c \in OClients :
        /\ client[c].row
        /\ \A g \in Grants : grant[g].row /\ grant[g].client = c =>
             grant[g].deleted \/ grant[g].revoked # NoTime \/ grant[g].until <= oauthClock
        /\ \A p \in accessRow : grant[pair[p].grant].client = c => AccessUntil(p) <= oauthClock
        /\ \A p \in refreshRow : grant[pair[p].grant].client = c => RefreshUntil(p) <= oauthClock}

Rows == {g \in Grants : grant[g].row}

\* RegisterOAuthClientWithinLimits: one transaction reclaims, counts and adds.
RegisterOAuthClient(c, renews) ==
    LET gone == Forgettable(OClients, Rows, accessRow \cup refreshRow) IN
      /\ Cardinality(Orphans \ gone) < MaxOrphans
      /\ client' = [d \in OClients |->
           IF d = c THEN [row |-> TRUE, used |-> TRUE, born |-> oauthClock, renews |-> renews]
           ELSE [client[d] EXCEPT !.row = @ /\ d \notin gone]]

\* handleOAuthRegister: a new client has an identifier nobody had.
OAuthRegister ==
    /\ \E c \in OClients, renews \in BOOLEAN :
         ~client[c].used /\ RegisterOAuthClient(c, renews)
    /\ UNCHANGED <<oauthClock, code, grant, tokenRows, exchange>>

\* The table of codes drops what has expired whenever it is used.
Pruned == [k \in Codes |->
             IF code[k].state = "pending" /\ code[k].until <= oauthClock
             THEN [code[k] EXCEPT !.state = "gone"] ELSE code[k]]

\* handleOAuthAuthorize: the owner approves a known client.
OAuthAuthorize ==
    /\ \E c \in OClients, o \in OOwners, k \in Codes :
         /\ Known(c)
         /\ code[k].state = "none" /\ \A j \in 1..(k - 1) : code[j].state # "none"
         /\ code' = [Pruned EXCEPT ![k] =
              [state |-> "pending", client |-> c, owner |-> o, until |-> oauthClock + CodeTTL]]
    /\ UNCHANGED <<oauthClock, client, grant, tokenRows, exchange>>

-----------------------------------------------------------------------------
(* The token endpoint. *)

\* handleOAuthToken: the client is looked up first.
TokenRequest(r) ==
    /\ exchange[r].step = "idle"
    /\ \E c \in OClients :
         /\ Known(c)
         /\ exchange' = [exchange EXCEPT ![r] = [NoExchange EXCEPT !.step = "client", !.client = c]]
    /\ UNCHANGED <<oauthClock, client, code, grant, tokenRows>>

\* handleOAuthAuthorizationCodeExchange: a code is taken out of the table as
\* it is checked, under one lock.
TakeCode(r) ==
    /\ exchange[r].step = "client"
    /\ \E k \in Codes :
         /\ Pruned[k].state = "pending" /\ code[k].client = exchange[r].client
         /\ code' = [Pruned EXCEPT ![k].state = "gone"]
         /\ exchange' = [exchange EXCEPT ![r] =
              [@ EXCEPT !.step = "create", !.owner = code[k].owner, !.code = k, !.now = oauthClock]]
    /\ UNCHANGED <<oauthClock, client, grant, tokenRows>>

\* oauthTokenRecord
RefreshRecord(p) == p \in refreshRow /\ RefreshUntil(p) > oauthClock

\* handleOAuthRefreshExchange: the refresh token is read, and stays.
ReadRefresh(r) ==
    /\ exchange[r].step = "client" /\ client[exchange[r].client].renews
    /\ \E p \in Pairs :
         LET g == pair[p].grant IN
         /\ RefreshRecord(p) /\ grant[g].client = exchange[r].client
         /\ exchange' = [exchange EXCEPT ![r] =
              [@ EXCEPT !.step = "save", !.owner = grant[g].owner, !.grant = g,
                        !.consumed = p, !.now = oauthClock]]
    /\ UNCHANGED <<oauthClock, client, code, grant, tokenRows>>

\* When the newest pair of an authorization ends.
PairEnds(r) ==
    exchange[r].now + (IF client[exchange[r].client].renews THEN RefreshTTL ELSE AccessTTL)

\* CreateOAuthAuthorization: an owner has a limited number of clients.
CreateGrant(r) ==
    LET x == exchange[r]
        mine == {grant[g].client : g \in {h \in Rows : grant[h].owner = x.owner}} IN
    /\ x.step = "create"
    /\ \/ /\ Known(x.client)
          /\ x.client \in mine \/ Cardinality(mine) < MaxPerOwner
          /\ \E g \in Grants :
               /\ grant[g] = NoGrant /\ \A h \in 1..(g - 1) : grant[h] # NoGrant
               /\ grant' = [grant EXCEPT ![g] =
                    [row |-> TRUE, code |-> x.code, client |-> x.client, owner |-> x.owner,
                     until |-> PairEnds(r), revoked |-> NoTime, deleted |-> FALSE]]
               /\ exchange' = [exchange EXCEPT ![r].step = "save", ![r].grant = g]
       \/ /\ \/ ~Known(x.client)
             \/ x.client \notin mine /\ Cardinality(mine) >= MaxPerOwner
          /\ exchange' = [exchange EXCEPT ![r] = NoExchange]
          /\ UNCHANGED grant
    /\ UNCHANGED <<oauthClock, client, code, tokenRows>>

\* What the transaction of SaveOAuthTokenPair requires: the authorization is
\* not revoked, and the refresh token it consumes is still there.
MaySave(r) ==
    LET x == exchange[r] IN
    /\ grant[x.grant].row /\ grant[x.grant].revoked = NoTime
    /\ x.consumed # 0 => x.consumed \in refreshRow /\ RefreshUntil(x.consumed) > x.now

\* SaveOAuthTokenPair: the old refresh token goes and the new pair comes in
\* one transaction.
SaveOAuthTokenPair(r) ==
    LET x == exchange[r] IN
    /\ MaySave(r)
    /\ \E p \in Pairs :
         /\ pair[p] = NoPair /\ \A q \in 1..(p - 1) : pair[q] # NoPair
         /\ pair' = [pair EXCEPT ![p] = [grant |-> x.grant, born |-> x.now]]
         /\ accessRow' = accessRow \cup {p}
         /\ refreshRow' = (refreshRow \ {x.consumed}) \cup
                          (IF client[x.client].renews THEN {p} ELSE {})
    /\ grant' = [grant EXCEPT ![x.grant].until = PairEnds(r)]

\* issueOAuthTokens: an authorization this request created is revoked again
\* when its tokens could not be saved.
IssueTokens(r) ==
    /\ exchange[r].step = "save"
    /\ \/ /\ SaveOAuthTokenPair(r)
          /\ exchange' = [exchange EXCEPT ![r] = NoExchange]
       \/ /\ ~MaySave(r)
          /\ exchange' = [exchange EXCEPT ![r] =
               IF @.consumed = 0 THEN [@ EXCEPT !.step = "undo"] ELSE NoExchange]
          /\ UNCHANGED <<grant, tokenRows>>
    /\ UNCHANGED <<oauthClock, client, code>>

\* Without the refresh tokens, for comparison.
RevokeGrantHalf(g, now) ==
    /\ grant[g].row /\ grant[g].revoked = NoTime /\ ~grant[g].deleted
    /\ grant' = [grant EXCEPT ![g].revoked = now]
    /\ accessRow' = accessRow \ TokensOf(g)
    /\ UNCHANGED <<refreshRow, pair>>

\* RevokeOAuthAuthorization: the authorization and its tokens, together.
RevokeGrant(g, now) ==
    /\ grant[g].row /\ grant[g].revoked = NoTime /\ ~grant[g].deleted
    /\ grant' = [grant EXCEPT ![g].revoked = now]
    /\ accessRow' = accessRow \ TokensOf(g)
    /\ refreshRow' = refreshRow \ TokensOf(g)
    /\ UNCHANGED pair

UndoGrant(r) ==
    LET g == exchange[r].grant IN
    /\ exchange[r].step = "undo"
    /\ \/ RevokeGrant(g, exchange[r].now)
       \/ ~(grant[g].row /\ grant[g].revoked = NoTime /\ ~grant[g].deleted)
          /\ UNCHANGED <<grant, tokenRows>>
    /\ exchange' = [exchange EXCEPT ![r] = NoExchange]
    /\ UNCHANGED <<oauthClock, client, code>>

\* The client of a request goes away, or the request is refused: nothing more
\* happens on its behalf.
DropRequest(r) ==
    /\ exchange[r].step # "idle"
    /\ exchange' = [exchange EXCEPT ![r] = NoExchange]
    /\ UNCHANGED <<oauthClock, client, code, grant, tokenRows>>

-----------------------------------------------------------------------------
(* Revocation, deletion and maintenance. *)

\* RevokeOAuthToken: one token of a pair ends the whole authorization.
RevokeOAuthToken(p) ==
    LET g == pair[p].grant IN
    /\ p \in accessRow \cup refreshRow
    /\ grant' = [grant EXCEPT ![g].revoked =
         IF grant[g].row /\ @ = NoTime /\ ~grant[g].deleted THEN oauthClock ELSE @]
    /\ accessRow' = accessRow \ TokensOf(g)
    /\ refreshRow' = refreshRow \ TokensOf(g)

\* handleOAuthRevoke
OAuthRevoke ==
    /\ \E p \in Pairs : RevokeOAuthToken(p)
    /\ UNCHANGED <<oauthClock, client, code, pair, exchange>>

\* handleAppAuthorizationRevoke
AppAuthorizationRevoke ==
    /\ \E g \in Grants : RevokeGrant(g, oauthClock)
    /\ UNCHANGED <<oauthClock, client, code, exchange>>

\* DeleteOAuthAuthorization: hides what is revoked or has expired.
DeleteOAuthAuthorization(g) ==
    /\ grant[g].row /\ ~grant[g].deleted
    /\ grant[g].revoked # NoTime \/ grant[g].until <= oauthClock
    /\ grant' = [grant EXCEPT ![g].deleted = TRUE]

\* handleAppAuthorizationDelete
AppAuthorizationDelete ==
    /\ \E g \in Grants : DeleteOAuthAuthorization(g)
    /\ UNCHANGED <<oauthClock, client, code, tokenRows, exchange>>

\* DeleteOAuthClientForOwner: what the owner gave the client goes, and the
\* client when no other owner has anything of it.
DeleteOAuthClientForOwner(o, c) ==
    LET mine == {g \in Rows : grant[g].owner = o /\ grant[g].client = c}
        left == {g \in Rows \ mine : grant[g].client = c} IN
    /\ \E g \in mine : ~grant[g].deleted
    /\ grant' = [g \in Grants |-> [grant[g] EXCEPT !.row = @ /\ g \notin mine]]
    /\ accessRow' = {p \in accessRow : pair[p].grant \notin mine}
    /\ refreshRow' = {p \in refreshRow : pair[p].grant \notin mine}
    /\ client' = [client EXCEPT ![c].row = @ /\ left # {}]

\* handleAppClientDelete
AppClientDelete ==
    /\ \E o \in OOwners, c \in OClients : DeleteOAuthClientForOwner(o, c)
    /\ UNCHANGED <<oauthClock, code, pair, exchange>>

\* CleanupExpired: tokens, then authorizations kept long enough, then clients
\* nothing refers to.
OAuthCleanup ==
    LET before == oauthClock - HistoryAge
        old == {g \in Rows : \/ grant[g].revoked # NoTime /\ grant[g].revoked <= before
                             \/ grant[g].until <= before}
        access == {p \in accessRow : AccessUntil(p) > oauthClock}
        refresh == {p \in refreshRow : RefreshUntil(p) > oauthClock} IN
    /\ accessRow' = access
    /\ refreshRow' = refresh
    /\ grant' = [g \in Grants |-> [grant[g] EXCEPT !.row = @ /\ g \notin old]]
    /\ client' = [c \in OClients |-> [client[c] EXCEPT !.row = @ /\
           c \notin Forgettable(OClients, Rows \ old, access \cup refresh)]]
    /\ UNCHANGED <<oauthClock, code, pair, exchange>>

OAuthRequests == \E r \in OReqs :
    \/ TokenRequest(r) \/ TakeCode(r) \/ ReadRefresh(r) \/ CreateGrant(r)
    \/ IssueTokens(r) \/ UndoGrant(r) \/ DropRequest(r)

OAuthNext ==
    \/ OAuthTick \/ OAuthRegister \/ OAuthAuthorize \/ OAuthRequests \/ OAuthRevoke
    \/ AppAuthorizationRevoke \/ AppAuthorizationDelete \/ AppClientDelete \/ OAuthCleanup

OAuthSpec == OAuthInit /\ [][OAuthNext]_oauthVars

-----------------------------------------------------------------------------
(* A token row always has an authorization that is in the table, is not    *)
(* revoked and does not end before the token does, and a client that is    *)
(* known: whichever of the revocations, deletions and sweeps came between  *)
(* the steps of the request that issued it.                                *)
TokensAreCovered ==
    /\ \A p \in accessRow \cup refreshRow :
         LET g == grant[pair[p].grant] IN g.row /\ g.revoked = NoTime /\ Known(g.client)
    /\ \A p \in accessRow : AccessUntil(p) <= grant[pair[p].grant].until
    /\ \A p \in refreshRow : RefreshUntil(p) <= grant[pair[p].grant].until

(* What may be used once is used once, however many requests carry it at   *)
(* the same time: a code gives at most one authorization, and an           *)
(* authorization has at most one refresh token that can be redeemed.       *)
RedeemedOnce ==
    /\ \A g, h \in Grants : grant[g].code = grant[h].code /\ grant[g].code # 0 => g = h
    /\ \A p, q \in refreshRow : pair[p].grant = pair[q].grant => p = q

\* Of the OAuth server: tokens live within the authorization that issued them,
\* which a code, or a refresh token, gives only once.
TokensAreSound == TokensAreCovered /\ RedeemedOnce
=============================================================================
