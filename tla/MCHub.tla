-------------------------------- MODULE MCHub --------------------------------
(***************************************************************************)
(* Small instances of the parts of the Hub that keep their own state and   *)
(* do not share it: each behaviour runs one of them, in its instance, and  *)
(* the others rest.  hubPart says which.  The accounts and a collaboration *)
(* with every operation at once are too large; they are looked at in parts: *)
(*   "logins"   the sessions of an owner, "secrets" the tokens and keys;   *)
(*   "race"     two requests at once, one generation, no results;          *)
(*   "rotate"   rotations, leases and Provider turns, one request;         *)
(*   "decide"   pauses, decisions and closing, one request;                *)
(*   "callback" results that are submitted, claimed and acknowledged;      *)
(*   "recovery" results that a poll finds, in a file that may change.      *)
(***************************************************************************)
EXTENDS ResultPool, OAuthServer, Accounts, CloudCompletion, StagingPrune,
        Presentations, ReleaseCache, TLC

CONSTANTS
    HubParts, \* the parts that this run looks at
    Actors    \* requests, operators, machines, names: whatever comes in pairs

VARIABLES
    hubPart   \* the part of this behaviour

\* The data directory in the order of an archive.
ArchiveOrder == <<"artifact", "hub.db">>

hubVars == <<resVars, oauthVars, setupVars, acctVars, ccVars, bkVars, stagingVars, relayVars, relCacheVars>>

HubInit ==
    /\ hubPart \in HubParts
    /\ ResInit /\ OAuthInit /\ SetupInit /\ AcctInit
    /\ CloudInit /\ CompletionInit /\ BackupInit /\ StagingInit /\ RelayInit /\ ReleaseCacheInit
    /\ hubPart # "setup" => admin = NoAdmin

----------------------------------------------------------------------------
CloudParts == {"race", "rotate", "decide", "callback", "recovery"}

Undecided == doc.goal = "closed" /\ \A t \in CTasks : doc.decision[t] = "none"
LeaseKept == doc.lease \/ doc = Empty
OneRequest == /\ \A p \in Callers \ {"p2"} : creq[p].step = "idle"
              /\ \A p \in Callers : creq[p].step # "idle" => creq[p].current
NoTurns == \A n \in CTasks \X Gens : doc.turn[n].status = "none"
NoRows == rows = [i \in Ids |-> NoRow]
SameFiles == \A t \in CTasks : file[t] = 0
OneClaim == \E c \in Claims : \A i \in Ids : rows[i].claim \in {"none", c}
NoCallback == \A k \in Keys : ~doc.chat[k].stalled /\ doc.chat[k].callback = "none"

InPart ==
    CASE hubPart = "logins" -> \A n \in Secrets : secret[n] = NoSecret
      [] hubPart = "secrets" -> \A s \in Sessions \ {1} : session[s] = "none"
      [] hubPart = "race" -> SameFiles /\ Undecided /\ LeaseKept /\ NoRows /\ NoTurns /\ doc.gen = 1
      [] hubPart = "rotate" -> SameFiles /\ Undecided /\ LeaseKept /\ NoRows /\ OneRequest
      [] hubPart = "decide" -> SameFiles /\ OneRequest /\ doc.gen = 1 /\ NoRows
      [] hubPart = "callback" -> /\ SameFiles /\ Undecided /\ LeaseKept /\ NoTurns /\ OneRequest /\ NoCallback
                                  /\ (OneClaim \/ doc.gen = 1)
                                  /\ \A i \in Ids : i[1] = "recovery" => rows[i].state = "none"
      [] hubPart = "recovery" -> Undecided /\ LeaseKept /\ NoTurns /\ OneRequest /\ NoCallback /\ doc.gen = 1

\* Archives in turn, or fewer while the Hub writes: both at once are too large.
ArchivesOrWrites == bkCount.made + bkCount.writes <= MaxArchives

----------------------------------------------------------------------------
HubNext ==
    \/ /\ hubPart = "results" /\ ResNext
       /\ UNCHANGED <<hubPart, oauthVars, setupVars, acctVars, ccVars, bkVars, stagingVars, relayVars, relCacheVars>>
    \/ /\ hubPart = "oauth" /\ OAuthNext
       /\ UNCHANGED <<hubPart, resVars, setupVars, acctVars, ccVars, bkVars, stagingVars, relayVars, relCacheVars>>
    \/ /\ hubPart = "setup" /\ SetupNext
       /\ UNCHANGED <<hubPart, resVars, oauthVars, acctVars, ccVars, bkVars, stagingVars, relayVars, relCacheVars>>
    \/ /\ hubPart \in {"logins", "secrets"} /\ UNCHANGED hubPart /\ AcctNext /\ InPart'
       /\ UNCHANGED <<resVars, oauthVars, setupVars, ccVars, bkVars, stagingVars, relayVars, relCacheVars>>
    \/ /\ hubPart \in CloudParts /\ UNCHANGED hubPart /\ CompletionNext /\ InPart'
       /\ UNCHANGED <<resVars, oauthVars, setupVars, acctVars, bkVars, stagingVars, relayVars, relCacheVars>>
    \/ /\ hubPart = "backup" /\ BackupNext /\ ArchivesOrWrites'
       /\ UNCHANGED <<hubPart, resVars, oauthVars, setupVars, acctVars, ccVars, stagingVars, relayVars, relCacheVars>>
    \/ /\ hubPart = "staging" /\ StagingNext
       /\ UNCHANGED <<hubPart, resVars, oauthVars, setupVars, acctVars, ccVars, bkVars, relayVars, relCacheVars>>
    \/ /\ hubPart = "relay" /\ RelayNext
       /\ UNCHANGED <<hubPart, resVars, oauthVars, setupVars, acctVars, ccVars, bkVars, stagingVars, relCacheVars>>
    \/ /\ hubPart = "releases" /\ ReleaseCacheNext
       /\ UNCHANGED <<hubPart, resVars, oauthVars, setupVars, acctVars, ccVars, bkVars, stagingVars, relayVars>>

HubSpec == HubInit /\ [][HubNext]_<<hubPart, hubVars>>

\* The members of a pair have equal parts in all that is modelled.
HubSymmetry == Permutations(Actors)

\* The part that runs has its types; the others are at rest.
HubTypeOK ==
    /\ hubPart = "results" => ResTypeOK
    /\ hubPart = "oauth" => OAuthTypeOK
    /\ hubPart = "setup" => SetupTypeOK
    /\ hubPart \in {"logins", "secrets"} => AcctTypeOK
    /\ hubPart \in CloudParts => CloudTypeOK /\ CompletionTypeOK
    /\ hubPart = "backup" => BackupTypeOK
    /\ hubPart = "staging" => StagingTypeOK
    /\ hubPart = "relay" => RelayTypeOK
    /\ hubPart = "releases" => ReleaseCacheTypeOK
=============================================================================
