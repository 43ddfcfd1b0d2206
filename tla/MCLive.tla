-------------------------------- MODULE MCLive --------------------------------
(***************************************************************************)
(* Small instances of three parts that promise that something happens: the *)
(* release drain of a Node ("drain"), the replacement of its executable    *)
(* ("update") and the artifacts of the Hub ("artifacts").  They share no   *)
(* state: each behaviour runs one of them and the others rest.  livePart   *)
(* says which, and only what runs is treated fairly.                       *)
(***************************************************************************)
EXTENDS ReleaseDrain, NodeUpdate, ArtifactStore

CONSTANT LiveParts  \* the parts that this run looks at

VARIABLE livePart   \* the part of this behaviour

liveVars == <<livePart, vars, updVars, artVars>>

\* Requests are numbers here; those of the same kind play the same part, so one
\* order of the kinds is enough.
KindNumber(k) == CHOOSE i \in 1..4 : <<"call", "job", "browser", "agent">>[i] = k
InOrder == \A r, s \in Requests : r < s => KindNumber(kind[r]) <= KindNumber(kind[s])

LiveInit ==
    /\ livePart \in LiveParts
    /\ Init /\ UpdateInit /\ ArtInit
    /\ InOrder
    /\ livePart # "drain" => kind = [r \in Requests |-> "call"]
    /\ livePart # "update" => ready = 0

LiveNext ==
    \/ livePart = "drain" /\ Next /\ UNCHANGED <<livePart, updVars, artVars>>
    \/ livePart = "update" /\ UpdateNext /\ UNCHANGED <<livePart, vars, artVars>>
    \/ livePart = "artifacts" /\ ArtNext /\ UNCHANGED <<livePart, vars, updVars>>

\* The fairness of the modules, for the part that runs.
LiveFairness ==
    /\ WF_vars(livePart = "drain" /\ Exit)
    /\ \A p \in Pushes : WF_vars(livePart = "drain" /\ PushStep(p))
    /\ WF_updVars(livePart = "update" /\ AppStep)
    /\ \A h \in HIds : WF_updVars(livePart = "update" /\ HelperStep(h))
    /\ \A c \in Contents : WF_artVars(livePart = "artifacts" /\ CreateGoesOn(c))
    /\ \A u \in Uploads : SF_artVars(livePart = "artifacts" /\ HandlerStep(u))
    /\ WF_artVars(livePart = "artifacts" /\ DeadlinePasses)
    /\ WF_artVars(livePart = "artifacts" /\ SweepBegins)
    /\ SF_artVars(livePart = "artifacts" /\ SweepStep)

LiveSpec == LiveInit /\ [][LiveNext]_liveVars /\ LiveFairness

\* The part that runs has its types; the others are at rest.
LiveTypeOK ==
    /\ livePart = "drain" => TypeOK
    /\ livePart = "update" => UpdateTypeOK
    /\ livePart = "artifacts" => ArtTypeOK

=============================================================================
