---------------------------- MODULE OpenArtifacts ----------------------------
(***************************************************************************)
(* What the artifact store of the Hub promises to its readers: an artifact *)
(* that has been published can be opened until its retention ends, and     *)
(* then never again.                                                       *)
(***************************************************************************)
EXTENDS FiniteSets

CONSTANT Ids        \* identities of artifacts

VARIABLES open,     \* artifacts that can be opened
          retired   \* artifacts whose retention has ended

oaVars == <<open, retired>>

OAInit == open = {} /\ retired = {}

\* A Node completes the upload of an artifact.
Publish(a) ==
    /\ a \notin open \cup retired
    /\ open' = open \cup {a}
    /\ UNCHANGED retired

\* The retention of an artifact ends.
Retire(a) ==
    /\ a \in open
    /\ open' = open \ {a}
    /\ retired' = retired \cup {a}

OASpec == OAInit /\ [][\E a \in Ids : Publish(a) \/ Retire(a)]_oaVars
=============================================================================
