---------------------------- MODULE StagingPrune ----------------------------
(***************************************************************************)
(* spiderctl staging-prune (src/internal/opsbackup/staging_prune.go): the  *)
(* directories a finished release was built in are planned, checked again, *)
(* moved one by one into a quarantine next to them, checked there, and     *)
(* removed file by file, while a release may be writing the same root.     *)
(*                                                                         *)
(* A directory is a tree: `id' tells it from another one of the same name  *)
(* and `files' stands for what lstat and the scan of its bytes see; a file *)
(* rewritten in place with the same length is not seen by either and is    *)
(* left out.  Nothing looks into a quarantine a killed command left.       *)
(***************************************************************************)
EXTENDS HubBackup

CONSTANTS
    Finished,       \* the candidates up to --through
    Future,         \* the candidates of later versions
    StageFiles,     \* the files a release writes
    MaxTrees,       \* bound: directories made
    StagingFaults   \* "io", "crash": what else may happen

ASSUME StagingAssumption ==
    Finished \cap Future = {} /\ MaxTrees \in Nat /\ StagingFaults \subseteq {"io", "crash"}

VARIABLES
    staging,    \* the root: the tree at each name
    vaults,     \* the trees in quarantines no command works on
    sprune,     \* the command
    trees,      \* directories made so far
    wiped       \* the files removed, with the tree they were in (history)

stagingVars == <<staging, vaults, sprune, trees, wiped>>

Candidates == Finished \cup Future
NoTree == [id |-> 0, files |-> {}]
Trees == [id : 0 .. MaxTrees, files : SUBSET StageFiles]
Unseen == [c \in Candidates |-> NoTree]
SRest == [at |-> "idle", seen |-> Unseen, sizes |-> [c \in Candidates |-> {}], left |-> {}, cur |-> "", tree |-> NoTree]

StagingTypeOK ==
    /\ staging \in [Candidates -> Trees]
    /\ vaults \subseteq Trees
    /\ sprune.at \in {"idle", "scan", "recheck", "next", "check", "remove", "restore"}
    /\ sprune.seen \in [Candidates -> Trees] /\ sprune.sizes \in [Candidates -> SUBSET StageFiles]
    /\ sprune.left \subseteq Finished /\ sprune.tree \in Trees
    /\ trees \in 0 .. MaxTrees
    /\ wiped \subseteq (1 .. MaxTrees) \X StageFiles

StagingInit ==
    /\ staging = Unseen /\ vaults = {} /\ sprune = SRest
    /\ trees = 0 /\ wiped = {}

----------------------------------------------------------------------------
\* A release at work: it makes its directory and writes into it, by path.

BuildStage(c) ==
    /\ staging[c] = NoTree /\ trees < MaxTrees
    /\ staging' = [staging EXCEPT ![c] = [id |-> trees + 1, files |-> {}]]
    /\ trees' = trees + 1
    /\ UNCHANGED <<vaults, sprune, wiped>>

WriteStage(c, f) ==
    /\ staging[c] # NoTree /\ f \notin staging[c].files
    /\ staging' = [staging EXCEPT ![c].files = @ \cup {f}]
    /\ UNCHANGED <<vaults, sprune, trees, wiped>>

----------------------------------------------------------------------------
\* pruneReleaseStaging

Goes(op) == sprune' = op /\ UNCHANGED trees
StopsHere == Goes(SRest) /\ UNCHANGED <<staging, vaults, wiped>>

\* The candidates and what lstat says of them.
ListStaging ==
    /\ sprune.at = "idle" /\ \E c \in Candidates : staging[c] # NoTree
    /\ Goes([SRest EXCEPT !.at = "scan", !.seen = staging])
    /\ UNCHANGED <<staging, vaults, wiped>>

\* What the walk of a tree adds up to; it is compared with an earlier walk.
ScanStagingTree(tree) == tree.files

\* The bytes are counted; without a finished candidate there is
\* nothing to do.
ScanStaging ==
    /\ sprune.at = "scan"
    /\ LET planned == {c \in Finished : sprune.seen[c] # NoTree} IN
       IF (\E c \in Candidates : sprune.seen[c] # NoTree /\ staging[c] = NoTree) \/ planned = {}
       THEN Goes(SRest)
       ELSE Goes([sprune EXCEPT !.at = "recheck", !.left = planned,
                     !.sizes = [c \in Candidates |-> IF sprune.seen[c] = NoTree THEN {} ELSE ScanStagingTree(staging[c])]])
    /\ UNCHANGED <<staging, vaults, wiped>>

SameTree(c, tree) == tree = sprune.seen[c] /\ ScanStagingTree(tree) = sprune.sizes[c]

\* All candidates are checked before the first is touched.
RecheckStaging ==
    /\ sprune.at = "recheck"
    /\ IF \A c \in Candidates :
             sprune.seen[c] # NoTree => /\ staging[c] = sprune.seen[c]
                                        /\ c \in Finished => SameTree(c, staging[c])
       THEN Goes([sprune EXCEPT !.at = "next"])
       ELSE Goes(SRest)
    /\ UNCHANGED <<staging, vaults, wiped>>

\* isolateStagingCandidate: the directory at the path is moved away.
IsolateStagingCandidate(c) ==
    /\ sprune.at = "next" /\ c \in sprune.left
    /\ \/ /\ staging[c] # NoTree
          /\ Goes([sprune EXCEPT !.at = "check", !.left = @ \ {c}, !.cur = c, !.tree = staging[c]])
          /\ staging' = [staging EXCEPT ![c] = NoTree]
       \/ /\ staging[c] = NoTree \/ "io" \in StagingFaults
          /\ Goes([sprune EXCEPT !.left = @ \ {c}])
          /\ UNCHANGED staging
    /\ UNCHANGED <<vaults, wiped>>

\* Without the second look, for comparison.
CheckIsolatedSkipped ==
    /\ sprune.at = "check" /\ Goes([sprune EXCEPT !.at = "remove"])
    /\ UNCHANGED <<staging, vaults, wiped>>

\* ... and must be the one that was planned, with the bytes it had then.
CheckIsolated ==
    /\ sprune.at = "check"
    /\ \/ SameTree(sprune.cur, sprune.tree) /\ Goes([sprune EXCEPT !.at = "remove"])
       \/ /\ ~SameTree(sprune.cur, sprune.tree) \/ "io" \in StagingFaults
          /\ Goes([sprune EXCEPT !.at = "restore"])
    /\ UNCHANGED <<staging, vaults, wiped>>

\* removeStagingTree: the first failure ends it; the directory goes last.
RemoveStagingTree ==
    /\ sprune.at = "remove"
    /\ \/ \E f \in sprune.tree.files :
             /\ wiped' = wiped \cup {<<sprune.tree.id, f>>}
             /\ Goes([sprune EXCEPT !.tree.files = @ \ {f}])
       \/ /\ sprune.tree.files = {}
          /\ Goes([sprune EXCEPT !.at = "next", !.cur = "", !.tree = NoTree])
          /\ UNCHANGED wiped
       \/ /\ "io" \in StagingFaults
          /\ Goes([sprune EXCEPT !.at = "restore"])
          /\ UNCHANGED wiped
    /\ UNCHANGED <<staging, vaults>>

\* restoreIsolatedStagingCandidate: a path in use again, or a rename that
\* fails, leaves the tree in its quarantine.
RestoreIsolated ==
    /\ sprune.at = "restore"
    /\ Goes([sprune EXCEPT !.at = "next", !.cur = "", !.tree = NoTree])
    /\ \/ /\ staging[sprune.cur] = NoTree
          /\ staging' = [staging EXCEPT ![sprune.cur] = sprune.tree]
          /\ UNCHANGED vaults
       \/ /\ staging[sprune.cur] # NoTree \/ "io" \in StagingFaults
          /\ vaults' = vaults \cup {sprune.tree}
          /\ UNCHANGED staging
    /\ UNCHANGED wiped

StagingPruned == sprune.at = "next" /\ sprune.left = {} /\ StopsHere

\* The command is killed: what it had moved away stays in the quarantine.
PruneKilled ==
    /\ "crash" \in StagingFaults /\ sprune.at # "idle"
    /\ Goes(SRest)
    /\ vaults' = IF sprune.tree = NoTree THEN vaults ELSE vaults \cup {sprune.tree}
    /\ UNCHANGED <<staging, wiped>>

PruneStep ==
    \/ ListStaging \/ ScanStaging \/ RecheckStaging \/ CheckIsolated
    \/ \E c \in Finished : IsolateStagingCandidate(c)
    \/ RemoveStagingTree \/ RestoreIsolated \/ StagingPruned \/ PruneKilled

StagingNext ==
    \/ \E c \in Candidates : BuildStage(c) \/ \E f \in StageFiles : WriteStage(c, f)
    \/ PruneStep

StagingSpec == StagingInit /\ [][StagingNext]_stagingVars

----------------------------------------------------------------------------
\* Correctness.

\* No file is removed that the command had not planned to remove: a release
\* that starts over under the same name, or goes on writing, loses nothing,
\* because a tree is looked at again after the move (isolateStagingCandidate).
OnlyPlannedIsRemoved ==
    \A w \in wiped' \ wiped :
        \E c \in Finished : sprune.seen[c].id = w[1] /\ w[2] \in sprune.seen[c].files

\* Of the two commands that remove: a rotation of backups keeps the newest, and
\* the prune of staging removes what it planned and nothing that came since.
PruningIsSafe == [][PruneKeepsNewest /\ OnlyPlannedIsRemoved]_<<bkVars, stagingVars>>

=============================================================================
