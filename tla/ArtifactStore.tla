---------------------------- MODULE ArtifactStore ----------------------------
(***************************************************************************)
(* Artifacts of the Hub (hub/core/artifacts.go, hub/store/store.go).       *)
(* A Node uploads a file in chunks into a part file, and completes it: the *)
(* part becomes the blob of its content, and the tables say so afterwards. *)
(* Maintenance removes what has expired or was given up, through a table   *)
(* of queued file deletions.                                               *)
(*                                                                         *)
(* An upload and its artifact have one row each and are created together,  *)
(* so one number names both.  Time is a flag on each row that says whether *)
(* its deadline has passed.  A handler holds the lock of its upload (op)   *)
(* or of its creation request (creating) from its first step to its last,  *)
(* and the read side of the maintenance lock with it.  Owners, names,      *)
(* media types, byte quotas and the audit table are left out.              *)
(***************************************************************************)
EXTENDS Integers, FiniteSets, FiniteSetsExt

CONSTANTS Contents,     \* contents, named by their digests
          Uploads,      \* numbers of uploads, in the order of creation
          Chunks,       \* chunks of a file
          MaxActive,    \* MaxActiveArtifactUploads
          MaxMishaps,   \* bound: crashes of the Hub and failed removals
          ArtFaults     \* subset of {"cancel"}: a request may be cancelled
                        \* after its transaction has been committed

ASSUME ArtAssumption ==
    /\ IsFiniteSet(Contents) /\ {"none", "altered"} \cap Contents = {}
    /\ Uploads \subseteq Nat /\ IsFiniteSet(Uploads)
    /\ Chunks \in Nat \ {0}
    /\ MaxActive \in Nat
    /\ MaxMishaps \in Nat

VARIABLES upload,     \* artifact_uploads, by number
          artifact,   \* artifacts, by number
          content,    \* what the Node really sends for an upload
          part,       \* chunks in the part file of an upload, or Absent
          blob,       \* contents that have a blob
          deletions,  \* artifact_file_deletions
          pinned,     \* artifacts that are pages of a result
          op,         \* step of the handler that holds the lock of an upload
          creating,   \* the handler that holds the lock of a creation
          sweep,      \* the maintenance goroutine
          mishaps

artVars == <<upload, artifact, content, part, blob, deletions, pinned, op,
             creating, sweep, mishaps>>
files == <<part, blob>>
tables == <<upload, artifact, deletions, pinned>>

Absent == -1
NoContent == "none"
Altered == "altered"    \* a file that changed after it was hashed
NoRow == [status |-> "none", sha |-> NoContent, received |-> 0, expired |-> FALSE]
NoArtifact == [status |-> "none", key |-> NoContent, expired |-> FALSE]
AtRest == [step |-> "idle", old |-> 0]
Resting == [step |-> "idle", todo |-> {}, done |-> {}]

Entries == ({"upload"} \X Uploads) \cup ({"blob"} \X Contents)

ArtTypeOK ==
    /\ upload \in [Uploads -> [status : {"none", "active", "complete", "aborted"},
                               sha : Contents \cup {NoContent},
                               received : 0..Chunks, expired : BOOLEAN]]
    /\ artifact \in [Uploads ->
                       [status : {"none", "uploading", "complete", "aborted", "deleted"},
                        key : Contents \cup {NoContent}, expired : BOOLEAN]]
    /\ content \in [Uploads -> Contents \cup {Altered, NoContent}]
    /\ part \in [Uploads -> {Absent} \cup 0..Chunks]
    /\ blob \subseteq Contents
    /\ deletions \subseteq Entries
    /\ pinned \subseteq Uploads
    /\ op \in [Uploads -> {"idle", "wrote", "hashed", "moved", "reused", "drop", "removing"}]
    /\ creating \in [Contents -> [step : {"idle", "abort", "remove", "insert"},
                                  old : Uploads \cup {0}]]
    /\ sweep \in [step : {"idle", "waiting", "deleting"}, todo : SUBSET Entries, done : SUBSET Entries]
    /\ mishaps \in 0..MaxMishaps

ArtInit ==
    /\ upload = [u \in Uploads |-> NoRow]
    /\ artifact = [u \in Uploads |-> NoArtifact]
    /\ content = [u \in Uploads |-> NoContent]
    /\ part = [u \in Uploads |-> Absent]
    /\ blob = {} /\ deletions = {} /\ pinned = {}
    /\ op = [u \in Uploads |-> "idle"]
    /\ creating = [c \in Contents |-> AtRest]
    /\ sweep = Resting
    /\ mishaps = 0

-----------------------------------------------------------------------------
(* Transactions. *)

Active(u) == upload[u].status = "active" /\ ~upload[u].expired

\* FindResumableArtifactUpload: the newest upload of this content that can go on.
Resumable(c) ==
    {u \in Uploads : Active(u) /\ upload[u].sha = c /\ artifact[u].status = "uploading"}

ActiveUploads == {u \in Uploads : Active(u)}

\* AbortArtifactUpload: an upload that is not active stays as it is.
AbortTx(u) ==
    IF upload[u].status = "active"
    THEN /\ upload' = [upload EXCEPT ![u].status = "aborted"]
         /\ artifact' = [artifact EXCEPT ![u].status =
                           IF @ = "uploading" THEN "aborted" ELSE @]
    ELSE UNCHANGED <<upload, artifact>>

\* CompleteArtifactUpload of the store: the upload is still active.
CompleteTx(u) ==
    /\ upload[u].status = "active"
    /\ artifact[u].status = "uploading"
    /\ upload' = [upload EXCEPT ![u].status = "complete"]
    /\ artifact' = [artifact EXCEPT ![u].status = "complete", ![u].key = upload[u].sha]

\* ArtifactStorageKeyReferenced
Referenced(c) == \E u \in Uploads : artifact[u].key = c /\ artifact[u].status # "deleted"

\* The part file holds what the row says has been received.
PartMatches(u) ==
    \/ part[u] = upload[u].received
    \/ part[u] = Absent /\ upload[u].received = 0

\* lockArtifactOperation: while maintenance waits for its lock, no handler
\* begins.
MayBegin == sweep.step # "waiting"

-----------------------------------------------------------------------------
(* CreateArtifactUpload.  An upload that can go on is answered without a   *)
(* change; one whose part file disagrees with its row is given up first,   *)
(* while a handler of that upload may be at work.                          *)

CreateBegin(c) ==
    /\ creating[c].step = "idle" /\ MayBegin
    /\ \/ /\ Resumable(c) = {}
          /\ creating' = [creating EXCEPT ![c].step = "insert"]
       \/ /\ Resumable(c) # {}
          /\ LET old == Max(Resumable(c)) IN
               /\ ~PartMatches(old)
               /\ creating' = [creating EXCEPT ![c] = [step |-> "abort", old |-> old]]
    /\ UNCHANGED <<tables, files, content, op, sweep, mishaps>>

CreateAbort(c) ==
    /\ creating[c].step = "abort"
    /\ AbortTx(creating[c].old)
    /\ creating' = [creating EXCEPT ![c].step = "remove"]
    /\ UNCHANGED <<deletions, pinned, files, content, op, sweep, mishaps>>

CreateRemove(c) ==
    /\ creating[c].step = "remove"
    /\ part' = [part EXCEPT ![creating[c].old] = Absent]
    /\ creating' = [creating EXCEPT ![c].step = "insert"]
    /\ UNCHANGED <<tables, blob, content, op, sweep, mishaps>>

\* The new upload, unless the machine has too many (or the model no number
\* left).  The Node hashed the file before it sends it, and the file may change.
CreateInsert(c) ==
    /\ creating[c].step = "insert"
    /\ creating' = [creating EXCEPT ![c] = AtRest]
    /\ \/ /\ \/ Cardinality(ActiveUploads) >= MaxActive
             \/ \A u \in Uploads : content[u] # NoContent
          /\ UNCHANGED <<upload, artifact, content>>
       \/ /\ Cardinality(ActiveUploads) < MaxActive
          /\ \E sent \in {c, Altered}, u \in Uploads :
               /\ content[u] = NoContent
               /\ \A v \in Uploads : v < u => content[v] # NoContent
               /\ content' = [content EXCEPT ![u] = sent]
               /\ upload' = [upload EXCEPT ![u] =
                    [status |-> "active", sha |-> c, received |-> 0, expired |-> FALSE]]
               /\ artifact' = [artifact EXCEPT ![u].status = "uploading"]
    /\ UNCHANGED <<deletions, pinned, files, op, sweep, mishaps>>

-----------------------------------------------------------------------------
(* UploadArtifactChunk *)

\* The chunk is written behind what has been received and synced; a failed
\* write truncates it again.  Opening the file creates it.
ChunkWrite(u) ==
    /\ op[u] = "idle" /\ MayBegin
    /\ Active(u)
    /\ upload[u].received < Chunks
    /\ \/ /\ PartMatches(u)
          /\ part' = [part EXCEPT ![u] = upload[u].received + 1]
          /\ op' = [op EXCEPT ![u] = "wrote"]
       \/ /\ part[u] = Absent
          /\ part' = [part EXCEPT ![u] = 0]
          /\ UNCHANGED op
    /\ UNCHANGED <<tables, blob, content, creating, sweep, mishaps>>

\* AdvanceArtifactUpload.  An upload that was given up meanwhile, or a
\* cancelled request, takes the chunk back.
ChunkAdvance(u) ==
    /\ op[u] = "wrote"
    /\ op' = [op EXCEPT ![u] = "idle"]
    /\ \/ /\ upload[u].status = "active"
          /\ upload' = [upload EXCEPT ![u].received = @ + 1]
          /\ UNCHANGED part
       \/ /\ part' = [part EXCEPT ![u] = IF @ = Absent THEN Absent ELSE upload[u].received]
          /\ UNCHANGED upload
    /\ UNCHANGED <<artifact, deletions, pinned, blob, content, creating, sweep, mishaps>>

-----------------------------------------------------------------------------
(* CompleteArtifactUpload.  The answer to a completed upload is given again *)
(* without a change.                                                       *)

\* The part is hashed.  With the wrong hash the upload is given up.
CompleteHash(u) ==
    /\ op[u] = "idle" /\ MayBegin
    /\ Active(u)
    /\ upload[u].received = Chunks
    /\ part[u] = Chunks
    /\ \/ /\ content[u] = upload[u].sha
          /\ op' = [op EXCEPT ![u] = "hashed"]
          /\ UNCHANGED <<upload, artifact>>
       \/ /\ content[u] # upload[u].sha
          /\ op' = [op EXCEPT ![u] = "removing"]
          /\ AbortTx(u)
    /\ UNCHANGED <<deletions, pinned, files, content, creating, sweep, mishaps>>

\* Mutant: the key of a blob is not locked.
NeverLocked(c) == FALSE

\* lockArtifactKey of the blob: one handler at a time between CompleteMove and
\* its last step.
BlobLocked(c) ==
    \E u \in Uploads : op[u] \in {"moved", "reused", "drop"} /\ upload[u].sha = c

\* A blob that exists is used; otherwise the part is renamed, unless it is gone.
CompleteMove(u) ==
    LET c == upload[u].sha IN
    /\ op[u] = "hashed"
    /\ ~BlobLocked(c)
    /\ \/ /\ c \in blob
          /\ op' = [op EXCEPT ![u] = "reused"]
          /\ UNCHANGED files
       \/ /\ c \notin blob /\ part[u] # Absent
          /\ part' = [part EXCEPT ![u] = Absent]
          /\ blob' = blob \cup {c}
          /\ op' = [op EXCEPT ![u] = "moved"]
       \/ /\ c \notin blob /\ part[u] = Absent
          /\ op' = [op EXCEPT ![u] = "idle"]
          /\ UNCHANGED files
    /\ UNCHANGED <<tables, content, creating, sweep, mishaps>>

\* What CompleteArtifactUpload does when the store returns an error.
MoveBack(u) ==
    /\ op' = [op EXCEPT ![u] = "idle"]
    /\ IF op[u] = "moved"
       THEN /\ part' = [part EXCEPT ![u] = Chunks]
            /\ blob' = blob \ {upload[u].sha}
       ELSE UNCHANGED files

\* The transaction is committed.
CompleteCommit(u) ==
    /\ op[u] \in {"moved", "reused"}
    /\ CompleteTx(u)
    /\ op' = [op EXCEPT ![u] = IF @ = "reused" THEN "drop" ELSE "idle"]
    /\ UNCHANGED <<deletions, pinned, files, content, creating, sweep, mishaps>>

\* The transaction is rolled back: the upload was given up, or the request
\* was cancelled.
CompleteFails(u) ==
    /\ op[u] \in {"moved", "reused"}
    /\ MoveBack(u)
    /\ UNCHANGED <<tables, content, creating, sweep, mishaps>>

\* The transaction is committed, and reading the row back fails because the
\* request has been cancelled: the store returns an error all the same.
CompleteUnread(u) ==
    /\ "cancel" \in ArtFaults
    /\ op[u] \in {"moved", "reused"}
    /\ CompleteTx(u)
    /\ MoveBack(u)
    /\ UNCHANGED <<deletions, pinned, content, creating, sweep, mishaps>>

\* The part of an upload that used an existing blob is removed.
CompleteDrop(u) ==
    /\ op[u] = "drop"
    /\ part' = [part EXCEPT ![u] = Absent]
    /\ op' = [op EXCEPT ![u] = "idle"]
    /\ UNCHANGED <<tables, blob, content, creating, sweep, mishaps>>

-----------------------------------------------------------------------------
(* AbortArtifactUpload: the rows, then the part. *)

Abort(u) ==
    /\ op[u] = "idle" /\ MayBegin
    /\ upload[u].status \in {"active", "aborted"}
    /\ AbortTx(u)
    /\ op' = [op EXCEPT ![u] = "removing"]
    /\ UNCHANGED <<deletions, pinned, files, content, creating, sweep, mishaps>>

AbortRemove(u) ==
    /\ op[u] = "removing"
    /\ part' = [part EXCEPT ![u] = Absent]
    /\ op' = [op EXCEPT ![u] = "idle"]
    /\ UNCHANGED <<tables, blob, content, creating, sweep, mishaps>>

-----------------------------------------------------------------------------
(* Time, and the pages of results. *)

\* artifactUploadTTL, and artifactRetention after it.
ExpireUpload(u) ==
    /\ upload[u].status # "none" /\ ~upload[u].expired
    /\ upload' = [upload EXCEPT ![u].expired = TRUE]
    /\ UNCHANGED <<artifact, deletions, pinned, files, content, op, creating, sweep, mishaps>>

ExpireArtifact(u) ==
    /\ artifact[u].status = "complete" /\ ~artifact[u].expired
    /\ upload[u].status = "none" \/ upload[u].expired
    /\ artifact' = [artifact EXCEPT ![u].expired = TRUE]
    /\ UNCHANGED <<upload, deletions, pinned, files, content, op, creating, sweep, mishaps>>

\* AttachResultPage: the artifact is complete and has not expired.  A page
\* stays for as long as its result, which nothing removes (see ResultPool).
PinPage(u) ==
    /\ artifact[u].status = "complete" /\ ~artifact[u].expired
    /\ u \notin pinned
    /\ pinned' = pinned \cup {u}
    /\ UNCHANGED <<upload, artifact, deletions, files, content, op, creating, sweep, mishaps>>

-----------------------------------------------------------------------------
(* Maintenance. *)

\* cleanupArtifacts asks for the write side of the maintenance lock, and has
\* it when the handlers that have begun are done.
SweepWait ==
    /\ sweep.step = "idle"
    /\ sweep' = [sweep EXCEPT !.step = "waiting"]
    /\ UNCHANGED <<tables, files, content, op, creating, mishaps>>

NoHandler ==
    /\ \A u \in Uploads : op[u] = "idle"
    /\ \A c \in Contents : creating[c].step = "idle"

\* Uploads that have expired or were given up.
Stale == {u \in Uploads : \/ upload[u].status = "aborted"
                          \/ upload[u].status # "none" /\ upload[u].expired}

\* Artifacts that CleanupArtifacts removes: those of unfinished stale uploads,
\* unfinished ones without an upload, and expired ones that are no pages.
Removable ==
    {u \in Uploads :
       \/ artifact[u].status \in {"uploading", "aborted"}
            /\ (u \in Stale \/ upload[u].status = "none")
       \/ artifact[u].status = "complete" /\ artifact[u].expired /\ u \notin pinned}

\* Mutant: the digests of unfinished uploads are not looked at.
KeysOfRemovable == {artifact[u].key : u \in Removable} \ {NoContent}

\* Keys whose blob may have lost its last artifact.  That of an unfinished
\* upload is derived from its digest, in case the Hub ended between the
\* rename and the commit.
Candidates ==
    {upload[u].sha : u \in {v \in Stale : upload[v].status # "complete"}}
      \cup ({artifact[u].key : u \in Removable} \ {NoContent})

\* CleanupArtifacts, one transaction.  All queued deletions are due.
SweepTables ==
    /\ sweep.step = "waiting"
    /\ NoHandler
    /\ artifact' = [u \in Uploads |-> IF u \in Removable
                                      THEN [artifact[u] EXCEPT !.status = "deleted"]
                                      ELSE artifact[u]]
    /\ upload' = [u \in Uploads |-> IF u \in Stale THEN NoRow ELSE upload[u]]
    /\ LET kept == {artifact[u].key : u \in {v \in Uploads \ Removable :
                                                artifact[v].status # "deleted"}}
       IN  deletions' = deletions \cup ({"upload"} \X Stale)
                                  \cup ({"blob"} \X (Candidates \ kept))
    /\ sweep' = [step |-> "deleting", todo |-> deletions', done |-> {}]
    /\ UNCHANGED <<pinned, files, content, op, creating, mishaps>>

\* cleanupArtifactDeletion of a part file, under the lock of its upload.
SweepPart(u) ==
    /\ <<"upload", u>> \in sweep.todo
    /\ op[u] = "idle"
    /\ part' = [part EXCEPT ![u] = Absent]
    /\ sweep' = [sweep EXCEPT !.todo = @ \ {<<"upload", u>>}, !.done = @ \cup {<<"upload", u>>}]
    /\ UNCHANGED <<tables, blob, content, op, creating, mishaps>>

\* Mutant: the references are not read again.
SweepBlobAnyway(c) ==
    /\ <<"blob", c>> \in sweep.todo
    /\ ~BlobLocked(c)
    /\ blob' = blob \ {c}
    /\ sweep' = [sweep EXCEPT !.todo = @ \ {<<"blob", c>>}, !.done = @ \cup {<<"blob", c>>}]
    /\ UNCHANGED <<tables, part, content, op, creating, mishaps>>

\* cleanupArtifactDeletion of a blob, under its lock: one that is in use again
\* is left alone.
SweepBlob(c) ==
    /\ <<"blob", c>> \in sweep.todo
    /\ ~BlobLocked(c)
    /\ blob' = IF Referenced(c) THEN blob ELSE blob \ {c}
    /\ sweep' = [sweep EXCEPT !.todo = @ \ {<<"blob", c>>}, !.done = @ \cup {<<"blob", c>>}]
    /\ UNCHANGED <<tables, part, content, op, creating, mishaps>>

\* FailArtifactFileDeletion: the entry stays for a later sweep.
SweepFails(e) ==
    /\ e \in sweep.todo
    /\ mishaps < MaxMishaps
    /\ mishaps' = mishaps + 1
    /\ sweep' = [sweep EXCEPT !.todo = @ \ {e}]
    /\ UNCHANGED <<tables, files, content, op, creating>>

\* CompleteArtifactFileDeletions
SweepDone ==
    /\ sweep.step = "deleting" /\ sweep.todo = {}
    /\ deletions' = deletions \ sweep.done
    /\ sweep' = Resting
    /\ UNCHANGED <<upload, artifact, pinned, files, content, op, creating, mishaps>>

\* The Hub ends and starts again: files and tables remain.
HubCrash ==
    /\ mishaps < MaxMishaps
    /\ mishaps' = mishaps + 1
    /\ op' = [u \in Uploads |-> "idle"]
    /\ creating' = [c \in Contents |-> AtRest]
    /\ sweep' = Resting
    /\ UNCHANGED <<tables, files, content>>

-----------------------------------------------------------------------------

CreateStep(c) == CreateBegin(c) \/ CreateAbort(c) \/ CreateRemove(c) \/ CreateInsert(c)

\* Steps of a handler that has begun.
ChunkStep(u) == ChunkAdvance(u)

CompleteStep(u) ==
    \/ CompleteMove(u) \/ CompleteCommit(u) \/ CompleteFails(u)
    \/ CompleteUnread(u) \/ CompleteDrop(u)

HandlerStep(u) == ChunkStep(u) \/ CompleteStep(u) \/ AbortRemove(u)

\* uploadArtifactPath: what the Node asks for an upload it was given.  It sends
\* the chunks from the offset it is told, completes, and aborts on a failure;
\* it may do so again at any time, for an answer may be lost.
UploadArtifactPath(u) == ChunkWrite(u) \/ CompleteHash(u) \/ Abort(u)

SweepStep == (\E u \in Uploads : SweepPart(u)) \/ (\E c \in Contents : SweepBlob(c)) \/ SweepDone

ArtNext ==
    \/ \E c \in Contents : CreateStep(c)
    \/ \E u \in Uploads : UploadArtifactPath(u) \/ HandlerStep(u)
    \/ \E u \in Uploads : ExpireUpload(u) \/ ExpireArtifact(u) \/ PinPage(u)
    \/ SweepWait \/ SweepTables \/ SweepStep
    \/ \E e \in Entries : SweepFails(e)
    \/ HubCrash

\* Goroutines run, deadlines pass, and the ticker of the maintenance fires.
\* A mutex is handed to those who wait for it, hence strong fairness.
CreateGoesOn(c) == creating[c].step # "idle" /\ CreateStep(c)
DeadlinePasses == \E u \in Uploads : ExpireUpload(u) \/ ExpireArtifact(u)
SweepBegins == SweepWait \/ SweepTables

ArtFairness ==
    /\ \A c \in Contents : WF_artVars(CreateGoesOn(c))
    /\ \A u \in Uploads : SF_artVars(HandlerStep(u))
    /\ WF_artVars(DeadlinePasses) /\ WF_artVars(SweepBegins) /\ SF_artVars(SweepStep)

ArtSpec == ArtInit /\ [][ArtNext]_artVars /\ ArtFairness

-----------------------------------------------------------------------------
(* Properties *)

\* Every artifact that the tables call complete has its blob, whatever
\* handlers, maintenance and crashes do between the rename and the commit.
CompleteHasBlob ==
    \A u \in Uploads : artifact[u].status = "complete" => artifact[u].key \in blob

\* The store keeps what OpenArtifacts promises (GetArtifact and OpenArtifact):
\* an artifact can be opened from its completion to the end of its retention.
OpenNow == {u \in Uploads : artifact[u].status = "complete" /\ ~artifact[u].expired
                            /\ artifact[u].key \in blob}
RetiredNow == {u \in Uploads : artifact[u].expired}
Readers == INSTANCE OpenArtifacts WITH Ids <- Uploads, open <- OpenNow, retired <- RetiredNow
StaysOpen == Readers!OASpec

\* A blob without an artifact and a part without an upload are removed in the
\* end, though the Hub may end between a file and its row.
OrphansReclaimed ==
    /\ \A c \in Contents : (c \in blob /\ ~Referenced(c)) ~> (c \notin blob \/ Referenced(c))
    /\ \A u \in Uploads : (part[u] # Absent /\ upload[u].status = "none") ~> (part[u] = Absent)
=============================================================================
