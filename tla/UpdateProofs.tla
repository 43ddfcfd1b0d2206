----------------------------- MODULE UpdateProofs -----------------------------
(***************************************************************************)
(* The proofs of what MCLive composes.  The artifacts of the Hub: a        *)
(* completed artifact has its blob, and the store implements OpenArtifacts,*)
(* for any number of contents, uploads, chunks and crashes, provided that  *)
(* the read after a commit does not fail ("cancel").  How a Node is        *)
(* updated, for any number of requests and pushes, and of releases,        *)
(* helpers and applications: a Node without local requests does not        *)
(* restart while it is busy, and the executable is there whenever no       *)
(* helper is replacing it, under all faults but a second request to        *)
(* install while the application ends ("twice").                           *)
(***************************************************************************)
EXTENDS MCLive, FiniteSetTheorems, WellFoundedInduction, TLAPS

-----------------------------------------------------------------------------
(***************************************************************************)
(* The artifacts.                                                          *)
(***************************************************************************)
Steps == {"idle", "wrote", "hashed", "moved", "reused", "drop", "removing"}
UploadStates == {"none", "active", "complete", "aborted"}
ArtifactStates == {"none", "uploading", "complete", "aborted", "deleted"}
UploadRows == [status : UploadStates, sha : Contents \cup {NoContent}, received : Int, expired : BOOLEAN]
ArtifactRows == [status : ArtifactStates, key : Contents \cup {NoContent}, expired : BOOLEAN]

(***************************************************************************)
(* The types that the argument needs.                                      *)
(***************************************************************************)
StoreTypes ==
    /\ upload \in [Uploads -> UploadRows]
    /\ artifact \in [Uploads -> ArtifactRows]
    /\ content \in [Uploads -> Contents \cup {Altered, NoContent}]
    /\ op \in [Uploads -> Steps]

(***************************************************************************)
(* A number that was not given out has no rows and no handler.             *)
(***************************************************************************)
FreshNumbers ==
    \A u \in Uploads : content[u] = NoContent =>
        /\ op[u] = "idle" /\ upload[u].status = "none"
        /\ artifact[u].status = "none" /\ ~artifact[u].expired

(***************************************************************************)
(* A handler at work has the row of its upload, and a row has a digest.    *)
(***************************************************************************)
RowsStay ==
    \A u \in Uploads : /\ op[u] # "idle" => upload[u].status # "none"
                       /\ upload[u].status # "none" => upload[u].sha \in Contents

InBlob(u) == op[u] \in {"moved", "reused", "drop"}

(***************************************************************************)
(* lockArtifactKey: one handler at a time works on a blob.                 *)
(***************************************************************************)
OnePerBlob ==
    \A u, v \in Uploads : InBlob(u) /\ InBlob(v) /\ upload[u].sha = upload[v].sha => u = v

(***************************************************************************)
(* A handler that is about to commit has its blob; one that made it is the *)
(* only one that needs it, so that it may move it back.                    *)
(***************************************************************************)
BlobStays ==
    \A u \in Uploads :
        /\ op[u] \in {"moved", "reused"} => upload[u].sha \in blob
        /\ op[u] = "moved" => \A v \in Uploads :
              artifact[v].status = "complete" => artifact[v].key # upload[u].sha

(***************************************************************************)
(* Retention begins with the completion.                                   *)
(***************************************************************************)
RetentionOfComplete ==
    \A u \in Uploads : artifact[u].expired => artifact[u].status \in {"complete", "deleted"}

StoreInv ==
    /\ StoreTypes /\ FreshNumbers /\ RowsStay /\ OnePerBlob /\ BlobStays
    /\ RetentionOfComplete /\ CompleteHasBlob

\* The empty store satisfies the invariant.
LEMMA StoreInit == ArtInit => StoreInv
  BY ArtAssumption DEF ArtInit, StoreInv, StoreTypes, FreshNumbers, RowsStay, OnePerBlob,
     BlobStays, RetentionOfComplete, CompleteHasBlob, InBlob, NoRow, NoArtifact, NoContent,
     Altered, Steps, UploadStates, ArtifactStates, UploadRows, ArtifactRows

(***************************************************************************)
(* A step that leaves the tables, the blobs and the digests alone, and no  *)
(* handler behind one that moves a blob.                                   *)
(***************************************************************************)
Untouched ==
    /\ UNCHANGED <<artifact, content, blob>>
    /\ upload' \in [Uploads -> UploadRows]
    /\ op' \in [Uploads -> Steps]
    /\ \A u \in Uploads :
          /\ upload'[u].sha = upload[u].sha /\ upload'[u].status = upload[u].status
          /\ \/ op'[u] = op[u]
             \/ op'[u] = "idle"
             \/ op'[u] \in {"wrote", "hashed", "removing"} /\ upload[u].status # "none"

\* A step of that kind keeps the invariant.
LEMMA UntouchedKeeps == StoreInv /\ Untouched => StoreInv'
  <1> SUFFICES ASSUME StoreInv, Untouched PROVE StoreInv'
    OBVIOUS
  <1> USE DEF StoreInv, Untouched
  <1>1. StoreTypes'
    BY DEF StoreTypes
  <1>2. FreshNumbers' /\ RowsStay'
    BY DEF FreshNumbers, RowsStay
  <1>3. OnePerBlob' /\ BlobStays'
    BY DEF OnePerBlob, BlobStays, InBlob
  <1>4. RetentionOfComplete' /\ CompleteHasBlob'
    BY DEF RetentionOfComplete, CompleteHasBlob
  <1> QED
    BY <1>1, <1>2, <1>3, <1>4

(***************************************************************************)
(* AbortTx gives an unfinished upload up and nothing else.                 *)
(***************************************************************************)
LEMMA AbortGivesUp ==
    ASSUME StoreInv, NEW u \in Uploads, AbortTx(u)
    PROVE  /\ upload' \in [Uploads -> UploadRows]
           /\ artifact' \in [Uploads -> ArtifactRows]
           /\ \A v \in Uploads :
                /\ upload'[v].sha = upload[v].sha
                /\ upload[v].status = "none" <=> upload'[v].status = "none"
                /\ artifact'[v].key = artifact[v].key
                /\ artifact'[v].expired = artifact[v].expired
                /\ \/ artifact'[v].status = artifact[v].status
                   \/ artifact[v].status = "uploading" /\ artifact'[v].status = "aborted"
  <1>1. CASE upload[u].status # "active"
    BY <1>1 DEF AbortTx, StoreInv, StoreTypes
  <1>2. CASE upload[u].status = "active"
    <2>1. /\ upload[u] \in UploadRows /\ artifact[u] \in ArtifactRows
          /\ upload' = [upload EXCEPT ![u] = upload'[u]]
          /\ artifact' = [artifact EXCEPT ![u] = artifact'[u]]
          /\ upload'[u] = [upload[u] EXCEPT !.status = "aborted"]
          /\ artifact'[u] = [artifact[u] EXCEPT !.status = IF @ = "uploading" THEN "aborted" ELSE @]
      BY <1>2 DEF AbortTx, StoreInv, StoreTypes
    <2>2. upload'[u] \in UploadRows /\ artifact'[u] \in ArtifactRows
      BY <2>1 DEF UploadRows, ArtifactRows, UploadStates, ArtifactStates
    <2>3. upload' \in [Uploads -> UploadRows] /\ artifact' \in [Uploads -> ArtifactRows]
      BY <2>1, <2>2 DEF StoreInv, StoreTypes
    <2>4. /\ upload'[u].sha = upload[u].sha /\ upload'[u].status = "aborted"
          /\ artifact'[u].key = artifact[u].key /\ artifact'[u].expired = artifact[u].expired
          /\ \/ artifact'[u].status = artifact[u].status
             \/ artifact[u].status = "uploading" /\ artifact'[u].status = "aborted"
      BY <2>1 DEF UploadRows, ArtifactRows
    <2>5. \A v \in Uploads \ {u} : upload'[v] = upload[v] /\ artifact'[v] = artifact[v]
      BY <2>1 DEF StoreInv, StoreTypes
    <2> QED
      BY <1>2, <2>3, <2>4, <2>5
  <1> QED
    BY <1>1, <1>2

(***************************************************************************)
(* Nor does a step that gives uploads up, and may remove parts.            *)
(***************************************************************************)
LEMMA AbortKeeps ==
    ASSUME StoreInv, NEW u \in Uploads, AbortTx(u), UNCHANGED <<content, blob>>,
           \/ UNCHANGED op
           \/ upload[u].status # "none" /\ op' = [op EXCEPT ![u] = "removing"]
    PROVE  StoreInv'
  <1>1. StoreTypes'
    BY AbortGivesUp DEF StoreInv, StoreTypes, Steps
  <1>2. FreshNumbers' /\ RowsStay'
    BY AbortGivesUp DEF StoreInv, StoreTypes, FreshNumbers, RowsStay
  <1>3. OnePerBlob' /\ BlobStays'
    BY AbortGivesUp DEF StoreInv, StoreTypes, OnePerBlob, BlobStays, InBlob
  <1>4. RetentionOfComplete' /\ CompleteHasBlob'
    BY AbortGivesUp DEF StoreInv, RetentionOfComplete, CompleteHasBlob
  <1> QED
    BY <1>1, <1>2, <1>3, <1>4 DEF StoreInv

(***************************************************************************)
(* Completion: the blob is made, or used; the tables follow, or it goes.   *)
(***************************************************************************)
LEMMA MoveKeeps ==
    ASSUME StoreInv, NEW u \in Uploads, CompleteMove(u)
    PROVE  StoreInv'
  <1> USE DEF CompleteMove, tables, files
  <1>1. StoreTypes' /\ FreshNumbers' /\ RowsStay'
    BY DEF StoreInv, StoreTypes, Steps, FreshNumbers, RowsStay
  <1>2. OnePerBlob'
    BY DEF StoreInv, StoreTypes, OnePerBlob, InBlob, BlobLocked
  <1>3. BlobStays'
    BY DEF StoreInv, StoreTypes, BlobStays, CompleteHasBlob
  <1>4. RetentionOfComplete' /\ CompleteHasBlob'
    BY DEF StoreInv, RetentionOfComplete, CompleteHasBlob
  <1> QED
    BY <1>1, <1>2, <1>3, <1>4 DEF StoreInv

\* CompleteTx: the row and the artifact become complete; the blob is there.
LEMMA CommitKeeps ==
    ASSUME StoreInv, NEW u \in Uploads, CompleteCommit(u)
    PROVE  StoreInv'
  <1>1. /\ op[u] \in {"moved", "reused"} /\ UNCHANGED <<blob, content>>
        /\ op' = [op EXCEPT ![u] = IF @ = "reused" THEN "drop" ELSE "idle"]
        /\ upload[u].status = "active" /\ artifact[u].status = "uploading"
        /\ upload' = [upload EXCEPT ![u] = [upload[u] EXCEPT !.status = "complete"]]
        /\ artifact' = [artifact EXCEPT ![u] =
               [artifact[u] EXCEPT !.status = "complete", !.key = upload[u].sha]]
    BY DEF CompleteCommit, CompleteTx, files, StoreInv, StoreTypes
  <1>2. upload[u] \in UploadRows /\ artifact[u] \in ArtifactRows
    BY DEF StoreInv, StoreTypes
  <1>3. /\ upload'[u] = [upload[u] EXCEPT !.status = "complete"]
        /\ artifact'[u] = [artifact[u] EXCEPT !.status = "complete", !.key = upload[u].sha]
        /\ \A v \in Uploads \ {u} : upload'[v] = upload[v] /\ artifact'[v] = artifact[v]
    BY <1>1 DEF StoreInv, StoreTypes
  <1>4. /\ upload'[u].sha = upload[u].sha /\ upload'[u].status = "complete"
        /\ artifact'[u].status = "complete" /\ artifact'[u].key = upload[u].sha
        /\ artifact'[u].expired = artifact[u].expired
    BY <1>2, <1>3 DEF UploadRows, ArtifactRows
  <1>5. upload'[u] \in UploadRows /\ artifact'[u] \in ArtifactRows
    BY <1>2, <1>3 DEF UploadRows, ArtifactRows, UploadStates, ArtifactStates
  <1>6. StoreTypes'
    BY <1>1, <1>3, <1>5 DEF StoreInv, StoreTypes, Steps
  <1>7. FreshNumbers' /\ RowsStay'
    BY <1>1, <1>3, <1>4 DEF StoreInv, StoreTypes, FreshNumbers, RowsStay
  <1>8. OnePerBlob' /\ BlobStays'
    <2>1. \A v \in Uploads : upload'[v].sha = upload[v].sha
      BY <1>3, <1>4
    <2>2. \A v \in Uploads \ {u} : op'[v] = op[v]
      BY <1>1 DEF StoreInv, StoreTypes
    <2>3. op'[u] \in {"drop", "idle"}
      BY <1>1 DEF StoreInv, StoreTypes
    <2>4. \A v \in Uploads \ {u} : InBlob(v) => upload[v].sha # upload[u].sha
      BY <1>1 DEF StoreInv, OnePerBlob, InBlob
    <2>5. OnePerBlob'
      BY <1>1, <2>1, <2>2 DEF StoreInv, OnePerBlob, InBlob
    <2>6. BlobStays'
      BY <1>1, <1>3, <1>4, <2>1, <2>2, <2>3, <2>4 DEF StoreInv, BlobStays, InBlob
    <2> QED
      BY <2>5, <2>6
  <1>9. RetentionOfComplete' /\ CompleteHasBlob'
    BY <1>1, <1>3, <1>4 DEF StoreInv, BlobStays, RetentionOfComplete, CompleteHasBlob
  <1> QED
    BY <1>6, <1>7, <1>8, <1>9 DEF StoreInv

\* The blob goes back to its part file: nobody else needs it.
LEMMA MoveBackKeeps ==
    ASSUME StoreInv, NEW u \in Uploads, CompleteFails(u)
    PROVE  StoreInv'
  <1> USE DEF CompleteFails, MoveBack, tables, files
  <1>1. StoreTypes' /\ FreshNumbers' /\ RowsStay'
    BY DEF StoreInv, StoreTypes, Steps, FreshNumbers, RowsStay
  <1>2. OnePerBlob'
    BY DEF StoreInv, StoreTypes, OnePerBlob, InBlob
  <1>3. BlobStays'
    BY DEF StoreInv, StoreTypes, OnePerBlob, InBlob, BlobStays
  <1>4. RetentionOfComplete' /\ CompleteHasBlob'
    BY DEF StoreInv, StoreTypes, BlobStays, RetentionOfComplete, CompleteHasBlob
  <1> QED
    BY <1>1, <1>2, <1>3, <1>4 DEF StoreInv

(***************************************************************************)
(* Maintenance: the tables are swept while no handler is at work, and a    *)
(* blob goes when no artifact names it and no handler is about to.         *)
(***************************************************************************)
LEMMA TablesKeep ==
    ASSUME StoreInv, SweepTables
    PROVE  StoreInv'
  <1>1. /\ UNCHANGED <<op, content, blob>>
        /\ \A u \in Uploads : op[u] = "idle"
        /\ upload' = [u \in Uploads |-> IF u \in Stale THEN NoRow ELSE upload[u]]
        /\ artifact' = [u \in Uploads |-> IF u \in Removable
                             THEN [artifact[u] EXCEPT !.status = "deleted"] ELSE artifact[u]]
    BY DEF SweepTables, NoHandler, files
  <1>2. NoRow \in UploadRows
    BY DEF NoRow, UploadRows, UploadStates
  <1>3. \A u \in Uploads : upload'[u] = NoRow \/ upload'[u] = upload[u]
    BY <1>1
  <1>4. \A u \in Uploads :
           \/ artifact'[u] = artifact[u]
           \/ /\ artifact[u].status # "none"
              /\ artifact'[u] = [artifact[u] EXCEPT !.status = "deleted"]
    BY <1>1 DEF Removable
  <1>5. \A u \in Uploads : /\ artifact'[u] \in ArtifactRows
                           /\ artifact'[u].expired = artifact[u].expired
                           /\ artifact'[u].key = artifact[u].key
                           /\ \/ artifact'[u] = artifact[u]
                              \/ artifact[u].status # "none" /\ artifact'[u].status = "deleted"
    <2> SUFFICES ASSUME NEW u \in Uploads
                 PROVE  /\ artifact'[u] \in ArtifactRows
                        /\ artifact'[u].expired = artifact[u].expired
                        /\ artifact'[u].key = artifact[u].key
                        /\ \/ artifact'[u] = artifact[u]
                           \/ artifact[u].status # "none" /\ artifact'[u].status = "deleted"
      OBVIOUS
    <2>1. artifact[u] \in ArtifactRows
      BY DEF StoreInv, StoreTypes
    <2>2. CASE artifact'[u] = artifact[u]
      BY <2>1, <2>2
    <2>3. CASE /\ artifact[u].status # "none"
               /\ artifact'[u] = [artifact[u] EXCEPT !.status = "deleted"]
      BY <2>1, <2>3 DEF ArtifactRows, ArtifactStates
    <2> QED
      BY <1>4, <2>2, <2>3
  <1>6. StoreTypes'
    BY <1>1, <1>2, <1>5 DEF StoreInv, StoreTypes
  <1>7. FreshNumbers'
    <2> SUFFICES ASSUME NEW u \in Uploads, content[u] = NoContent
                 PROVE  /\ op[u] = "idle" /\ upload'[u].status = "none"
                        /\ artifact'[u].status = "none" /\ ~artifact'[u].expired
      BY <1>1 DEF FreshNumbers
    <2>1. /\ op[u] = "idle" /\ upload[u].status = "none"
          /\ artifact[u].status = "none" /\ ~artifact[u].expired
      BY DEF StoreInv, FreshNumbers
    <2> QED
      BY <1>3, <1>5, <2>1 DEF NoRow
  <1>8. RowsStay' /\ OnePerBlob' /\ BlobStays'
    BY <1>1, <1>3 DEF StoreInv, RowsStay, OnePerBlob, BlobStays, InBlob, NoRow
  <1>9. RetentionOfComplete' /\ CompleteHasBlob'
    BY <1>1, <1>5 DEF StoreInv, RetentionOfComplete, CompleteHasBlob
  <1> QED
    BY <1>6, <1>7, <1>8, <1>9 DEF StoreInv

\* The sweep removes only blobs that no row refers to.
LEMMA BlobSweepKeeps ==
    ASSUME StoreInv, NEW c \in Contents, SweepBlob(c)
    PROVE  StoreInv'
  <1> USE DEF SweepBlob, tables
  <1>1. StoreTypes' /\ FreshNumbers' /\ RowsStay' /\ OnePerBlob' /\ RetentionOfComplete'
    BY DEF StoreInv, StoreTypes, FreshNumbers, RowsStay, OnePerBlob, InBlob, RetentionOfComplete
  <1>2. BlobStays'
    BY DEF StoreInv, BlobStays, BlobLocked
  <1>3. CompleteHasBlob'
    BY DEF StoreInv, CompleteHasBlob, Referenced
  <1> QED
    BY <1>1, <1>2, <1>3 DEF StoreInv

(***************************************************************************)
(* A new upload takes a number that has left no trace.                     *)
(***************************************************************************)
LEMMA InsertKeeps ==
    ASSUME StoreInv, NEW c \in Contents, CreateInsert(c)
    PROVE  StoreInv'
  <1>1. CASE UNCHANGED <<upload, artifact, content>>
    <2>1. Untouched
      BY <1>1 DEF CreateInsert, Untouched, files, StoreInv, StoreTypes
    <2> QED
      BY <2>1, UntouchedKeeps
  <1>2. ASSUME NEW sent \in {c, Altered}, NEW u \in Uploads,
               content[u] = NoContent, content' = [content EXCEPT ![u] = sent],
               upload' = [upload EXCEPT ![u] =
                    [status |-> "active", sha |-> c, received |-> 0, expired |-> FALSE]],
               artifact' = [artifact EXCEPT ![u].status = "uploading"]
        PROVE  StoreInv'
    <2>1. /\ op[u] = "idle" /\ UNCHANGED <<op, blob>> /\ artifact[u] \in ArtifactRows
          /\ artifact[u].status = "none" /\ ~artifact[u].expired
      BY <1>2 DEF CreateInsert, files, StoreInv, StoreTypes, FreshNumbers
    <2>2. /\ artifact'[u] = [artifact[u] EXCEPT !.status = "uploading"]
          /\ \A v \in Uploads \ {u} : /\ artifact'[v] = artifact[v] /\ upload'[v] = upload[v]
                                      /\ content'[v] = content[v]
      BY <1>2 DEF StoreInv, StoreTypes
    <2>3. /\ artifact'[u] \in ArtifactRows /\ artifact'[u].status = "uploading"
          /\ ~artifact'[u].expired
      BY <2>1, <2>2 DEF ArtifactRows, ArtifactStates
    <2>4. /\ upload'[u] \in UploadRows /\ upload'[u].sha = c /\ upload'[u].status = "active"
      BY <1>2 DEF StoreInv, StoreTypes, UploadRows, UploadStates
    <2>5. content'[u] = sent /\ sent # NoContent
      BY <1>2, ArtAssumption DEF StoreInv, StoreTypes, NoContent, Altered
    <2>6. StoreTypes'
      BY <1>2, <2>1, <2>3, <2>4 DEF StoreInv, StoreTypes
    <2>7. FreshNumbers' /\ RowsStay'
      BY <2>1, <2>2, <2>3, <2>4, <2>5 DEF StoreInv, FreshNumbers, RowsStay
    <2>8. OnePerBlob' /\ BlobStays'
      <3>1. OnePerBlob'
        BY <2>1, <2>2 DEF StoreInv, OnePerBlob, InBlob
      <3>2. \A v \in Uploads : op[v] \in {"moved", "reused"} => upload'[v].sha = upload[v].sha
        BY <2>1, <2>2
      <3>3. \A v \in Uploads : artifact'[v].status = "complete" =>
               artifact[v].status = "complete" /\ artifact'[v].key = artifact[v].key
        BY <2>2, <2>3
      <3>4. BlobStays'
        BY <2>1, <3>2, <3>3 DEF StoreInv, BlobStays
      <3> QED
        BY <3>1, <3>4
    <2>9. RetentionOfComplete' /\ CompleteHasBlob'
      BY <2>1, <2>2, <2>3 DEF StoreInv, RetentionOfComplete, CompleteHasBlob
    <2> QED
      BY <2>6, <2>7, <2>8, <2>9 DEF StoreInv
  <1> QED
    BY <1>1, <1>2 DEF CreateInsert

\* Every step of CreateArtifactUpload keeps the invariant.
LEMMA CreateKeeps ==
    ASSUME StoreInv, NEW c \in Contents, CreateStep(c)
    PROVE  StoreInv'
  <1>1. CASE UNCHANGED <<upload, artifact, content, blob, op>>
    <2>1. Untouched
      BY <1>1 DEF Untouched, StoreInv, StoreTypes
    <2> QED
      BY <2>1, UntouchedKeeps
  <1>2. CASE CreateAbort(c)
    <2>1. CASE creating[c].old \in Uploads
      BY <1>2, <2>1, AbortKeeps DEF CreateAbort, files
    <2>2. CASE creating[c].old \notin Uploads
      BY <1>1, <1>2, <2>2 DEF CreateAbort, AbortTx, files, StoreInv, StoreTypes
    <2> QED
      BY <2>1, <2>2
  <1>3. CASE CreateBegin(c)
    BY <1>1, <1>3 DEF CreateBegin, tables, files
  <1>4. CASE CreateRemove(c)
    BY <1>1, <1>4 DEF CreateRemove, tables
  <1> QED
    BY <1>2, <1>3, <1>4, InsertKeeps DEF CreateStep

(***************************************************************************)
(* What the Node asks for, and the rest of a handler.                      *)
(***************************************************************************)
LEMMA RequestKeeps ==
    ASSUME StoreInv, NEW u \in Uploads, UploadArtifactPath(u)
    PROVE  StoreInv'
  <1>1. CASE ChunkWrite(u)
    <2>1. Untouched
      BY <1>1 DEF ChunkWrite, Active, Untouched, tables, StoreInv, StoreTypes, Steps
    <2> QED
      BY <2>1, UntouchedKeeps
  <1>2. CASE CompleteHash(u)
    <2>1. CASE op' = [op EXCEPT ![u] = "hashed"] /\ UNCHANGED <<upload, artifact>>
      <3>1. Untouched
        BY <1>2, <2>1 DEF CompleteHash, Active, Untouched, files, StoreInv, StoreTypes, Steps
      <3> QED
        BY <3>1, UntouchedKeeps
    <2>2. CASE op' = [op EXCEPT ![u] = "removing"] /\ AbortTx(u)
      BY <1>2, <2>2, AbortKeeps DEF CompleteHash, Active, files
    <2> QED
      BY <1>2, <2>1, <2>2 DEF CompleteHash
  <1>3. CASE Abort(u)
    BY <1>3, AbortKeeps DEF Abort, files
  <1> QED
    BY <1>1, <1>2, <1>3 DEF UploadArtifactPath

\* AdvanceTx counts a chunk and nothing else.
LEMMA AdvanceKeeps ==
    ASSUME StoreInv, NEW u \in Uploads, ChunkAdvance(u)
    PROVE  StoreInv'
  <1>1. upload[u] \in UploadRows
    BY DEF StoreInv, StoreTypes
  <1>2. \/ UNCHANGED upload
        \/ upload' = [upload EXCEPT ![u] = [upload[u] EXCEPT !.received = @ + 1]]
    BY DEF ChunkAdvance
  <1>3. [upload[u] EXCEPT !.received = @ + 1] \in UploadRows
    BY <1>1 DEF UploadRows
  <1>4. upload' \in [Uploads -> UploadRows]
    BY <1>2, <1>3 DEF StoreInv, StoreTypes
  <1>5. \A v \in Uploads : upload'[v].sha = upload[v].sha /\ upload'[v].status = upload[v].status
    BY <1>1, <1>2 DEF UploadRows, StoreInv, StoreTypes
  <1>6. Untouched
    BY <1>4, <1>5 DEF ChunkAdvance, Untouched, StoreInv, StoreTypes, Steps
  <1> QED
    BY <1>6, UntouchedKeeps

\* Every step of the handler of an upload keeps the invariant.
LEMMA HandlerKeeps ==
    ASSUME StoreInv, "cancel" \notin ArtFaults, NEW u \in Uploads, HandlerStep(u)
    PROVE  StoreInv'
  <1>1. CASE CompleteDrop(u) \/ AbortRemove(u)
    <2>1. Untouched
      BY <1>1 DEF CompleteDrop, AbortRemove, Untouched, tables, StoreInv, StoreTypes, Steps
    <2> QED
      BY <2>1, UntouchedKeeps
  <1>2. ~CompleteUnread(u)
    BY DEF CompleteUnread
  <1> QED
    BY <1>1, <1>2, AdvanceKeeps, MoveKeeps, CommitKeeps, MoveBackKeeps
       DEF HandlerStep, ChunkStep, CompleteStep

(***************************************************************************)
(* Deadlines.                                                              *)
(***************************************************************************)
LEMMA DeadlineKeeps ==
    ASSUME StoreInv, NEW u \in Uploads, ExpireUpload(u) \/ ExpireArtifact(u) \/ PinPage(u)
    PROVE  StoreInv'
  <1>1. CASE ExpireUpload(u)
    <2>1. upload[u] \in UploadRows /\ upload' = [upload EXCEPT ![u] = [upload[u] EXCEPT !.expired = TRUE]]
      BY <1>1 DEF ExpireUpload, StoreInv, StoreTypes
    <2>2. [upload[u] EXCEPT !.expired = TRUE] \in UploadRows
      BY <2>1 DEF UploadRows
    <2>3. upload' \in [Uploads -> UploadRows]
      BY <2>1, <2>2 DEF StoreInv, StoreTypes
    <2>4. \A v \in Uploads : upload'[v].sha = upload[v].sha /\ upload'[v].status = upload[v].status
      BY <2>1 DEF UploadRows, StoreInv, StoreTypes
    <2>5. Untouched
      BY <1>1, <2>3, <2>4 DEF ExpireUpload, files, Untouched, StoreInv, StoreTypes
    <2> QED
      BY <2>5, UntouchedKeeps
  <1>2. CASE ExpireArtifact(u)
    <2>1. /\ artifact[u] \in ArtifactRows /\ artifact[u].status = "complete"
          /\ artifact' = [artifact EXCEPT ![u] = [artifact[u] EXCEPT !.expired = TRUE]]
          /\ UNCHANGED <<upload, op, content, blob>>
      BY <1>2 DEF ExpireArtifact, files, StoreInv, StoreTypes
    <2>2. [artifact[u] EXCEPT !.expired = TRUE] \in ArtifactRows
      BY <2>1 DEF ArtifactRows
    <2>3. \A v \in Uploads : /\ artifact'[v].key = artifact[v].key
                             /\ artifact'[v].status = artifact[v].status
                             /\ v # u => artifact'[v].expired = artifact[v].expired
      BY <2>1 DEF ArtifactRows, StoreInv, StoreTypes
    <2>4. StoreTypes'
      BY <2>1, <2>2 DEF StoreInv, StoreTypes
    <2>5. FreshNumbers' /\ RowsStay' /\ OnePerBlob' /\ BlobStays'
      BY <2>1, <2>3 DEF StoreInv, FreshNumbers, RowsStay, OnePerBlob, InBlob, BlobStays
    <2>6. RetentionOfComplete' /\ CompleteHasBlob'
      BY <2>1, <2>3 DEF StoreInv, RetentionOfComplete, CompleteHasBlob
    <2> QED
      BY <2>4, <2>5, <2>6 DEF StoreInv
  <1>3. CASE PinPage(u)
    <2>1. Untouched
      BY <1>3 DEF PinPage, files, Untouched, StoreInv, StoreTypes
    <2> QED
      BY <2>1, UntouchedKeeps
  <1> QED
    BY <1>1, <1>2, <1>3

\* The invariant is inductive.
LEMMA StoreStep ==
    ASSUME StoreInv, "cancel" \notin ArtFaults, [ArtNext]_artVars
    PROVE  StoreInv'
  <1>1. CASE \/ UNCHANGED artVars \/ SweepWait \/ SweepDone \/ HubCrash
             \/ \E u \in Uploads : SweepPart(u)
             \/ \E e \in Entries : SweepFails(e)
    <2>1. Untouched
      BY <1>1 DEF artVars, SweepWait, SweepDone, HubCrash, SweepPart, SweepFails, tables, files,
                  Untouched, StoreInv, StoreTypes, Steps
    <2> QED
      BY <2>1, UntouchedKeeps
  <1> QED
    BY <1>1, CreateKeeps, RequestKeeps, HandlerKeeps, DeadlineKeeps, TablesKeep, BlobSweepKeeps
       DEF ArtNext, SweepStep

(***************************************************************************)
(* A completed artifact has its blob as long as the read after the commit  *)
(* does not fail, whatever handlers, the sweep and crashes do              *)
(* (CompleteArtifactUpload, cleanupArtifacts).                             *)
(***************************************************************************)
THEOREM BlobIsThere ==
    ASSUME "cancel" \notin ArtFaults
    PROVE  ArtSpec => []CompleteHasBlob
  <1>1. ArtInit => StoreInv
    BY StoreInit
  <1>2. StoreInv /\ [ArtNext]_artVars => StoreInv'
    BY StoreStep
  <1>3. StoreInv => CompleteHasBlob
    BY DEF StoreInv
  <1> QED
    BY <1>1, <1>2, <1>3, PTL DEF ArtSpec

(***************************************************************************)
(* What readers see of the store: since a completed artifact has its blob, *)
(* the rows decide.                                                        *)
(***************************************************************************)
LEMMA RowsDecide ==
    ASSUME StoreInv
    PROVE  OpenNow = {u \in Uploads : artifact[u].status = "complete" /\ ~artifact[u].expired}
  BY DEF StoreInv, CompleteHasBlob, OpenNow

\* The same after the step.
LEMMA RowsDecideNext ==
    ASSUME StoreInv'
    PROVE  OpenNow' = {u \in Uploads : artifact'[u].status = "complete" /\ ~artifact'[u].expired}
  BY DEF StoreInv, CompleteHasBlob, OpenNow

(***************************************************************************)
(* A step that completes nothing and ends no retention is a stutter.       *)
(***************************************************************************)
LEMMA ReadersSeeNothing ==
    ASSUME StoreInv, StoreInv',
           \A u \in Uploads : /\ artifact'[u].expired = artifact[u].expired
                              /\ ~artifact[u].expired =>
                                    (artifact'[u].status = "complete" <=> artifact[u].status = "complete")
    PROVE  UNCHANGED Readers!oaVars
  <1>1. OpenNow' = OpenNow
    BY RowsDecide, RowsDecideNext
  <1>2. RetiredNow' = RetiredNow
    BY DEF RetiredNow
  <1> QED
    BY <1>1, <1>2 DEF Readers!oaVars

Seen == \E a \in Uploads : Readers!Publish(a) \/ Readers!Retire(a)

\* A commit is the publication of one artifact.
LEMMA CommitPublishes ==
    ASSUME StoreInv, StoreInv', NEW u \in Uploads, CompleteCommit(u)
    PROVE  Readers!Publish(u)
  <1>1. /\ artifact[u] \in ArtifactRows /\ artifact[u].status = "uploading"
        /\ artifact' = [artifact EXCEPT ![u] =
               [artifact[u] EXCEPT !.status = "complete", !.key = upload[u].sha]]
    BY DEF CompleteCommit, CompleteTx, StoreInv, StoreTypes
  <1>2. /\ artifact'[u].status = "complete" /\ artifact'[u].expired = artifact[u].expired
        /\ \A v \in Uploads \ {u} : artifact'[v] = artifact[v]
    BY <1>1 DEF StoreInv, StoreTypes, ArtifactRows
  <1>3. ~artifact[u].expired
    BY <1>1 DEF StoreInv, RetentionOfComplete
  <1>4. u \notin OpenNow \cup RetiredNow
    BY <1>1, <1>3, RowsDecide DEF RetiredNow
  <1>5. OpenNow' = OpenNow \cup {u}
    BY <1>2, <1>3, RowsDecide, RowsDecideNext
  <1>6. RetiredNow' = RetiredNow
    BY <1>2 DEF RetiredNow
  <1> QED
    BY <1>4, <1>5, <1>6 DEF Readers!Publish

\* The end of a retention is its expiry.
LEMMA ExpiryRetires ==
    ASSUME StoreInv, StoreInv', NEW u \in Uploads, ExpireArtifact(u)
    PROVE  Readers!Retire(u)
  <1>1. /\ artifact[u] \in ArtifactRows /\ artifact[u].status = "complete" /\ ~artifact[u].expired
        /\ artifact' = [artifact EXCEPT ![u] = [artifact[u] EXCEPT !.expired = TRUE]]
    BY DEF ExpireArtifact, StoreInv, StoreTypes
  <1>2. artifact'[u].expired /\ \A v \in Uploads \ {u} : artifact'[v] = artifact[v]
    BY <1>1 DEF StoreInv, StoreTypes, ArtifactRows
  <1>3. u \in OpenNow
    BY <1>1, RowsDecide
  <1>4. OpenNow' = OpenNow \ {u}
    BY <1>2, RowsDecide, RowsDecideNext
  <1>5. RetiredNow' = RetiredNow \cup {u}
    BY <1>2 DEF RetiredNow
  <1> QED
    BY <1>3, <1>4, <1>5 DEF Readers!Retire

\* Readers see nothing of an upload that is given up.
LEMMA AbortIsUnseen ==
    ASSUME StoreInv, StoreInv', NEW u, AbortTx(u)
    PROVE  UNCHANGED Readers!oaVars
  <1>1. CASE UNCHANGED artifact
    BY <1>1, ReadersSeeNothing
  <1>2. CASE u \in Uploads
    BY <1>2, AbortGivesUp, ReadersSeeNothing
  <1>3. CASE u \notin Uploads
    BY <1>1, <1>3 DEF AbortTx, StoreInv, StoreTypes
  <1> QED
    BY <1>2, <1>3

\* Readers see nothing of an upload that begins.
LEMMA InsertIsUnseen ==
    ASSUME StoreInv, StoreInv', NEW c \in Contents, CreateInsert(c)
    PROVE  UNCHANGED Readers!oaVars
  <1>1. CASE UNCHANGED artifact
    BY <1>1, ReadersSeeNothing
  <1>2. ASSUME NEW u \in Uploads, content[u] = NoContent,
               artifact' = [artifact EXCEPT ![u].status = "uploading"]
        PROVE  UNCHANGED Readers!oaVars
    <2>1. artifact[u] \in ArtifactRows /\ artifact[u].status = "none"
      BY <1>2 DEF StoreInv, StoreTypes, FreshNumbers
    <2>2. /\ artifact'[u].status = "uploading" /\ artifact'[u].expired = artifact[u].expired
          /\ \A v \in Uploads \ {u} : artifact'[v] = artifact[v]
      BY <1>2, <2>1 DEF StoreInv, StoreTypes, ArtifactRows
    <2> QED
      BY <2>1, <2>2, ReadersSeeNothing
  <1> QED
    BY <1>1, <1>2 DEF CreateInsert

\* The sweep marks as deleted only what readers can not open any more.
LEMMA SweepIsUnseen ==
    ASSUME StoreInv, StoreInv', SweepTables
    PROVE  UNCHANGED Readers!oaVars
  <1>1. \A u \in Uploads :
           \/ artifact'[u] = artifact[u]
           \/ /\ u \in Removable
              /\ artifact'[u] = [artifact[u] EXCEPT !.status = "deleted"]
    BY DEF SweepTables
  <1>2. \A u \in Uploads : /\ artifact'[u].expired = artifact[u].expired
                           /\ ~artifact[u].expired =>
                                 (artifact'[u].status = "complete" <=> artifact[u].status = "complete")
    <2> SUFFICES ASSUME NEW u \in Uploads
                 PROVE  /\ artifact'[u].expired = artifact[u].expired
                        /\ ~artifact[u].expired =>
                              (artifact'[u].status = "complete" <=> artifact[u].status = "complete")
      OBVIOUS
    <2>1. artifact[u] \in ArtifactRows
      BY DEF StoreInv, StoreTypes
    <2>2. CASE u \in Removable /\ artifact'[u] = [artifact[u] EXCEPT !.status = "deleted"]
      <3>1. artifact'[u].status = "deleted" /\ artifact'[u].expired = artifact[u].expired
        BY <2>1, <2>2 DEF ArtifactRows
      <3>2. artifact[u].status = "complete" => artifact[u].expired
        BY <2>2 DEF Removable
      <3> QED
        BY <3>1, <3>2
    <2> QED
      BY <1>1, <2>2
  <1> QED
    BY <1>2, ReadersSeeNothing

\* Every step of the store is a step of OpenArtifacts, or none.
LEMMA StepIsSeen ==
    ASSUME StoreInv, StoreInv', "cancel" \notin ArtFaults, [ArtNext]_artVars
    PROVE  [Seen]_Readers!oaVars
  <1>1. CASE UNCHANGED artifact
    BY <1>1, ReadersSeeNothing
  <1>2. ASSUME NEW c \in Contents, CreateStep(c)
        PROVE  UNCHANGED Readers!oaVars
    BY <1>1, <1>2, AbortIsUnseen, InsertIsUnseen, ReadersSeeNothing
       DEF CreateStep, CreateBegin, CreateAbort, CreateRemove, tables
  <1>3. ASSUME NEW u \in Uploads, UploadArtifactPath(u)
        PROVE  UNCHANGED Readers!oaVars
    BY <1>3, AbortIsUnseen, ReadersSeeNothing
       DEF UploadArtifactPath, ChunkWrite, CompleteHash, Abort, tables
  <1>4. ASSUME NEW u \in Uploads, HandlerStep(u)
        PROVE  [Seen]_Readers!oaVars
    <2>1. CASE CompleteCommit(u)
      BY <2>1, CommitPublishes DEF Seen
    <2>2. CASE ~CompleteCommit(u)
      BY <1>1, <1>4, <2>2 DEF HandlerStep, ChunkStep, CompleteStep, ChunkAdvance, CompleteMove,
         CompleteFails, CompleteUnread, CompleteDrop, AbortRemove, tables
    <2> QED
      BY <2>1, <2>2
  <1>5. ASSUME NEW u \in Uploads, ExpireUpload(u) \/ ExpireArtifact(u) \/ PinPage(u)
        PROVE  [Seen]_Readers!oaVars
    <2>1. CASE ExpireArtifact(u)
      BY <2>1, ExpiryRetires DEF Seen
    <2>2. CASE ExpireUpload(u) \/ PinPage(u)
      BY <1>1, <2>2 DEF ExpireUpload, PinPage
    <2> QED
      BY <1>5, <2>1, <2>2
  <1>6. CASE \/ SweepWait \/ SweepStep \/ HubCrash \/ UNCHANGED artVars
             \/ \E e \in Entries : SweepFails(e)
    BY <1>1, <1>6 DEF SweepWait, SweepStep, SweepPart, SweepBlob, SweepDone, HubCrash, SweepFails,
       artVars, tables
  <1>7. CASE SweepTables
    BY <1>7, SweepIsUnseen
  <1> QED
    BY <1>2, <1>3, <1>4, <1>5, <1>6, <1>7 DEF ArtNext

(***************************************************************************)
(* The store implements OpenArtifacts: an artifact that was completed can  *)
(* be opened until its retention ends, and never after (GetArtifact,       *)
(* OpenArtifact, CleanupArtifacts).                                        *)
(***************************************************************************)
THEOREM StoreImplementsOpenArtifacts ==
    ASSUME "cancel" \notin ArtFaults
    PROVE  ArtSpec => StaysOpen
  <1>1. ArtInit => StoreInv
    BY StoreInit
  <1>2. StoreInv /\ [ArtNext]_artVars => StoreInv'
    BY StoreStep
  <1>3. ArtInit => Readers!OAInit
    BY DEF ArtInit, NoArtifact, OpenNow, RetiredNow, Readers!OAInit
  <1>4. StoreInv /\ StoreInv' /\ [ArtNext]_artVars => [Seen]_Readers!oaVars
    BY StepIsSeen
  <1> QED
    BY <1>1, <1>2, <1>3, <1>4, PTL DEF ArtSpec, StaysOpen, Readers!OASpec, Seen

-----------------------------------------------------------------------------
\* The newest of some uploads is one of them.
LEMMA NewestIsOne ==
    ASSUME NEW S \in SUBSET Uploads, S # {}
    PROVE  Max(S) \in S
<1> DEFINE Newer(x) == {y \in S : y > x}
           T == {Newer(x) : x \in S}
<1>1. IsFiniteSet(S) /\ S \subseteq Nat
  BY ArtAssumption, FS_Subset
<1>2. T \subseteq FiniteSubsetsOf(S) /\ T # {}
  <2>1. \A x \in S : Newer(x) \subseteq S /\ IsFiniteSet(Newer(x))
    <3>1. \A x \in S : Newer(x) \subseteq S
      OBVIOUS
    <3> QED
      BY <1>1, <3>1, FS_Subset
  <2> QED
    BY <2>1 DEF FiniteSubsetsOf
<1>3. PICK m \in T : \A n \in T : ~(<<n, m>> \in StrictSubsetOrdering(S))
  <2> HIDE DEF T
  <2> QED
    BY <1>2, WFMin, FS_StrictSubsetOrderingWellFounded
<1>4. PICK x \in S : m = Newer(x)
  BY <1>3
<1>5. \A y \in S : x >= y
  <2>1. SUFFICES ASSUME NEW y \in S, y > x
                 PROVE  FALSE
    BY <1>1
  <2>2. Newer(y) \subseteq Newer(x)
    <3>1. \A z \in S : z > y => z > x
      BY <1>1, <2>1
    <3> QED
      BY <3>1
  <2>3. y \in Newer(x) /\ y \notin Newer(y)
    BY <1>1, <2>1
  <2>4. <<Newer(y), Newer(x)>> \in StrictSubsetOrdering(S)
    BY <2>2, <2>3 DEF StrictSubsetOrdering
  <2> QED
    BY <1>3, <1>4, <2>4
<1> QED
  BY <1>5 DEF Max

(***************************************************************************)
(* Type correctness.  A handler that wrote a chunk has room for it, and    *)
(* one at work has the digest of its upload, so that what it moves is a    *)
(* blob of a content.                                                      *)
(***************************************************************************)
CountedRows == [status : UploadStates, sha : Contents \cup {NoContent}, received : 0..Chunks, expired : BOOLEAN]
CreateRows == [step : {"idle", "abort", "remove", "insert"}, old : Uploads \cup {0}]
SweepRows == [step : {"idle", "waiting", "deleting"}, todo : SUBSET Entries, done : SUBSET Entries]
TableTypes ==
    /\ upload \in [Uploads -> CountedRows] /\ artifact \in [Uploads -> ArtifactRows]
    /\ deletions \subseteq Entries /\ pinned \subseteq Uploads
FileTypes ==
    /\ content \in [Uploads -> Contents \cup {Altered, NoContent}]
    /\ part \in [Uploads -> {Absent} \cup 0..Chunks] /\ blob \subseteq Contents
HandlerTypes ==
    /\ op \in [Uploads -> Steps] /\ creating \in [Contents -> CreateRows]
    /\ sweep \in SweepRows /\ mishaps \in 0..MaxMishaps
ChunksFit == \A u \in Uploads : op[u] = "wrote" => upload[u].received < Chunks
ArtTypesInv == TableTypes /\ FileTypes /\ HandlerTypes /\ RowsStay /\ ChunksFit

\* These are the types of the store.
LEMMA ArtTypesAre == ArtTypesInv => ArtTypeOK
  BY DEF ArtTypesInv, ArtTypeOK, TableTypes, FileTypes, HandlerTypes, CountedRows, CreateRows, SweepRows,
         ArtifactRows, UploadStates, ArtifactStates, Steps

\* The empty store.
LEMMA ArtTypesInit == ArtInit => ArtTypesInv
<1> SUFFICES ASSUME ArtInit PROVE ArtTypesInv
  OBVIOUS
<1>1. NoRow \in CountedRows /\ NoArtifact \in ArtifactRows /\ Chunks \in Nat
  BY ArtAssumption DEF NoRow, NoArtifact, CountedRows, ArtifactRows, UploadStates, ArtifactStates
<1>2. AtRest \in CreateRows /\ Resting \in SweepRows
  BY DEF AtRest, Resting, CreateRows, SweepRows
<1>3. TableTypes
  BY <1>1 DEF ArtInit, TableTypes
<1>4. FileTypes
  BY DEF ArtInit, FileTypes
<1>5. HandlerTypes
  BY <1>2, ArtAssumption DEF ArtInit, HandlerTypes, Steps
<1>6. RowsStay /\ ChunksFit
  BY DEF ArtInit, RowsStay, ChunksFit, NoRow
<1> QED
  BY <1>3, <1>4, <1>5, <1>6 DEF ArtTypesInv

\* A step that gives up an upload changes no type.
LEMMA AbortTypes ==
    ASSUME ArtTypesInv, NEW u, AbortTx(u)
    PROVE  /\ upload' \in [Uploads -> CountedRows] /\ artifact' \in [Uploads -> ArtifactRows]
           /\ \A v \in Uploads : upload'[v].sha = upload[v].sha /\ upload'[v].received = upload[v].received
                                 /\ (upload[v].status = "none" <=> upload'[v].status = "none")
<1>1. upload \in [Uploads -> CountedRows] /\ artifact \in [Uploads -> ArtifactRows]
  BY DEF ArtTypesInv, TableTypes
<1>2. CASE upload[u].status # "active" \/ u \notin Uploads
  <2>1. upload' = upload /\ artifact' = artifact
    BY <1>1, <1>2 DEF AbortTx
  <2> QED
    BY <1>1, <2>1
<1>3. CASE u \in Uploads /\ upload[u].status = "active"
  <2>1. /\ upload[u] \in CountedRows /\ artifact[u] \in ArtifactRows
        /\ upload' = [upload EXCEPT ![u] = [upload[u] EXCEPT !.status = "aborted"]]
        /\ artifact' = [artifact EXCEPT ![u] =
               [artifact[u] EXCEPT !.status = IF @ = "uploading" THEN "aborted" ELSE @]]
    BY <1>1, <1>3 DEF AbortTx
  <2> DEFINE row == [upload[u] EXCEPT !.status = "aborted"]
             art == [artifact[u] EXCEPT !.status = IF @ = "uploading" THEN "aborted" ELSE @]
  <2>2. /\ row \in CountedRows /\ row.sha = upload[u].sha /\ row.received = upload[u].received
        /\ row.status = "aborted"
    BY <2>1 DEF CountedRows, UploadStates
  <2>3. art \in ArtifactRows
    BY <2>1 DEF ArtifactRows, ArtifactStates
  <2> HIDE DEF row, art
  <2>4. upload' = [upload EXCEPT ![u] = row] /\ artifact' = [artifact EXCEPT ![u] = art]
    BY <2>1 DEF row, art
  <2> QED
    BY <1>1, <1>3, <2>2, <2>3, <2>4
<1> QED
  BY <1>2, <1>3

\* Creation.
LEMMA CreateTypes ==
    ASSUME ArtTypesInv, NEW c \in Contents, CreateStep(c)
    PROVE  ArtTypesInv'
<1>0. TableTypes /\ FileTypes /\ HandlerTypes /\ RowsStay /\ ChunksFit /\ creating[c] \in CreateRows
  BY DEF ArtTypesInv, HandlerTypes
<1>1. CASE CreateBegin(c)
  <2>1. UNCHANGED <<tables, files, content, op, sweep, mishaps>>
    BY <1>1 DEF CreateBegin
  <2>2. creating' \in [Contents -> CreateRows]
    <3>1. CASE creating' = [creating EXCEPT ![c].step = "insert"]
      <4>1. [creating[c] EXCEPT !.step = "insert"] \in CreateRows
        BY <1>0 DEF CreateRows
      <4> QED
        BY <1>0, <3>1, <4>1 DEF HandlerTypes
    <3>2. CASE /\ Resumable(c) # {}
               /\ creating' = [creating EXCEPT ![c] = [step |-> "abort", old |-> Max(Resumable(c))]]
      <4>1. Resumable(c) \in SUBSET Uploads
        BY DEF Resumable
      <4>2. Max(Resumable(c)) \in Uploads
        BY <3>2, <4>1, NewestIsOne
      <4>3. [step |-> "abort", old |-> Max(Resumable(c))] \in CreateRows
        BY <4>2 DEF CreateRows
      <4> QED
        BY <1>0, <3>2, <4>3 DEF HandlerTypes
    <3> QED
      BY <1>1, <3>1, <3>2 DEF CreateBegin
  <2> QED
    BY <1>0, <2>1, <2>2 DEF ArtTypesInv, TableTypes, FileTypes, HandlerTypes, RowsStay, ChunksFit, tables, files
<1>2. CASE CreateAbort(c)
  <2>1. /\ UNCHANGED <<deletions, pinned, files, content, op, sweep, mishaps>> /\ AbortTx(creating[c].old)
        /\ creating' = [creating EXCEPT ![c].step = "remove"]
    BY <1>2 DEF CreateAbort
  <2>2. creating' \in [Contents -> CreateRows]
    <3>1. [creating[c] EXCEPT !.step = "remove"] \in CreateRows
      BY <1>0 DEF CreateRows
    <3> QED
      BY <1>0, <2>1, <3>1 DEF HandlerTypes
  <2>3. PICK old : old = creating[c].old
    OBVIOUS
  <2>4. /\ upload' \in [Uploads -> CountedRows] /\ artifact' \in [Uploads -> ArtifactRows]
        /\ \A v \in Uploads : upload'[v].sha = upload[v].sha /\ upload'[v].received = upload[v].received
                              /\ (upload[v].status = "none" <=> upload'[v].status = "none")
    BY <2>1, <2>3, AbortTypes
  <2> QED
    BY <1>0, <2>1, <2>2, <2>4 DEF ArtTypesInv, TableTypes, FileTypes, HandlerTypes, RowsStay, ChunksFit, files
<1>3. CASE CreateRemove(c)
  <2>1. /\ UNCHANGED <<tables, blob, content, op, sweep, mishaps>>
        /\ creating' = [creating EXCEPT ![c].step = "insert"] /\ part' = [part EXCEPT ![creating[c].old] = Absent]
    BY <1>3 DEF CreateRemove
  <2>2. creating' \in [Contents -> CreateRows]
    <3>1. [creating[c] EXCEPT !.step = "insert"] \in CreateRows
      BY <1>0 DEF CreateRows
    <3> QED
      BY <1>0, <2>1, <3>1 DEF HandlerTypes
  <2>3. part' \in [Uploads -> {Absent} \cup 0..Chunks]
    BY <1>0, <2>1 DEF FileTypes
  <2> QED
    BY <1>0, <2>1, <2>2, <2>3 DEF ArtTypesInv, TableTypes, FileTypes, HandlerTypes, RowsStay, ChunksFit, tables
<1>4. CASE CreateInsert(c)
  <2>1. /\ UNCHANGED <<deletions, pinned, files, op, sweep, mishaps>>
        /\ creating' = [creating EXCEPT ![c] = AtRest]
    BY <1>4 DEF CreateInsert
  <2>2. creating' \in [Contents -> CreateRows]
    <3>1. AtRest \in CreateRows
      BY DEF CreateRows, AtRest
    <3> QED
      BY <1>0, <2>1, <3>1 DEF HandlerTypes
  <2>3. CASE UNCHANGED <<upload, artifact, content>>
    BY <1>0, <2>1, <2>2, <2>3 DEF ArtTypesInv, TableTypes, FileTypes, HandlerTypes, RowsStay, ChunksFit, files
  <2>4. CASE ~UNCHANGED <<upload, artifact, content>>
    <3> DEFINE row == [status |-> "active", sha |-> c, received |-> 0, expired |-> FALSE]
    <3>1. PICK sent \in {c, Altered}, u \in Uploads :
               /\ content' = [content EXCEPT ![u] = sent] /\ upload' = [upload EXCEPT ![u] = row]
               /\ artifact' = [artifact EXCEPT ![u].status = "uploading"]
      BY <1>4, <2>4 DEF CreateInsert
    <3>2. row \in CountedRows /\ row.status = "active" /\ row.sha = c /\ row.received < Chunks
      BY ArtAssumption DEF CountedRows, UploadStates
    <3> HIDE DEF row
    <3>3. artifact' \in [Uploads -> ArtifactRows]
      <4>1. [artifact[u] EXCEPT !.status = "uploading"] \in ArtifactRows
        BY <1>0 DEF TableTypes, ArtifactRows, ArtifactStates
      <4> QED
        BY <1>0, <3>1, <4>1 DEF TableTypes
    <3>4. content' \in [Uploads -> Contents \cup {Altered, NoContent}]
      BY <1>0, <3>1 DEF FileTypes
    <3>5. /\ upload' \in [Uploads -> CountedRows] /\ upload'[u] = row
          /\ \A v \in Uploads \ {u} : upload'[v] = upload[v]
      BY <1>0, <3>1, <3>2 DEF TableTypes
    <3>6. (RowsStay /\ ChunksFit)'
      BY <1>0, <2>1, <3>2, <3>5 DEF RowsStay, ChunksFit
    <3> QED
      BY <1>0, <2>1, <2>2, <3>3, <3>4, <3>5, <3>6 DEF ArtTypesInv, TableTypes, FileTypes, HandlerTypes, files
  <2> QED
    BY <2>3, <2>4
<1> QED
  BY <1>1, <1>2, <1>3, <1>4 DEF CreateStep

\* A step of a handler that leaves the tables alone.
LEMMA HandlerTypesKeep ==
    ASSUME ArtTypesInv, NEW u \in Uploads, NEW to \in Steps, op' = [op EXCEPT ![u] = to],
           to # "idle" => upload[u].status # "none",
           to = "wrote" => upload[u].received < Chunks,
           UNCHANGED <<tables, content, creating, sweep, mishaps>>,
           part' \in [Uploads -> {Absent} \cup 0..Chunks], blob' \subseteq Contents
    PROVE  ArtTypesInv'
BY DEF ArtTypesInv, TableTypes, FileTypes, HandlerTypes, RowsStay, ChunksFit, tables

\* One that changes a row of the tables.
LEMMA RowTypesKeep ==
    ASSUME ArtTypesInv, NEW u \in Uploads, NEW to \in Steps \ {"wrote"}, op' = [op EXCEPT ![u] = to],
           to # "idle" => upload[u].status # "none",
           UNCHANGED <<deletions, pinned, content, creating, sweep, mishaps>>,
           upload' \in [Uploads -> CountedRows], artifact' \in [Uploads -> ArtifactRows],
           \A v \in Uploads : upload'[v].sha = upload[v].sha
                              /\ (upload[v].status = "none" <=> upload'[v].status = "none"),
           \A v \in Uploads \ {u} : upload'[v].received = upload[v].received,
           part' \in [Uploads -> {Absent} \cup 0..Chunks], blob' \subseteq Contents
    PROVE  ArtTypesInv'
<1>1. TableTypes'
  BY DEF ArtTypesInv, TableTypes
<1>2. FileTypes' /\ HandlerTypes'
  BY DEF ArtTypesInv, FileTypes, HandlerTypes
<1>3. (RowsStay /\ ChunksFit)'
  BY DEF ArtTypesInv, HandlerTypes, RowsStay, ChunksFit
<1> QED
  BY <1>1, <1>2, <1>3 DEF ArtTypesInv

\* The commit.
LEMMA CompleteTypes ==
    ASSUME ArtTypesInv, NEW u \in Uploads, CompleteTx(u)
    PROVE  /\ upload' \in [Uploads -> CountedRows] /\ artifact' \in [Uploads -> ArtifactRows]
           /\ \A v \in Uploads : upload'[v].sha = upload[v].sha /\ upload'[v].received = upload[v].received
                                 /\ (upload[v].status = "none" <=> upload'[v].status = "none")
<1>1. upload \in [Uploads -> CountedRows] /\ artifact \in [Uploads -> ArtifactRows]
  BY DEF ArtTypesInv, TableTypes
<1>2. upload[u] \in CountedRows /\ artifact[u] \in ArtifactRows /\ upload[u].sha \in Contents \cup {NoContent}
  BY <1>1 DEF CountedRows
<1> DEFINE row == [upload[u] EXCEPT !.status = "complete"]
           art == [artifact[u] EXCEPT !.status = "complete", !.key = upload[u].sha]
<1>3. /\ row \in CountedRows /\ row.sha = upload[u].sha /\ row.received = upload[u].received
      /\ row.status = "complete"
  BY <1>2 DEF CountedRows, UploadStates
<1>4. art \in ArtifactRows
  BY <1>2 DEF ArtifactRows, ArtifactStates
<1>5. upload' = [upload EXCEPT ![u] = row] /\ artifact' = [artifact EXCEPT ![u] = art]
      /\ upload[u].status = "active"
  BY <1>1 DEF CompleteTx
<1> HIDE DEF row, art
<1> QED
  BY <1>1, <1>3, <1>4, <1>5

\* Steps of handlers.
LEMMA AtWorkTypes ==
    ASSUME ArtTypesInv, NEW u \in Uploads, UploadArtifactPath(u) \/ HandlerStep(u)
    PROVE  ArtTypesInv'
<1>0. /\ TableTypes /\ FileTypes /\ HandlerTypes /\ RowsStay /\ ChunksFit /\ Chunks \in Nat
      /\ upload \in [Uploads -> CountedRows] /\ upload[u].received \in 0..Chunks
      /\ part \in [Uploads -> {Absent} \cup 0..Chunks] /\ blob \subseteq Contents
      /\ op[u] # "idle" => upload[u].status # "none" /\ upload[u].sha \in Contents
      /\ {"idle", "wrote", "hashed", "moved", "reused", "drop", "removing"} \subseteq Steps
      /\ op \in [Uploads -> Steps]
  BY ArtAssumption DEF ArtTypesInv, TableTypes, FileTypes, HandlerTypes, RowsStay, CountedRows, Steps
<1>1. CASE ChunkWrite(u)
  <2>1. UNCHANGED <<tables, blob, content, creating, sweep, mishaps>> /\ upload[u].received < Chunks
        /\ upload[u].status = "active"
    BY <1>1 DEF ChunkWrite, Active
  <2>2. PICK n \in {0, upload[u].received + 1} : part' = [part EXCEPT ![u] = n]
    BY <1>1 DEF ChunkWrite
  <2>3. n \in 0..Chunks
    BY <1>0, <2>1
  <2>4. part' \in [Uploads -> {Absent} \cup 0..Chunks]
    BY <1>0, <2>2, <2>3
  <2>5. \E to \in {"wrote", "idle"} : op' = [op EXCEPT ![u] = to]
    BY <1>0, <1>1 DEF ChunkWrite
  <2> QED
    BY <1>0, <2>1, <2>4, <2>5, HandlerTypesKeep
<1>2. CASE ChunkAdvance(u)
  <2>1. /\ UNCHANGED <<artifact, deletions, pinned, blob, content, creating, sweep, mishaps>>
        /\ op[u] = "wrote" /\ op' = [op EXCEPT ![u] = "idle"]
    BY <1>2 DEF ChunkAdvance
  <2>2. CASE upload[u].status = "active" /\ upload' = [upload EXCEPT ![u].received = @ + 1] /\ UNCHANGED part
    <3> DEFINE row == [upload[u] EXCEPT !.received = upload[u].received + 1]
    <3>1. upload[u].received + 1 \in 0..Chunks
      BY <1>0, <2>1 DEF ChunksFit
    <3>2. upload[u] \in CountedRows
      BY <1>0
    <3>3. row \in CountedRows /\ row.sha = upload[u].sha /\ row.status = upload[u].status
      BY <3>1, <3>2 DEF CountedRows
    <3>4. upload' = [upload EXCEPT ![u] = row]
      BY <1>0, <2>2
    <3> HIDE DEF row
    <3>5. /\ upload' \in [Uploads -> CountedRows]
          /\ \A v \in Uploads : upload'[v].sha = upload[v].sha
                                /\ (upload[v].status = "none" <=> upload'[v].status = "none")
          /\ \A v \in Uploads \ {u} : upload'[v].received = upload[v].received
      BY <1>0, <3>3, <3>4
    <3>6. artifact' \in [Uploads -> ArtifactRows]
      BY <1>0, <2>1 DEF TableTypes
    <3> QED
      BY <1>0, <2>1, <2>2, <3>5, <3>6, RowTypesKeep
  <2>3. CASE part' = [part EXCEPT ![u] = IF @ = Absent THEN Absent ELSE upload[u].received] /\ UNCHANGED upload
    <3>1. part' \in [Uploads -> {Absent} \cup 0..Chunks]
      BY <1>0, <2>3
    <3> QED
      BY <1>0, <2>1, <2>3, <3>1, HandlerTypesKeep DEF tables
  <2> QED
    BY <1>2, <2>2, <2>3 DEF ChunkAdvance
<1>3. CASE CompleteHash(u) \/ Abort(u)
  <2>1. /\ UNCHANGED <<deletions, pinned, part, blob, content, creating, sweep, mishaps>>
        /\ upload[u].status # "none"
        /\ \/ op' = [op EXCEPT ![u] = "hashed"] /\ UNCHANGED <<upload, artifact>>
           \/ op' = [op EXCEPT ![u] = "removing"] /\ AbortTx(u)
    BY <1>3 DEF CompleteHash, Abort, Active, files
  <2>2. CASE op' = [op EXCEPT ![u] = "hashed"] /\ UNCHANGED <<upload, artifact>>
    BY <1>0, <2>1, <2>2, HandlerTypesKeep DEF tables
  <2>3. CASE op' = [op EXCEPT ![u] = "removing"] /\ AbortTx(u)
    BY <1>0, <2>1, <2>3, AbortTypes, RowTypesKeep
  <2> QED
    BY <2>1, <2>2, <2>3
<1>4. CASE CompleteMove(u)
  <2>1. /\ UNCHANGED <<tables, content, creating, sweep, mishaps>>
        /\ upload[u].status # "none" /\ blob' \subseteq blob \cup {upload[u].sha}
        /\ upload[u].sha \in Contents
        /\ \E to \in {"reused", "moved", "idle"} : op' = [op EXCEPT ![u] = to]
        /\ part' = part \/ part' = [part EXCEPT ![u] = Absent]
    BY <1>0, <1>4 DEF CompleteMove, files
  <2>2. part' \in [Uploads -> {Absent} \cup 0..Chunks]
    BY <1>0, <2>1
  <2> QED
    BY <1>0, <2>1, <2>2, HandlerTypesKeep
<1>5. CASE CompleteCommit(u)
  <2>1. /\ UNCHANGED <<deletions, pinned, part, blob, content, creating, sweep, mishaps>> /\ CompleteTx(u)
        /\ \E to \in {"drop", "idle"} : op' = [op EXCEPT ![u] = to]
        /\ upload[u].status # "none"
    BY <1>0, <1>5 DEF CompleteCommit, files
  <2> QED
    <3>1. PICK to \in {"drop", "idle"} : op' = [op EXCEPT ![u] = to]
      BY <2>1
    <3>2. /\ upload' \in [Uploads -> CountedRows] /\ artifact' \in [Uploads -> ArtifactRows]
          /\ \A v \in Uploads : upload'[v].sha = upload[v].sha /\ upload'[v].received = upload[v].received
                                /\ (upload[v].status = "none" <=> upload'[v].status = "none")
      BY <2>1, CompleteTypes
    <3>3. part' \in [Uploads -> {Absent} \cup 0..Chunks] /\ blob' \subseteq Contents
      BY <1>0, <2>1
    <3>4. to \in Steps \ {"wrote"}
      BY <1>0
    <3> QED
      BY <2>1, <3>1, <3>2, <3>3, <3>4, RowTypesKeep
<1>6. ASSUME MoveBack(u)
      PROVE  /\ op' = [op EXCEPT ![u] = "idle"] /\ blob' \subseteq Contents
             /\ part' \in [Uploads -> {Absent} \cup 0..Chunks]
  BY <1>0, <1>6 DEF MoveBack, files
<1>7. CASE CompleteFails(u)
  BY <1>0, <1>6, <1>7, HandlerTypesKeep DEF CompleteFails
<1>8. CASE CompleteUnread(u)
  <2>1. /\ UNCHANGED <<deletions, pinned, content, creating, sweep, mishaps>> /\ CompleteTx(u) /\ MoveBack(u)
    BY <1>8 DEF CompleteUnread
  <2> QED
    BY <1>0, <1>6, <2>1, CompleteTypes, RowTypesKeep
<1>9. CASE CompleteDrop(u) \/ AbortRemove(u)
  <2>1. /\ UNCHANGED <<tables, blob, content, creating, sweep, mishaps>>
        /\ op' = [op EXCEPT ![u] = "idle"] /\ part' = [part EXCEPT ![u] = Absent]
    BY <1>9 DEF CompleteDrop, AbortRemove
  <2>2. part' \in [Uploads -> {Absent} \cup 0..Chunks]
    BY <1>0, <2>1
  <2> QED
    BY <1>0, <2>1, <2>2, HandlerTypesKeep
<1> QED
  BY <1>1, <1>2, <1>3, <1>4, <1>5, <1>7, <1>8, <1>9 DEF UploadArtifactPath, HandlerStep, ChunkStep, CompleteStep

\* Deadlines and pages.
LEMMA DeadlineTypes ==
    ASSUME ArtTypesInv, NEW u \in Uploads, ExpireUpload(u) \/ ExpireArtifact(u) \/ PinPage(u)
    PROVE  ArtTypesInv'
<1>0. /\ TableTypes /\ FileTypes /\ HandlerTypes /\ RowsStay /\ ChunksFit
      /\ upload[u] \in CountedRows /\ artifact[u] \in ArtifactRows
  BY DEF ArtTypesInv, TableTypes
<1>1. CASE ExpireUpload(u)
  <2> DEFINE row == [upload[u] EXCEPT !.expired = TRUE]
  <2>1. /\ row \in CountedRows /\ row.sha = upload[u].sha /\ row.status = upload[u].status
        /\ row.received = upload[u].received
    BY <1>0 DEF CountedRows
  <2>2. /\ upload' = [upload EXCEPT ![u] = row]
        /\ UNCHANGED <<artifact, deletions, pinned, files, content, op, creating, sweep, mishaps>>
    BY <1>0, <1>1 DEF ExpireUpload, TableTypes
  <2> HIDE DEF row
  <2>3. /\ upload' \in [Uploads -> CountedRows]
        /\ \A v \in Uploads : /\ upload'[v].sha = upload[v].sha /\ upload'[v].status = upload[v].status
                              /\ upload'[v].received = upload[v].received
    BY <1>0, <2>1, <2>2 DEF TableTypes
  <2> QED
    BY <1>0, <2>2, <2>3 DEF ArtTypesInv, TableTypes, FileTypes, HandlerTypes, RowsStay, ChunksFit, files
<1>2. CASE ExpireArtifact(u)
  <2>1. [artifact[u] EXCEPT !.expired = TRUE] \in ArtifactRows
    BY <1>0 DEF ArtifactRows
  <2>2. /\ artifact' = [artifact EXCEPT ![u] = [artifact[u] EXCEPT !.expired = TRUE]]
        /\ UNCHANGED <<upload, deletions, pinned, files, content, op, creating, sweep, mishaps>>
    BY <1>0, <1>2 DEF ExpireArtifact, TableTypes
  <2>3. artifact' \in [Uploads -> ArtifactRows]
    BY <1>0, <2>1, <2>2 DEF TableTypes
  <2> QED
    BY <1>0, <2>2, <2>3 DEF ArtTypesInv, TableTypes, FileTypes, HandlerTypes, RowsStay, ChunksFit, files
<1>3. CASE PinPage(u)
  BY <1>0, <1>3 DEF PinPage, ArtTypesInv, TableTypes, FileTypes, HandlerTypes, RowsStay, ChunksFit, files
<1> QED
  BY <1>1, <1>2, <1>3

\* Maintenance.
LEMMA SweepTypes ==
    ASSUME ArtTypesInv,
           \/ SweepWait \/ SweepTables \/ SweepStep \/ HubCrash \/ UNCHANGED artVars
           \/ \E e \in Entries : SweepFails(e)
    PROVE  ArtTypesInv'
<1>0. /\ TableTypes /\ FileTypes /\ HandlerTypes /\ RowsStay /\ ChunksFit /\ sweep \in SweepRows
      /\ Resting \in SweepRows /\ AtRest \in CreateRows /\ "idle" \in Steps
  BY DEF ArtTypesInv, HandlerTypes, Resting, AtRest, SweepRows, CreateRows, Steps
<1>1. ASSUME UNCHANGED <<tables, content, op, creating>>, part' \in [Uploads -> {Absent} \cup 0..Chunks],
             blob' \subseteq Contents, sweep' \in SweepRows, mishaps' \in 0..MaxMishaps
      PROVE  ArtTypesInv'
  BY <1>0, <1>1 DEF ArtTypesInv, TableTypes, FileTypes, HandlerTypes, RowsStay, ChunksFit, tables
<1>2. CASE SweepWait \/ UNCHANGED artVars
  <2>1. [sweep EXCEPT !.step = "waiting"] \in SweepRows
    BY <1>0 DEF SweepRows
  <2> QED
    BY <1>0, <1>1, <1>2, <2>1 DEF SweepWait, artVars, tables, files, FileTypes, HandlerTypes
<1>3. CASE SweepTables
  <2>1. UNCHANGED <<pinned, files, content, op, creating, mishaps>>
    BY <1>3 DEF SweepTables
  <2>2. NoRow \in CountedRows /\ NoRow.status = "none" /\ \A u \in Uploads : op[u] = "idle"
    BY <1>3, ArtAssumption DEF NoRow, CountedRows, UploadStates, SweepTables, NoHandler
  <2>3. upload' \in [Uploads -> CountedRows]
        /\ \A u \in Uploads : upload'[u] = upload[u] \/ upload'[u].status = "none"
    BY <1>0, <1>3, <2>2 DEF SweepTables, TableTypes
  <2>4. artifact' \in [Uploads -> ArtifactRows]
    <3>1. \A u \in Uploads : [artifact[u] EXCEPT !.status = "deleted"] \in ArtifactRows
      BY <1>0 DEF TableTypes, ArtifactRows, ArtifactStates
    <3> QED
      BY <1>0, <1>3, <3>1 DEF SweepTables, TableTypes
  <2>5. Stale \subseteq Uploads /\ Candidates \subseteq Contents
    <3>1. \A u \in Stale : u \in Uploads /\ upload[u].status # "none"
      BY DEF Stale
    <3>2. \A u \in Stale : upload[u].sha \in Contents
      BY <1>0, <3>1 DEF RowsStay
    <3>3. \A u \in Removable : artifact[u].key \in Contents \cup {NoContent}
      BY <1>0 DEF Removable, TableTypes, ArtifactRows
    <3> QED
      BY <3>1, <3>2, <3>3 DEF Candidates
  <2>6. deletions' \subseteq Entries
    <3>1. \A S : {"upload"} \X Stale \subseteq Entries /\ {"blob"} \X (Candidates \ S) \subseteq Entries
      BY <2>5 DEF Entries
    <3> QED
      BY <1>0, <1>3, <3>1 DEF SweepTables, TableTypes
  <2>7. sweep' \in SweepRows
    BY <1>3, <2>6 DEF SweepTables, SweepRows
  <2>8. (RowsStay /\ ChunksFit)'
    BY <1>0, <2>1, <2>2, <2>3 DEF RowsStay, ChunksFit
  <2> QED
    BY <1>0, <2>1, <2>3, <2>4, <2>6, <2>7, <2>8 DEF ArtTypesInv, TableTypes, FileTypes, HandlerTypes, files
<1>4. ASSUME NEW e, NEW to, to = [sweep EXCEPT !.todo = @ \ {e}]
      PROVE  to \in SweepRows
  BY <1>0, <1>4 DEF SweepRows
<1>5. ASSUME NEW e \in sweep.todo, NEW to, to = [sweep EXCEPT !.todo = @ \ {e}, !.done = @ \cup {e}]
      PROVE  to \in SweepRows
  BY <1>0, <1>5 DEF SweepRows
<1>6. ASSUME NEW u \in Uploads, SweepPart(u)
      PROVE  ArtTypesInv'
  <2>1. /\ UNCHANGED <<tables, blob, content, op, creating, mishaps>> /\ part' = [part EXCEPT ![u] = Absent]
        /\ sweep' \in SweepRows
    BY <1>5, <1>6 DEF SweepPart
  <2>2. part' \in [Uploads -> {Absent} \cup 0..Chunks]
    BY <1>0, <2>1 DEF FileTypes
  <2> QED
    BY <1>0, <1>1, <2>1, <2>2 DEF FileTypes, HandlerTypes
<1>7. ASSUME NEW c \in Contents, SweepBlob(c)
      PROVE  ArtTypesInv'
  <2>1. /\ UNCHANGED <<tables, part, content, op, creating, mishaps>> /\ blob' \subseteq blob
        /\ sweep' \in SweepRows
    BY <1>5, <1>7 DEF SweepBlob
  <2> QED
    BY <1>0, <1>1, <2>1 DEF FileTypes, HandlerTypes
<1>8. ASSUME NEW e \in Entries, SweepFails(e)
      PROVE  ArtTypesInv'
  <2>1. /\ UNCHANGED <<tables, files, content, op, creating>> /\ sweep' \in SweepRows
        /\ mishaps' = mishaps + 1 /\ mishaps < MaxMishaps
    BY <1>4, <1>8 DEF SweepFails
  <2>2. mishaps' \in 0..MaxMishaps
    BY <1>0, <2>1, ArtAssumption DEF HandlerTypes
  <2> QED
    BY <1>0, <1>1, <2>1, <2>2 DEF FileTypes, files
<1>9. CASE SweepDone
  <2>1. /\ UNCHANGED <<upload, artifact, pinned, files, content, op, creating, mishaps>>
        /\ deletions' \subseteq deletions /\ sweep' \in SweepRows
    BY <1>0, <1>9 DEF SweepDone
  <2> QED
    BY <1>0, <2>1 DEF ArtTypesInv, TableTypes, FileTypes, HandlerTypes, RowsStay, ChunksFit, files
<1>10. CASE HubCrash
  <2>1. /\ UNCHANGED <<tables, files, content>> /\ mishaps' = mishaps + 1 /\ mishaps < MaxMishaps
        /\ op' = [u \in Uploads |-> "idle"] /\ creating' = [c \in Contents |-> AtRest] /\ sweep' = Resting
    BY <1>10 DEF HubCrash
  <2>2. mishaps' \in 0..MaxMishaps
    BY <1>0, <2>1, ArtAssumption DEF HandlerTypes
  <2> QED
    BY <1>0, <2>1, <2>2 DEF ArtTypesInv, TableTypes, FileTypes, HandlerTypes, RowsStay, ChunksFit, tables, files
<1> QED
  BY <1>2, <1>3, <1>6, <1>7, <1>8, <1>9, <1>10 DEF SweepStep

\* Every step.
LEMMA ArtTypesStep == ArtTypesInv /\ [ArtNext]_artVars => ArtTypesInv'
BY CreateTypes, AtWorkTypes, DeadlineTypes, SweepTypes DEF ArtNext

(***************************************************************************)
(* Type correctness of the store: what is moved, queued for deletion and   *)
(* counted is always an upload, a content or a chunk of a file (store and  *)
(* artifact handlers of the Hub).                                          *)
(***************************************************************************)
THEOREM StoreStaysTyped == ArtSpec => []ArtTypeOK
BY ArtTypesInit, ArtTypesStep, ArtTypesAre, PTL DEF ArtSpec

-----------------------------------------------------------------------------
(***************************************************************************)
(* The release drain.                                                      *)
(***************************************************************************)
(***************************************************************************)
(* A request of the Hub holds its slot from its arrival to its response.   *)
(***************************************************************************)
SlotsHeld ==
    \A r \in Remote : rpc[r] \in {"arrived", "passed", "running"} => r \in sem

(***************************************************************************)
(* Nobody but the holder of activityMu begins a drain, and one push has it. *)
(***************************************************************************)
OneDrain ==
    /\ \A p, q \in Pushes :
          ppc[p] \in {"looking", "drained"} /\ ppc[q] \in {"looking", "drained"}
              => p = q
    /\ \A p \in Pushes : ppc[p] = "looking" => ~drain
    /\ \A p \in Pushes : ppc[p] = "drained" => drain /\ ~exiting
    /\ exiting => drain

NoneRuns == \A r \in Requests : rpc[r] \notin {"passed", "running"}

NoTask(k) == \A r \in Requests : kind[r] = k => task[r] # "active"

(***************************************************************************)
(* What a push has read in BeginReleaseDrain still holds when it reads the *)
(* next reason: activityMu keeps requests from passing, and a request that *)
(* does not run starts no task.                                            *)
(***************************************************************************)
ReadHolds ==
    \A p \in Pushes : ppc[p] = "looking" =>
        /\ at[p] > 1 => NoneRuns
        /\ at[p] > 2 => NoTask("job")
        /\ at[p] > 3 => NoTask("browser")

Quiet == drain => NoneRuns /\ \A r \in Requests : task[r] # "active"

CallsHaveNoTask == NoTask("call")

DrainTypes ==
    /\ rpc \in [Requests -> {"new", "arrived", "passed", "running", "over"}]
    /\ kind \in [Requests -> Tasks]
    /\ task \in [Requests -> {"none", "active", "ended"}]
    /\ sem \in SUBSET Remote /\ drain \in BOOLEAN /\ exiting \in BOOLEAN
    /\ ppc \in [Pushes -> {"none", "refresh", "wait", "looking", "drained"}]
    /\ at \in [Pushes -> 1..4]

DrainInv ==
    DrainTypes /\ SlotsHeld /\ OneDrain /\ ReadHolds /\ Quiet
        /\ CallsHaveNoTask

\* The order in which idleReasons reads: requests first.
LEMMA ReasonList ==
    /\ Len(Reasons) = 4
    /\ Reasons[1] = "request" /\ Reasons[2] = "job"
    /\ Reasons[3] = "browser" /\ Reasons[4] = "agent"
  BY DEF Reasons

\* No request, no push.
LEMMA InitDrain == Init => DrainInv
  <1> SUFFICES ASSUME Init PROVE DrainInv
    OBVIOUS
  <1>1. DrainTypes
    <2>1. drain = FALSE /\ exiting = FALSE
      BY DEF Init
    <2>2. at \in [Pushes -> 1..4] /\ sem \in SUBSET Remote
      BY DEF Init
    <2>3. rpc = [r \in Requests |-> "new"] /\ kind \in [Requests -> Tasks]
      BY DEF Init
    <2>4. /\ task = [r \in Requests |-> "none"]
          /\ ppc = [p \in Pushes |-> "none"]
      BY DEF Init
    <2> QED
      BY <2>1, <2>2, <2>3, <2>4 DEF DrainTypes
  <1>2. SlotsHeld /\ NoneRuns /\ CallsHaveNoTask
    BY DEF Init, SlotsHeld, NoneRuns, CallsHaveNoTask, NoTask, Requests
  <1>3. OneDrain /\ ReadHolds /\ Quiet
    BY DEF Init, OneDrain, ReadHolds, Quiet
  <1> QED
    BY <1>1, <1>2, <1>3 DEF DrainInv

\* The invariant is inductive.
LEMMA StepDrain ==
    ASSUME Local = {}, DrainInv, [Next]_vars
    PROVE  DrainInv'
  <1> USE DEF DrainInv
  <1>1. ASSUME NEW r \in Requests, Arrive(r) PROVE DrainInv'
    <2>1. DrainTypes'
      BY <1>1
      DEF Arrive, pushVars, DrainTypes, Tasks, Pushes, Requests
    <2>2. SlotsHeld'
      BY <1>1
      DEF Arrive, pushVars, DrainTypes, SlotsHeld, Requests
    <2>3. OneDrain'
      BY <1>1
      DEF Arrive, pushVars, DrainTypes, OneDrain, Quiet
    <2>4. ReadHolds'
      BY <1>1
      DEF Arrive, pushVars, DrainTypes, SlotsHeld, OneDrain, ReadHolds, Quiet,
          NoneRuns, NoTask, Requests
    <2>5. Quiet'
      BY <1>1
      DEF Arrive, pushVars, DrainTypes, SlotsHeld, OneDrain, ReadHolds, Quiet,
          NoneRuns, NoTask, CallsHaveNoTask, Tasks, Requests
    <2>6. CallsHaveNoTask'
      BY <1>1
      DEF Arrive, pushVars, DrainTypes, CallsHaveNoTask, NoTask, Tasks
    <2> QED
      BY <2>1, <2>2, <2>3, <2>4, <2>5, <2>6
  <1>2. ASSUME NEW r \in Requests, CheckDrain(r) PROVE DrainInv'
    <2>1. DrainTypes'
      BY <1>2
      DEF CheckDrain, Locked, pushVars, DrainTypes, Tasks, Pushes, Requests
    <2>2. SlotsHeld'
      BY <1>2
      DEF CheckDrain, Locked, pushVars, DrainTypes, SlotsHeld, Requests
    <2>3. OneDrain'
      BY <1>2
      DEF CheckDrain, Locked, pushVars, DrainTypes, OneDrain, Quiet
    <2>4. ReadHolds'
      BY <1>2
      DEF CheckDrain, Locked, pushVars, DrainTypes, SlotsHeld, OneDrain,
          ReadHolds, Quiet, NoneRuns, NoTask, Requests
    <2>5. Quiet'
      BY <1>2
      DEF CheckDrain, Locked, pushVars, DrainTypes, SlotsHeld, OneDrain,
          ReadHolds, Quiet, NoneRuns, NoTask, CallsHaveNoTask, Tasks, Requests
    <2>6. CallsHaveNoTask'
      BY <1>2
      DEF CheckDrain, Locked, pushVars, DrainTypes, CallsHaveNoTask, NoTask,
          Tasks
    <2> QED
      BY <2>1, <2>2, <2>3, <2>4, <2>5, <2>6
  <1>3. ASSUME NEW r \in Requests, StartTask(r) PROVE DrainInv'
    <2>1. DrainTypes'
      BY <1>3
      DEF StartTask, pushVars, DrainTypes, Tasks, Pushes, Requests
    <2>2. SlotsHeld'
      BY <1>3
      DEF StartTask, pushVars, DrainTypes, SlotsHeld, Requests
    <2>3. OneDrain'
      BY <1>3
      DEF StartTask, pushVars, DrainTypes, OneDrain, Quiet
    <2>4. ReadHolds'
      BY <1>3
      DEF StartTask, pushVars, DrainTypes, SlotsHeld, OneDrain, ReadHolds,
          Quiet, NoneRuns, NoTask, Requests
    <2>5. Quiet'
      BY <1>3
      DEF StartTask, pushVars, DrainTypes, SlotsHeld, OneDrain, ReadHolds,
          Quiet, NoneRuns, NoTask, CallsHaveNoTask, Tasks, Requests
    <2>6. CallsHaveNoTask'
      BY <1>3
      DEF StartTask, pushVars, DrainTypes, CallsHaveNoTask, NoTask, Tasks
    <2> QED
      BY <2>1, <2>2, <2>3, <2>4, <2>5, <2>6
  <1>4. ASSUME NEW r \in Requests, Respond(r) PROVE DrainInv'
    <2>1. DrainTypes'
      BY <1>4
      DEF Respond, pushVars, DrainTypes, Tasks, Pushes, Requests
    <2>2. SlotsHeld'
      BY <1>4
      DEF Respond, pushVars, DrainTypes, SlotsHeld, Requests
    <2>3. OneDrain'
      BY <1>4
      DEF Respond, pushVars, DrainTypes, OneDrain, Quiet
    <2>4. ReadHolds'
      BY <1>4
      DEF Respond, pushVars, DrainTypes, SlotsHeld, OneDrain, ReadHolds,
          Quiet, NoneRuns, NoTask, Requests
    <2>5. Quiet'
      BY <1>4
      DEF Respond, pushVars, DrainTypes, SlotsHeld, OneDrain, ReadHolds,
          Quiet, NoneRuns, NoTask, CallsHaveNoTask, Tasks, Requests
    <2>6. CallsHaveNoTask'
      BY <1>4
      DEF Respond, pushVars, DrainTypes, CallsHaveNoTask, NoTask, Tasks
    <2> QED
      BY <2>1, <2>2, <2>3, <2>4, <2>5, <2>6
  <1>5. ASSUME NEW r \in Requests, TaskEnds(r) PROVE DrainInv'
    <2>1. DrainTypes'
      BY <1>5
      DEF TaskEnds, pushVars, DrainTypes, Tasks, Pushes, Requests
    <2>2. SlotsHeld'
      BY <1>5
      DEF TaskEnds, pushVars, DrainTypes, SlotsHeld, Requests
    <2>3. OneDrain'
      BY <1>5
      DEF TaskEnds, pushVars, DrainTypes, OneDrain, Quiet
    <2>4. ReadHolds'
      BY <1>5
      DEF TaskEnds, pushVars, DrainTypes, SlotsHeld, OneDrain, ReadHolds,
          Quiet, NoneRuns, NoTask, Requests
    <2>5. Quiet'
      BY <1>5
      DEF TaskEnds, pushVars, DrainTypes, SlotsHeld, OneDrain, ReadHolds,
          Quiet, NoneRuns, NoTask, CallsHaveNoTask, Tasks, Requests
    <2>6. CallsHaveNoTask'
      BY <1>5
      DEF TaskEnds, pushVars, DrainTypes, CallsHaveNoTask, NoTask, Tasks
    <2> QED
      BY <2>1, <2>2, <2>3, <2>4, <2>5, <2>6
  <1>6. CASE Push
    <2>1. DrainTypes'
      BY <1>6
      DEF Push, reqVars, DrainTypes, Tasks, Pushes, Requests
    <2>2. SlotsHeld'
      BY <1>6
      DEF Push, reqVars, DrainTypes, SlotsHeld, Requests
    <2>3. OneDrain'
      BY <1>6
      DEF Push, reqVars, DrainTypes, OneDrain, Quiet
    <2>4. ReadHolds'
      BY <1>6
      DEF Push, reqVars, DrainTypes, SlotsHeld, OneDrain, ReadHolds, Quiet,
          NoneRuns, NoTask, Requests
    <2>5. Quiet'
      BY <1>6
      DEF Push, reqVars, DrainTypes, SlotsHeld, OneDrain, ReadHolds, Quiet,
          NoneRuns, NoTask, CallsHaveNoTask, Tasks, Requests
    <2>6. CallsHaveNoTask'
      BY <1>6
      DEF Push, reqVars, DrainTypes, CallsHaveNoTask, NoTask, Tasks
    <2> QED
      BY <2>1, <2>2, <2>3, <2>4, <2>5, <2>6
  <1>7. CASE Notice
    <2>1. DrainTypes'
      BY <1>7
      DEF Notice, reqVars, DrainTypes, Tasks, Pushes, Requests
    <2>2. SlotsHeld'
      BY <1>7
      DEF Notice, reqVars, DrainTypes, SlotsHeld, Requests
    <2>3. OneDrain'
      BY <1>7
      DEF Notice, reqVars, DrainTypes, OneDrain, Quiet
    <2>4. ReadHolds'
      BY <1>7
      DEF Notice, reqVars, DrainTypes, SlotsHeld, OneDrain, ReadHolds, Quiet,
          NoneRuns, NoTask, Requests
    <2>5. Quiet'
      BY <1>7
      DEF Notice, reqVars, DrainTypes, SlotsHeld, OneDrain, ReadHolds, Quiet,
          NoneRuns, NoTask, CallsHaveNoTask, Tasks, Requests
    <2>6. CallsHaveNoTask'
      BY <1>7
      DEF Notice, reqVars, DrainTypes, CallsHaveNoTask, NoTask, Tasks
    <2> QED
      BY <2>1, <2>2, <2>3, <2>4, <2>5, <2>6
  <1>8. CASE Exit
    <2>1. DrainTypes'
      BY <1>8
      DEF Exit, reqVars, pushVars, DrainTypes, Tasks, Pushes, Requests
    <2>2. SlotsHeld'
      BY <1>8
      DEF Exit, reqVars, pushVars, DrainTypes, SlotsHeld, Requests
    <2>3. OneDrain'
      BY <1>8
      DEF Exit, reqVars, pushVars, DrainTypes, OneDrain, Quiet
    <2>4. ReadHolds'
      BY <1>8
      DEF Exit, reqVars, pushVars, DrainTypes, SlotsHeld, OneDrain, ReadHolds,
          Quiet, NoneRuns, NoTask, Requests
    <2>5. Quiet'
      BY <1>8
      DEF Exit, reqVars, pushVars, DrainTypes, SlotsHeld, OneDrain, ReadHolds,
          Quiet, NoneRuns, NoTask, CallsHaveNoTask, Tasks, Requests
    <2>6. CallsHaveNoTask'
      BY <1>8
      DEF Exit, reqVars, pushVars, DrainTypes, CallsHaveNoTask, NoTask, Tasks
    <2> QED
      BY <2>1, <2>2, <2>3, <2>4, <2>5, <2>6
  <1>9. ASSUME NEW p \in Pushes, Refresh(p) PROVE DrainInv'
    <2>1. /\ ppc' \in {[ppc EXCEPT ![p] = "wait"], [ppc EXCEPT ![p] = "none"]}
          /\ UNCHANGED <<rpc, kind, task, sem, drain, exiting, at>>
      BY <1>9 DEF Refresh, Leave, reqVars
    <2>2. ppc[p] = "refresh"
      BY <1>9 DEF Refresh
    <2>3. DrainTypes'
      BY <2>1, <2>2
      DEF DrainTypes, Tasks, Pushes, Requests
    <2>4. SlotsHeld'
      BY <2>1, <2>2
      DEF DrainTypes, SlotsHeld, Requests
    <2>5. OneDrain'
      BY <2>1, <2>2
      DEF DrainTypes, OneDrain, Quiet
    <2>6. ReadHolds'
      BY <2>1, <2>2
      DEF DrainTypes, SlotsHeld, OneDrain, ReadHolds, Quiet, NoneRuns, NoTask,
          Requests
    <2>7. Quiet'
      BY <2>1, <2>2
      DEF DrainTypes, SlotsHeld, OneDrain, ReadHolds, Quiet, NoneRuns, NoTask,
          CallsHaveNoTask, Tasks, Requests
    <2>8. CallsHaveNoTask'
      BY <2>1, <2>2
      DEF DrainTypes, CallsHaveNoTask, NoTask, Tasks
    <2> QED
      BY <2>3, <2>4, <2>5, <2>6, <2>7, <2>8
  <1>10. ASSUME NEW p \in Pushes, Tick(p) PROVE DrainInv'
    <2>1. /\ ppc' \in {ppc, [ppc EXCEPT ![p] = "none"]}
          /\ UNCHANGED <<rpc, kind, task, sem, drain, exiting, at>>
      BY <1>10 DEF Tick, Leave, reqVars
    <2>2. ppc[p] = "wait"
      BY <1>10 DEF Tick
    <2>3. DrainTypes'
      BY <2>1, <2>2
      DEF DrainTypes, Tasks, Pushes, Requests
    <2>4. SlotsHeld'
      BY <2>1, <2>2
      DEF DrainTypes, SlotsHeld, Requests
    <2>5. OneDrain'
      BY <2>1, <2>2
      DEF DrainTypes, OneDrain, Quiet
    <2>6. ReadHolds'
      BY <2>1, <2>2
      DEF DrainTypes, SlotsHeld, OneDrain, ReadHolds, Quiet, NoneRuns, NoTask,
          Requests
    <2>7. Quiet'
      BY <2>1, <2>2
      DEF DrainTypes, SlotsHeld, OneDrain, ReadHolds, Quiet, NoneRuns, NoTask,
          CallsHaveNoTask, Tasks, Requests
    <2>8. CallsHaveNoTask'
      BY <2>1, <2>2
      DEF DrainTypes, CallsHaveNoTask, NoTask, Tasks
    <2> QED
      BY <2>3, <2>4, <2>5, <2>6, <2>7, <2>8
  <1>11. ASSUME NEW p \in Pushes, Begin(p) PROVE DrainInv'
    <2>1. DrainTypes'
      BY <1>11
      DEF Begin, Locked, reqVars, DrainTypes, Tasks, Pushes, Requests
    <2>2. SlotsHeld'
      BY <1>11
      DEF Begin, Locked, reqVars, DrainTypes, SlotsHeld, Requests
    <2>3. OneDrain'
      BY <1>11
      DEF Begin, Locked, reqVars, DrainTypes, OneDrain, Quiet
    <2>4. ReadHolds'
      BY <1>11
      DEF Begin, Locked, reqVars, DrainTypes, SlotsHeld, OneDrain, ReadHolds,
          Quiet, NoneRuns, NoTask, Requests
    <2>5. Quiet'
      BY <1>11
      DEF Begin, Locked, reqVars, DrainTypes, SlotsHeld, OneDrain, ReadHolds,
          Quiet, NoneRuns, NoTask, CallsHaveNoTask, Tasks, Requests
    <2>6. CallsHaveNoTask'
      BY <1>11
      DEF Begin, Locked, reqVars, DrainTypes, CallsHaveNoTask, NoTask, Tasks
    <2> QED
      BY <2>1, <2>2, <2>3, <2>4, <2>5, <2>6
  <1>12. ASSUME NEW p \in Pushes, Look(p) PROVE DrainInv'
    <2>1. DrainTypes'
      <3>1. /\ UNCHANGED <<rpc, kind, task, sem, exiting>>
            /\ drain' \in {drain, TRUE}
            /\ \E k \in {"looking", "wait", "drained"} :
                  ppc' = [ppc EXCEPT ![p] = k]
        BY <1>12, ReasonList DEF Look, IsLast, reqVars, DrainTypes
      <3>2. at' = at \/ (at[p] # 4 /\ at' = [at EXCEPT ![p] = @ + 1])
        BY <1>12, ReasonList DEF Look, IsLast
      <3>3. at' \in [Pushes -> 1..4]
        BY <3>2 DEF DrainTypes
      <3> QED
        BY <3>1, <3>3 DEF DrainTypes
    <2>2. SlotsHeld'
      BY <1>12, ReasonList
      DEF Look, BusyFor, IsLast, reqVars, DrainTypes, SlotsHeld, Requests
    <2>3. OneDrain'
      BY <1>12, ReasonList
      DEF Look, BusyFor, IsLast, reqVars, DrainTypes, OneDrain, Quiet
    <2>4. ReadHolds'
      BY <1>12, ReasonList
      DEF Look, BusyFor, IsLast, reqVars, DrainTypes, SlotsHeld, OneDrain,
          ReadHolds, Quiet, NoneRuns, NoTask, Requests
    <2>5. Quiet'
      <3>1. SUFFICES ASSUME drain' PROVE Quiet'
        BY DEF Quiet
      <3>2. UNCHANGED <<rpc, kind, task>>
        BY <1>12 DEF Look, reqVars
      <3>3. CASE drain
        BY <3>2, <3>3 DEF Quiet, NoneRuns
      <3>4. CASE ~drain
        <4>1. ppc[p] = "looking" /\ at[p] = 4 /\ ~BusyFor("agent")
          BY <1>12, <3>1, <3>4, ReasonList DEF Look, IsLast
        <4>2. NoneRuns /\ \A r \in Requests : task[r] # "active"
          BY <4>1 DEF DrainTypes, ReadHolds, NoTask, CallsHaveNoTask, BusyFor,
                      Tasks
        <4> QED
          BY <3>2, <4>2 DEF Quiet, NoneRuns
      <3> QED
        BY <3>3, <3>4
    <2>6. CallsHaveNoTask'
      BY <1>12, ReasonList
      DEF Look, BusyFor, IsLast, reqVars, DrainTypes, CallsHaveNoTask, NoTask,
          Tasks
    <2> QED
      BY <2>1, <2>2, <2>3, <2>4, <2>5, <2>6
  <1>13. ASSUME NEW p \in Pushes, Apply(p) PROVE DrainInv'
    <2>1. DrainTypes'
      BY <1>13
      DEF Apply, Leave, EndReleaseDrain, reqVars, DrainTypes, Tasks, Pushes,
          Requests
    <2>2. SlotsHeld'
      BY <1>13
      DEF Apply, Leave, EndReleaseDrain, reqVars, DrainTypes, SlotsHeld,
          Requests
    <2>3. OneDrain'
      BY <1>13
      DEF Apply, Leave, EndReleaseDrain, reqVars, DrainTypes, OneDrain, Quiet
    <2>4. ReadHolds'
      BY <1>13
      DEF Apply, Leave, EndReleaseDrain, reqVars, DrainTypes, SlotsHeld,
          OneDrain, ReadHolds, Quiet, NoneRuns, NoTask, Requests
    <2>5. Quiet'
      BY <1>13
      DEF Apply, Leave, EndReleaseDrain, reqVars, DrainTypes, SlotsHeld,
          OneDrain, ReadHolds, Quiet, NoneRuns, NoTask, CallsHaveNoTask,
          Tasks, Requests
    <2>6. CallsHaveNoTask'
      BY <1>13
      DEF Apply, Leave, EndReleaseDrain, reqVars, DrainTypes, CallsHaveNoTask,
          NoTask, Tasks
    <2> QED
      BY <2>1, <2>2, <2>3, <2>4, <2>5, <2>6
  <1>14. CASE UNCHANGED vars
    BY <1>14
    DEF vars, reqVars, pushVars, DrainTypes, SlotsHeld, OneDrain, ReadHolds,
        Quiet, NoneRuns, NoTask, CallsHaveNoTask
  <1> QED
    BY <1>1, <1>2, <1>3, <1>4, <1>5, <1>6, <1>7, <1>8, <1>9,
       <1>10, <1>11, <1>12, <1>13, <1>14
    DEF Next, PushStep

(***************************************************************************)
(* A Node whose requests all come from the Hub does not restart for an     *)
(* update while it executes a request or a task is active.                 *)
(***************************************************************************)
THEOREM RestartsWhenIdle ==
    ASSUME Local = {}
    PROVE  Spec => []NoRestartWhileBusy
  <1>1. DrainInv => NoRestartWhileBusy
    BY DEF DrainInv, OneDrain, Quiet, NoneRuns, NoRestartWhileBusy
  <1>2. Init => DrainInv
    BY InitDrain
  <1>3. DrainInv /\ [Next]_vars => DrainInv'
    BY StepDrain
  <1> QED
    BY <1>1, <1>2, <1>3, PTL DEF Spec

-----------------------------------------------------------------------------
(***************************************************************************)
(* The executable.                                                         *)
(***************************************************************************)
HelperSteps == {"none", "copy", "wait", "clear", "move", "publish", "start", "back",
                "restore", "again", "done", "failed", "torn"}
AppSteps == {"none", "ready", "consumed", "stale", "up", "leaving"}
UpdSteps == {"idle", "check", "clean", "fetch", "mark", "install"}
HelperRows == [at : HelperSteps, ver : Nat, pid : Nat]
Executables == [target : Nat, new : Nat, previous : Nat]
Applications == [at : AppSteps, id : Nat, ver : Nat, upd : UpdSteps, want : Nat, artifact : Nat]

(***************************************************************************)
(* The types that the argument needs.                                      *)
(***************************************************************************)
UpdateTypes ==
    /\ exe \in Executables /\ napp \in Applications /\ helpers \in [HIds -> HelperRows]
    /\ ready \in Nat /\ release \in Nat

AtWork(h) == helpers[h].at \notin Over

(***************************************************************************)
(* One helper is at work, beside whatever application the user starts.     *)
(***************************************************************************)
OneHelper == \A g, h \in HIds : AtWork(g) /\ AtWork(h) => g = h

(***************************************************************************)
(* A helper that has moved the target away has the previous one, until it  *)
(* brings it back when the new one can not be put in place or started.     *)
(***************************************************************************)
Away == {"publish", "start", "back", "restore"}
PreviousIsKept == \A h \in HIds : helpers[h].at \in Away => exe.previous # 0

UpdateInv == UpdateTypes /\ OneHelper /\ PreviousIsKept /\ TargetIsThere

\* The first application, and no helper.
LEMMA UpdateStarts == UpdateInit => UpdateInv
  <1> SUFFICES ASSUME UpdateInit PROVE UpdateInv
    OBVIOUS
  <1>1. exe \in Executables /\ exe.target = 1 /\ ready \in Nat /\ release \in Nat
    BY DEF UpdateInit, Executables
  <1>2. napp \in Applications
    BY DEF UpdateInit, NoApp, Applications, AppSteps, UpdSteps
  <1>3. helpers = [h \in HIds |-> NoHelper] /\ NoHelper \in HelperRows
    BY DEF UpdateInit, NoHelper, HelperRows, HelperSteps
  <1>4. \A h \in HIds : helpers[h].at = "none" /\ ~AtWork(h)
    BY <1>3 DEF NoHelper, AtWork, Over
  <1> QED
    BY <1>1, <1>2, <1>3, <1>4
       DEF UpdateInv, UpdateTypes, OneHelper, PreviousIsKept, TargetIsThere, Away

(***************************************************************************)
(* A step of an application that starts no helper.                         *)
(***************************************************************************)
LEMMA AppGoesOn ==
    ASSUME UpdateInv, UNCHANGED <<exe, helpers>>, napp' \in Applications, ready' \in Nat,
           release' \in Nat
    PROVE  UpdateInv'
  BY DEF UpdateInv, UpdateTypes, OneHelper, PreviousIsKept, TargetIsThere, AtWork

(***************************************************************************)
(* A helper is started for an application, when none is at work.           *)
(***************************************************************************)
LEMMA HelperBegins ==
    ASSUME UpdateInv, "twice" \notin UpdateFaults, NEW v \in Nat, NEW pid \in Nat,
           NewHelper(v, pid), UNCHANGED exe, napp' \in Applications, ready' \in Nat, release' \in Nat
    PROVE  UpdateInv'
  <1>1. PICK h \in HIds :
          /\ helpers[h].at = "none"
          /\ helpers' = [helpers EXCEPT ![h] = [at |-> "copy", ver |-> v, pid |-> pid]]
    BY DEF NewHelper
  <1>2. \A g \in HIds : ~AtWork(g)
    BY DEF NewHelper, AtWork
  <1>3. [at |-> "copy", ver |-> v, pid |-> pid] \in HelperRows
    BY DEF HelperRows, HelperSteps
  <1>4. helpers'[h].at = "copy" /\ \A g \in HIds \ {h} : helpers'[g] = helpers[g]
    BY <1>1 DEF UpdateInv, UpdateTypes
  <1>5. UpdateTypes'
    BY <1>1, <1>3 DEF UpdateInv, UpdateTypes
  <1>6. OneHelper'
    BY <1>2, <1>4 DEF OneHelper, AtWork
  <1>7. PreviousIsKept' /\ TargetIsThere'
    BY <1>1, <1>4 DEF UpdateInv, PreviousIsKept, TargetIsThere, Away
  <1> QED
    BY <1>5, <1>6, <1>7 DEF UpdateInv

\* Every step of an application keeps the invariant.
LEMMA AppKeeps ==
    ASSUME UpdateInv, "twice" \notin UpdateFaults, AppStep
    PROVE  UpdateInv'
  <1> USE DEF UpdateInv, UpdateTypes
  <1>0. napp \in Applications /\ release \in Nat /\ ready \in Nat /\ napp.artifact \in Nat /\ napp.id \in Nat
    BY DEF Applications
  <1>1. CASE ApplyReadyUpdate
    <2>1. \A a \in AppSteps : [napp EXCEPT !.at = a] \in Applications
      BY <1>0 DEF Applications
    <2>2. napp' \in Applications /\ ready' \in Nat /\ release' \in Nat /\ UNCHANGED exe
      BY <1>0, <1>1, <2>1 DEF ApplyReadyUpdate, AppSteps
    <2>3. UNCHANGED helpers \/ NewHelper(ready, napp.id)
      BY <1>1 DEF ApplyReadyUpdate
    <2> QED
      BY <1>0, <2>2, <2>3, AppGoesOn, HelperBegins
  <1>2. CASE HandleUpdateInstall
    <2>1. /\ [napp EXCEPT !.upd = "idle", !.at = "leaving"] \in Applications
          /\ [napp EXCEPT !.upd = "idle"] \in Applications
      BY <1>0 DEF Applications, AppSteps, UpdSteps
    <2>2. napp' \in Applications /\ ready' \in Nat /\ release' \in Nat /\ UNCHANGED exe
      BY <1>0, <1>2, <2>1 DEF HandleUpdateInstall
    <2>3. UNCHANGED helpers \/ NewHelper(napp.artifact, napp.id)
      BY <1>2 DEF HandleUpdateInstall
    <2> QED
      BY <1>0, <2>2, <2>3, AppGoesOn, HelperBegins
  <1>3. CASE AppEnds
    <2>1. napp' \in Applications
      BY <1>0, <1>3 DEF AppEnds, NoApp, Applications, AppSteps, UpdSteps
    <2> QED
      BY <1>0, <1>3, <2>1, AppGoesOn DEF AppEnds
  <1>4. CASE CleanupConsumedCurrent
    <2>1. napp' \in Applications
      BY <1>0, <1>4 DEF CleanupConsumedCurrent, Applications, AppSteps, UpdSteps
    <2> QED
      BY <1>0, <1>4, <2>1, AppGoesOn DEF CleanupConsumedCurrent
  <1>5. CASE CleanupStale
    <2>1. napp' \in Applications
      BY <1>0, <1>5 DEF CleanupStale, Applications, AppSteps, UpdSteps
    <2> QED
      BY <1>0, <1>5, <2>1, AppGoesOn DEF CleanupStale
  <1>6. CASE Check
    <2>1. napp' \in Applications
      <3>1. CASE napp' = [napp EXCEPT !.upd = "clean"]
        BY <1>0, <3>1 DEF Applications, UpdSteps
      <3>2. CASE napp' = [napp EXCEPT !.upd = "idle", !.want = 0]
        BY <1>0, <3>2 DEF Applications, UpdSteps
      <3> QED
        BY <1>6, <3>1, <3>2 DEF Check
    <2> QED
      BY <1>0, <1>6, <2>1, AppGoesOn DEF Check
  <1>7. CASE CleanupStagedVersions
    <2>1. napp' \in Applications
      BY <1>0, <1>7 DEF CleanupStagedVersions, Applications, AppSteps, UpdSteps
    <2> QED
      BY <1>0, <1>7, <2>1, AppGoesOn DEF CleanupStagedVersions
  <1>8. CASE DownloadVerified
    <2>1. napp' \in Applications
      BY <1>0, <1>8 DEF DownloadVerified, Applications, AppSteps, UpdSteps
    <2> QED
      BY <1>0, <1>8, <2>1, AppGoesOn DEF DownloadVerified
  <1>9. CASE Stage
    <2>1. napp' \in Applications
      BY <1>0, <1>9 DEF Stage, Applications, AppSteps, UpdSteps
    <2> QED
      BY <1>0, <1>9, <2>1, AppGoesOn DEF Stage
  <1> QED
    BY <1>1, <1>2, <1>3, <1>4, <1>5, <1>6, <1>7, <1>8, <1>9 DEF AppStep

(***************************************************************************)
(* A helper goes on, or ends.                                              *)
(***************************************************************************)
LEMMA HelperMoves ==
    ASSUME UpdateTypes, NEW h \in HIds, NEW to \in HelperSteps, HGoes(h, to) \/ HFails(h, to)
    PROVE  /\ helpers' \in [HIds -> HelperRows]
           /\ helpers'[h].at = to
           /\ \A g \in HIds \ {h} : helpers'[g] = helpers[g]
  <1>0. helpers[h] \in HelperRows
    BY DEF UpdateTypes
  <1>1. \/ helpers' = [helpers EXCEPT ![h] = [helpers[h] EXCEPT !.at = to]]
        \/ helpers' = [helpers EXCEPT ![h] = [helpers[h] EXCEPT !.at = to, !.ver = 0]]
    BY DEF HGoes, HFails, UpdateTypes
  <1>2. /\ [helpers[h] EXCEPT !.at = to] \in HelperRows
        /\ [helpers[h] EXCEPT !.at = to].at = to
        /\ [helpers[h] EXCEPT !.at = to, !.ver = 0] \in HelperRows
        /\ [helpers[h] EXCEPT !.at = to, !.ver = 0].at = to
    BY <1>0 DEF HelperRows
  <1> QED
    BY <1>1, <1>2 DEF UpdateTypes

\* A helper that ends has only its last place changed.
LEMMA HelperStops ==
    ASSUME UpdateTypes, NEW h \in HIds, HEnds(h)
    PROVE  /\ helpers' \in [HIds -> HelperRows]
           /\ helpers'[h].at = "done"
           /\ \A g \in HIds \ {h} : helpers'[g] = helpers[g]
  <1>1. [NoHelper EXCEPT !.at = "done"] \in HelperRows /\ [NoHelper EXCEPT !.at = "done"].at = "done"
    BY DEF NoHelper, HelperRows, HelperSteps
  <1> QED
    BY <1>1 DEF UpdateTypes, HEnds

(***************************************************************************)
(* The one helper at work takes a step: what has to hold of it.            *)
(***************************************************************************)
LEMMA OneStep ==
    ASSUME UpdateInv, NEW h \in HIds, AtWork(h),
           exe' \in Executables, napp' \in Applications, helpers' \in [HIds -> HelperRows],
           UNCHANGED <<ready, release>>,
           \A g \in HIds \ {h} : helpers'[g] = helpers[g],
           helpers'[h].at \in Away => exe'.previous # 0,
           exe'.target = 0 =>
              \/ helpers'[h].at \in {"publish", "restore", "torn"}
              \/ exe.target = 0 /\ helpers[h].at \notin {"publish", "restore"}
    PROVE  UpdateInv'
  <1>1. \A g \in HIds \ {h} : ~AtWork(g) /\ ~AtWork(g)'
    BY DEF UpdateInv, OneHelper, AtWork
  <1>2. helpers[h].at # "torn"
    BY DEF AtWork, Over
  <1>3. UpdateTypes'
    BY DEF UpdateInv, UpdateTypes
  <1>4. OneHelper'
    BY <1>1 DEF OneHelper
  <1>5. PreviousIsKept'
    BY <1>1 DEF PreviousIsKept, AtWork, Over, Away
  <1>6. TargetIsThere'
    BY <1>2 DEF UpdateInv, TargetIsThere
  <1> QED
    BY <1>3, <1>4, <1>5, <1>6 DEF UpdateInv

(***************************************************************************)
(* A helper starts an application when there is none.                      *)
(***************************************************************************)
LEMMA BeginsOne ==
    ASSUME napp \in Applications, NEW v \in Nat, BeginsApp(v)
    PROVE  napp' \in Applications
  <1>1. CASE napp' = [NoApp EXCEPT !.at = "ready", !.id = napp.id + 1, !.ver = v]
    <2>1. napp.id + 1 \in Nat
      BY DEF Applications
    <2>2. napp' = [at |-> "ready", id |-> napp.id + 1, ver |-> v, upd |-> "idle", want |-> 0,
                   artifact |-> 0]
      BY <1>1 DEF NoApp
    <2> QED
      BY <2>1, <2>2 DEF Applications, AppSteps, UpdSteps
  <1> QED
    BY <1>1 DEF BeginsApp

(***************************************************************************)
(* The previous executable comes back: both files are versions, and the    *)
(* target is there.                                                        *)
(***************************************************************************)
LEMMA RestoredIsThere ==
    ASSUME exe \in Executables, exe.previous # 0
    PROVE  Restored \in Executables /\ Restored.target # 0
  BY DEF Restored, Executables

\* Every step of a helper keeps the invariant.
LEMMA HelperKeeps ==
    ASSUME UpdateInv, NEW h \in HIds, HelperStep(h) \/ HelperCrashes(h)
    PROVE  UpdateInv'
  <1>0. /\ UpdateTypes /\ exe \in Executables /\ napp \in Applications /\ helpers[h] \in HelperRows
        /\ exe.target \in Nat /\ exe.new \in Nat /\ exe.previous \in Nat /\ helpers[h].ver \in Nat
    BY DEF UpdateInv, UpdateTypes, Executables, HelperRows
  <1>1. /\ \A v \in Nat : [exe EXCEPT !.new = v] \in Executables
        /\ [exe EXCEPT !.previous = 0] \in Executables /\ [exe EXCEPT !.target = 0] \in Executables
    BY <1>0 DEF Executables
  <1>2. helpers[h].at \in Away => exe.previous # 0
    BY DEF UpdateInv, PreviousIsKept
  <1>3. UNCHANGED <<ready, release>> /\ AtWork(h)
    BY DEF HelperStep, HelperCrashes, CopyFile, WaitForProcessExit, ClearPrevious, MoveTarget,
           PublishTarget, StartUpdated, RemoveTarget, RestoreTarget, StartRestored, Frame0, AtWork, Over
  <1>4. ASSUME NEW to \in HelperSteps, HGoes(h, to) \/ HFails(h, to),
               exe' \in Executables, napp' \in Applications, to \in Away => exe'.previous # 0,
               exe'.target = 0 =>
                  \/ to \in {"publish", "restore", "torn"}
                  \/ exe.target = 0 /\ helpers[h].at \notin {"publish", "restore"}
        PROVE  UpdateInv'
    BY <1>0, <1>3, <1>4, HelperMoves, OneStep
  <1>5. CASE CopyFile(h)
    <2>1. exe' = exe \/ \E v \in Nat : exe' = [exe EXCEPT !.new = v]
      BY <1>0, <1>5 DEF CopyFile
    <2>2. exe' \in Executables /\ exe'.target = exe.target /\ napp' \in Applications
      BY <1>0, <1>1, <1>5, <2>1 DEF CopyFile, Executables
    <2>3. HGoes(h, "wait") \/ HFails(h, "failed")
      BY <1>5 DEF CopyFile
    <2> QED
      BY <1>4, <1>5, <2>2, <2>3 DEF CopyFile, HelperSteps, Away
  <1>6. CASE WaitForProcessExit(h)
    <2>1. exe' \in Executables /\ exe'.target = exe.target /\ napp' \in Applications
      BY <1>0, <1>1, <1>6 DEF WaitForProcessExit, Executables
    <2>2. HGoes(h, "clear") \/ HFails(h, "failed")
      BY <1>6 DEF WaitForProcessExit
    <2> QED
      BY <1>4, <1>6, <2>1, <2>2 DEF WaitForProcessExit, HelperSteps, Away
  <1>7. CASE ClearPrevious(h)
    <2>1. exe' \in Executables /\ exe'.target = exe.target /\ napp' \in Applications
      BY <1>0, <1>1, <1>7 DEF ClearPrevious, Executables
    <2> QED
      BY <1>4, <1>7, <2>1 DEF ClearPrevious, HelperSteps, Away
  <1>8. CASE MoveTarget(h)
    <2>0. napp' \in Applications /\ helpers[h].at = "move"
      BY <1>0, <1>8 DEF MoveTarget
    <2>1. CASE /\ exe.target # 0 /\ HGoes(h, "publish")
               /\ exe' = [exe EXCEPT !.previous = exe.target, !.target = 0]
      <3>1. exe' \in Executables /\ exe'.previous # 0
        BY <1>0, <2>1 DEF Executables
      <3> QED
        BY <1>4, <2>0, <2>1, <3>1 DEF HelperSteps
    <2>2. CASE exe' = [exe EXCEPT !.previous = 0] /\ UNCHANGED helpers
      <3>1. exe' \in Executables /\ exe'.target = exe.target
        BY <1>0, <1>1, <2>2 DEF Executables
      <3> QED
        BY <1>0, <1>3, <2>0, <2>2, <3>1, OneStep DEF UpdateTypes, Away
    <2>3. CASE exe' = [exe EXCEPT !.new = 0] /\ HFails(h, "failed")
      <3>1. exe' \in Executables /\ exe'.target = exe.target
        BY <1>0, <1>1, <2>3 DEF Executables
      <3> QED
        BY <1>4, <2>0, <2>3, <3>1 DEF HelperSteps, Away
    <2> QED
      BY <1>8, <2>1, <2>2, <2>3 DEF MoveTarget
  <1>9. CASE PublishTarget(h)
    <2>0. napp' \in Applications /\ helpers[h].at = "publish" /\ exe.previous # 0
      BY <1>0, <1>2, <1>9 DEF PublishTarget, Away
    <2>1. CASE exe.new # 0 /\ exe' = [exe EXCEPT !.target = exe.new, !.new = 0] /\ HGoes(h, "start")
      <3>1. exe' \in Executables /\ exe'.previous # 0 /\ exe'.target # 0
        BY <1>0, <2>0, <2>1 DEF Executables
      <3> QED
        BY <1>4, <2>0, <2>1, <3>1 DEF HelperSteps
    <2>2. CASE exe' = Restored /\ HFails(h, "failed")
      <3>1. exe' \in Executables /\ exe'.target # 0
        BY <1>0, <2>0, <2>2, RestoredIsThere
      <3> QED
        BY <1>4, <2>0, <2>2, <3>1 DEF HelperSteps, Away
    <2>3. CASE HFails(h, "torn") /\ UNCHANGED exe
      BY <1>0, <1>4, <2>0, <2>3 DEF HelperSteps, Away
    <2> QED
      BY <1>9, <2>1, <2>2, <2>3 DEF PublishTarget
  <1>10. CASE StartUpdated(h)
    <2>0. UNCHANGED exe /\ helpers[h].at = "start" /\ exe.previous # 0
      BY <1>2, <1>10 DEF StartUpdated, Away
    <2>1. CASE BeginsApp(exe.target) /\ HEnds(h)
      <3>1. napp' \in Applications
        BY <1>0, <2>1, BeginsOne
      <3> QED
        BY <1>0, <1>3, <2>0, <2>1, <3>1, HelperStops, OneStep DEF Away
    <2>2. CASE HGoes(h, "back") /\ UNCHANGED napp
      BY <1>0, <1>4, <2>0, <2>2 DEF HelperSteps
    <2> QED
      BY <1>10, <2>1, <2>2 DEF StartUpdated
  <1>11. CASE RemoveTarget(h)
    <2>1. /\ exe' \in Executables /\ exe'.previous # 0 /\ napp' \in Applications
          /\ HGoes(h, "restore")
      BY <1>0, <1>1, <1>2, <1>11 DEF RemoveTarget, Executables, Away
    <2> QED
      BY <1>4, <2>1 DEF HelperSteps
  <1>12. CASE RestoreTarget(h)
    <2>0. napp' \in Applications /\ exe.previous # 0
      BY <1>0, <1>2, <1>12 DEF RestoreTarget, Away
    <2>1. CASE exe' = Restored /\ HGoes(h, "again")
      <3>1. exe' \in Executables /\ exe'.target # 0
        BY <1>0, <2>0, <2>1, RestoredIsThere
      <3> QED
        BY <1>4, <2>0, <2>1, <3>1 DEF HelperSteps, Away
    <2>2. CASE UNCHANGED exe /\ exe.target = 0 /\ HFails(h, "torn")
      BY <1>0, <1>4, <2>0, <2>2 DEF HelperSteps, Away
    <2>3. CASE UNCHANGED exe /\ exe.target # 0 /\ HGoes(h, "again")
      BY <1>0, <1>4, <2>0, <2>3 DEF HelperSteps, Away
    <2> QED
      BY <1>12, <2>1, <2>2, <2>3 DEF RestoreTarget
  <1>13. CASE StartRestored(h)
    <2>0. UNCHANGED exe /\ helpers[h].at = "again"
      BY <1>13 DEF StartRestored
    <2>1. CASE BeginsApp(exe.target) /\ HEnds(h)
      <3>1. napp' \in Applications
        BY <1>0, <2>1, BeginsOne
      <3> QED
        BY <1>0, <1>3, <2>0, <2>1, <3>1, HelperStops, OneStep DEF Away
    <2>2. CASE HFails(h, "failed") /\ UNCHANGED napp
      BY <1>0, <1>4, <2>0, <2>2 DEF HelperSteps, Away
    <2> QED
      BY <1>13, <2>1, <2>2 DEF StartRestored
  <1>14. CASE HelperCrashes(h)
    <2>1. UNCHANGED <<exe, napp>>
      BY <1>14 DEF HelperCrashes
    <2>2. CASE helpers[h].at \in {"publish", "restore"}
      <3>1. HFails(h, "torn")
        BY <1>14, <2>2 DEF HelperCrashes
      <3> QED
        BY <1>0, <1>4, <2>1, <3>1 DEF HelperSteps, Away
    <2>3. CASE helpers[h].at \notin {"publish", "restore"}
      <3>1. HFails(h, "failed")
        BY <1>14, <2>3 DEF HelperCrashes
      <3> QED
        BY <1>0, <1>4, <2>1, <2>3, <3>1 DEF HelperSteps, Away
    <2> QED
      BY <2>2, <2>3
  <1> QED
    BY <1>5, <1>6, <1>7, <1>8, <1>9, <1>10, <1>11, <1>12, <1>13, <1>14 DEF HelperStep

\* The invariant is inductive.
LEMMA UpdateStep ==
    ASSUME UpdateInv, "twice" \notin UpdateFaults, [UpdateNext]_updVars
    PROVE  UpdateInv'
  <1>0. /\ UpdateTypes /\ exe \in Executables /\ napp \in Applications /\ exe.target \in Nat
        /\ ready \in Nat /\ release \in Nat
    BY DEF UpdateInv, UpdateTypes, Executables
  <1>1. CASE UNCHANGED updVars
    BY <1>0, <1>1, AppGoesOn DEF updVars
  <1>2. CASE UpdateFails
    <2>1. napp' \in Applications
      BY <1>0, <1>2 DEF UpdateFails, Applications, UpdSteps
    <2> QED
      BY <1>0, <1>2, <2>1, AppGoesOn DEF UpdateFails
  <1>3. CASE UserStarts
    <2>1. napp' \in Applications
      BY <1>0, <1>3, BeginsOne DEF UserStarts
    <2> QED
      BY <1>0, <1>3, <2>1, AppGoesOn DEF UserStarts
  <1>4. CASE PublishNode
    BY <1>0, <1>4, AppGoesOn DEF PublishNode
  <1>5. CASE RefreshUpdate(TRUE) \/ AutoUpdateLoop
    <2>1. \A want \in Nat : [napp EXCEPT !.upd = "check", !.want = want] \in Applications
      BY <1>0 DEF Applications, UpdSteps
    <2>2. napp' \in Applications
      BY <1>5, <2>1 DEF AutoUpdateLoop, RefreshUpdate
    <2> QED
      BY <1>0, <1>5, <2>2, AppGoesOn DEF AutoUpdateLoop, RefreshUpdate
  <1> QED
    BY <1>1, <1>2, <1>3, <1>4, <1>5, AppKeeps, HelperKeeps DEF UpdateNext

(***************************************************************************)
(* The executable is there whenever no helper is between two steps that    *)
(* take it away and put another one in its place, or was stopped there:    *)
(* through copies that fail, an old application that does not end, files   *)
(* in use, launches that fail, helpers that are killed and applications    *)
(* that the user starts beside one (ApplyHelper).                          *)
(***************************************************************************)
THEOREM ExecutableStays ==
    ASSUME "twice" \notin UpdateFaults
    PROVE  UpdateSpec => []TargetIsThere
  <1>1. UpdateInit => UpdateInv
    BY UpdateStarts
  <1>2. UpdateInv /\ [UpdateNext]_updVars => UpdateInv'
    BY UpdateStep
  <1>3. UpdateInv => TargetIsThere
    BY DEF UpdateInv
  <1> QED
    BY <1>1, <1>2, <1>3, PTL DEF UpdateSpec

-----------------------------------------------------------------------------
\* The types of the drain.

\* No request, no push.
LEMMA DrainTypesInit == Init => TypeOK
<1> SUFFICES ASSUME Init PROVE TypeOK
  OBVIOUS
<1>1. MaxPushes \in Nat /\ Len(Reasons) = 4 /\ 1 \in 1..4 /\ 0 \in 0..MaxPushes
  BY BoundsAssumption, ReasonList
<1>2. at \in [Pushes -> 1..Len(Reasons)] /\ marker \in 0..MaxPushes /\ latest \in 0..MaxPushes
  BY <1>1 DEF Init
<1>3. /\ rpc \in [Requests -> {"new", "arrived", "passed", "running", "over"}]
      /\ kind \in [Requests -> Tasks] /\ task \in [Requests -> {"none", "active", "ended"}]
  BY DEF Init
<1>4. /\ ppc \in [Pushes -> {"none", "refresh", "wait", "looking", "drained"}]
      /\ idle \in [Pushes -> BOOLEAN]
  BY DEF Init
<1>5. sem \in SUBSET Remote /\ drain \in BOOLEAN /\ pushing \in BOOLEAN /\ exiting \in BOOLEAN /\ down \in BOOLEAN
  BY DEF Init
<1> QED
  BY <1>2, <1>3, <1>4, <1>5 DEF TypeOK

\* Every step, for requests of the local bridge as well.
LEMMA DrainTypesStep == TypeOK /\ [Next]_vars => TypeOK'
<1> SUFFICES ASSUME TypeOK, [Next]_vars PROVE TypeOK'
  OBVIOUS
<1>1. ASSUME NEW r \in Requests,
             Arrive(r) \/ CheckDrain(r) \/ StartTask(r) \/ Respond(r) \/ TaskEnds(r)
      PROVE  TypeOK'
  <2>1. UNCHANGED <<kind, drain, pushVars, exiting, down>>
    BY <1>1 DEF Arrive, CheckDrain, StartTask, Respond, TaskEnds
  <2>2. rpc' \in [Requests -> {"new", "arrived", "passed", "running", "over"}]
    BY <1>1 DEF Arrive, CheckDrain, StartTask, Respond, TaskEnds, TypeOK
  <2>3. task' \in [Requests -> {"none", "active", "ended"}]
    BY <1>1 DEF Arrive, CheckDrain, StartTask, Respond, TaskEnds, TypeOK
  <2>4. sem' \in SUBSET Remote
    BY <1>1 DEF Arrive, CheckDrain, StartTask, Respond, TaskEnds, TypeOK
  <2> QED
    BY <2>1, <2>2, <2>3, <2>4 DEF TypeOK, pushVars
<1>2. CASE Push \/ Notice \/ Exit \/ UNCHANGED vars
  <2>1. UNCHANGED <<rpc, kind, task, sem, drain, idle, at, exiting>>
    BY <1>2 DEF Push, Notice, Exit, vars, reqVars, pushVars
  <2>2. marker' \in 0..MaxPushes /\ latest' \in 0..MaxPushes /\ pushing' \in BOOLEAN /\ down' \in BOOLEAN
    <3>1. pushing' \in BOOLEAN /\ down' \in BOOLEAN
      BY <1>2 DEF Push, Notice, Exit, vars, reqVars, pushVars, TypeOK
    <3>2. \/ marker' = marker /\ latest' \in {latest, marker}
          \/ marker < MaxPushes /\ marker' = marker + 1 /\ latest' = latest
      BY <1>2 DEF Push, Notice, Exit, vars, reqVars, pushVars
    <3>3. marker \in 0..MaxPushes /\ latest \in 0..MaxPushes
      BY DEF TypeOK
    <3> QED
      BY <3>1, <3>2, <3>3, BoundsAssumption
  <2>3. ppc' \in [Pushes -> {"none", "refresh", "wait", "looking", "drained"}]
    BY <1>2 DEF Push, Notice, Exit, vars, reqVars, pushVars, TypeOK
  <2> QED
    BY <2>1, <2>2, <2>3 DEF TypeOK
<1>3. ASSUME NEW p \in Pushes, PushStep(p)
      PROVE  TypeOK'
  <2>1. UNCHANGED <<reqVars, marker, latest, down>>
    BY <1>3 DEF PushStep, Refresh, Tick, Begin, Look, Apply
  <2>2. drain' \in BOOLEAN /\ exiting' \in BOOLEAN
    BY <1>3 DEF PushStep, Refresh, Tick, Begin, Look, Apply, EndReleaseDrain, TypeOK
  <2>3. pushing' \in BOOLEAN
    BY <1>3 DEF PushStep, Refresh, Tick, Begin, Look, Apply, Leave, TypeOK
  <2>4. ppc' \in [Pushes -> {"none", "refresh", "wait", "looking", "drained"}]
    BY <1>3 DEF PushStep, Refresh, Tick, Begin, Look, Apply, Leave, TypeOK
  <2>5. idle' \in [Pushes -> BOOLEAN]
    BY <1>3 DEF PushStep, Refresh, Tick, Begin, Look, Apply, TypeOK
  <2>6. at' \in [Pushes -> 1..Len(Reasons)]
    <3>1. at \in [Pushes -> 1..4] /\ Len(Reasons) = 4 /\ at[p] \in 1..4
      BY ReasonList DEF TypeOK
    <3>2. at' = at \/ at' = [at EXCEPT ![p] = 1] \/ (at[p] # 4 /\ at' = [at EXCEPT ![p] = @ + 1])
      BY <1>3, <3>1 DEF PushStep, Refresh, Tick, Begin, Look, Apply, IsLast
    <3>3. at[p] # 4 => at[p] + 1 \in 1..4
      BY <3>1
    <3> QED
      BY <3>1, <3>2, <3>3
  <2> QED
    BY <2>1, <2>2, <2>3, <2>4, <2>5, <2>6 DEF TypeOK, reqVars
<1> QED
  BY <1>1, <1>2, <1>3 DEF Next

(***************************************************************************)
(* Type correctness of the drain (handleReleaseNotice, BeginReleaseDrain,  *)
(* handleCapabilityRequest).                                               *)
(***************************************************************************)
THEOREM DrainStaysTyped == Spec => []TypeOK
BY DrainTypesInit, DrainTypesStep, PTL DEF Spec

-----------------------------------------------------------------------------
\* Rows of the executable, the application and the helpers.
ExeRows == [target : Versions, new : Versions, previous : Versions]
AppRows == [at : AppSteps, id : 0 .. MaxApps, ver : Versions, upd : UpdSteps, want : Versions, artifact : Versions]
AidRows == [at : HelperSteps, ver : Versions, pid : 0 .. MaxApps]
UpdTypesInv ==
    /\ exe \in ExeRows /\ staged \subseteq Versions /\ ready \in Versions /\ release \in Versions
    /\ napp \in AppRows /\ helpers \in [HIds -> AidRows]

\* These are the types of the update.
LEMMA UpdTypesAre == UpdTypesInv <=> UpdateTypeOK
BY DEF UpdTypesInv, UpdateTypeOK, ExeRows, AppRows, AidRows, AppSteps, UpdSteps, HelperSteps, Over

\* What is known of the bounds.
LEMMA UpdBounds ==
    /\ MaxVersion \in Nat /\ MaxApps \in Nat /\ 0 \in Versions /\ 1 \in Versions
    /\ 0 \in 0 .. MaxApps /\ 1 \in 0 .. MaxApps
    /\ NoApp \in AppRows /\ NoHelper \in AidRows
<1>1. /\ MaxVersion \in Nat /\ MaxApps \in Nat /\ 0 \in Versions /\ 1 \in Versions
      /\ 0 \in 0 .. MaxApps /\ 1 \in 0 .. MaxApps
  BY UpdateAssumption DEF Versions
<1> QED
  BY <1>1 DEF NoApp, NoHelper, AppRows, AidRows, AppSteps, UpdSteps, HelperSteps

\* One application, no helper.
LEMMA UpdTypesInit == UpdateInit => UpdTypesInv
<1> SUFFICES ASSUME UpdateInit PROVE UpdTypesInv
  OBVIOUS
<1>1. napp = [at |-> "ready", id |-> 1, ver |-> 1, upd |-> "idle", want |-> 0, artifact |-> 0]
  BY DEF UpdateInit, NoApp
<1>2. napp \in AppRows
  BY <1>1, UpdBounds DEF AppRows, AppSteps, UpdSteps
<1>3. staged \subseteq Versions /\ ready \in Versions /\ release \in Versions
  <2>1. MaxVersion > 1 => 2 \in Versions
    BY UpdBounds DEF Versions
  <2> QED
    BY <2>1, UpdBounds DEF UpdateInit
<1> QED
  BY <1>2, <1>3, UpdBounds DEF UpdateInit, UpdTypesInv, ExeRows

\* An application begins.
LEMMA BeginsTyped ==
    ASSUME UpdTypesInv, NEW v \in Versions, BeginsApp(v)
    PROVE  napp' \in AppRows
<1>1. napp \in AppRows /\ napp.id \in 0 .. MaxApps
  BY DEF UpdTypesInv, AppRows
<1>2. CASE napp.at = "none" /\ v # 0 /\ napp.id < MaxApps
  <2>1. napp' = [at |-> "ready", id |-> napp.id + 1, ver |-> v, upd |-> "idle", want |-> 0, artifact |-> 0]
    BY <1>2 DEF BeginsApp, NoApp
  <2>2. napp.id + 1 \in 0 .. MaxApps
    BY <1>1, <1>2, UpdBounds
  <2> QED
    BY <2>1, <2>2, UpdBounds DEF AppRows, AppSteps, UpdSteps
<1>3. CASE ~(napp.at = "none" /\ v # 0 /\ napp.id < MaxApps)
  BY <1>1, <1>3 DEF BeginsApp
<1> QED
  BY <1>2, <1>3

\* A helper begins.
LEMMA NewHelperTyped ==
    ASSUME UpdTypesInv, NEW v \in Versions, NEW pid \in 0 .. MaxApps, NewHelper(v, pid)
    PROVE  helpers' \in [HIds -> AidRows]
<1>1. [at |-> "copy", ver |-> v, pid |-> pid] \in AidRows
  BY DEF AidRows, HelperSteps
<1> QED
  BY <1>1 DEF NewHelper, UpdTypesInv

\* Steps of the application.
LEMMA AppTyped ==
    ASSUME UpdTypesInv,
           AppStep \/ UpdateFails \/ UserStarts \/ PublishNode \/ RefreshUpdate(TRUE) \/ AutoUpdateLoop
    PROVE  UpdTypesInv'
<1>0. /\ exe \in ExeRows /\ staged \subseteq Versions /\ ready \in Versions /\ release \in Versions
      /\ napp \in AppRows /\ helpers \in [HIds -> AidRows]
      /\ napp.id \in 0 .. MaxApps /\ napp.artifact \in Versions /\ napp.ver \in Versions
      /\ exe.target \in Versions
  BY DEF UpdTypesInv, AppRows, ExeRows
<1>1. exe' = exe
  BY DEF AppStep, ApplyReadyUpdate, CleanupConsumedCurrent, CleanupStale, Check,
         CleanupStagedVersions, DownloadVerified, Stage, HandleUpdateInstall, AppEnds,
         UpdateFails, UserStarts, PublishNode, RefreshUpdate, AutoUpdateLoop
<1>2. staged' \subseteq Versions
  BY <1>0
     DEF AppStep, ApplyReadyUpdate, CleanupConsumedCurrent, CleanupStale, Check,
         CleanupStagedVersions, DownloadVerified, Stage, HandleUpdateInstall, AppEnds,
         UpdateFails, UserStarts, PublishNode, RefreshUpdate, AutoUpdateLoop
<1>3. ready' \in Versions
  BY <1>0, UpdBounds
     DEF AppStep, ApplyReadyUpdate, CleanupConsumedCurrent, CleanupStale, Check,
         CleanupStagedVersions, DownloadVerified, Stage, HandleUpdateInstall, AppEnds,
         UpdateFails, UserStarts, PublishNode, RefreshUpdate, AutoUpdateLoop
<1>4. release' \in Versions
  <2>1. release' = release \/ (release < MaxVersion /\ release' = release + 1)
    BY DEF AppStep, ApplyReadyUpdate, CleanupConsumedCurrent, CleanupStale, Check,
         CleanupStagedVersions, DownloadVerified, Stage, HandleUpdateInstall, AppEnds,
         UpdateFails, UserStarts, PublishNode, RefreshUpdate, AutoUpdateLoop
  <2> QED
    BY <1>0, <2>1, UpdBounds DEF Versions
<1>5. helpers' \in [HIds -> AidRows]
  <2>1. helpers' = helpers \/ NewHelper(ready, napp.id) \/ NewHelper(napp.artifact, napp.id)
    BY DEF AppStep, ApplyReadyUpdate, CleanupConsumedCurrent, CleanupStale, Check,
         CleanupStagedVersions, DownloadVerified, Stage, HandleUpdateInstall, AppEnds,
         UpdateFails, UserStarts, PublishNode, RefreshUpdate, AutoUpdateLoop
  <2> QED
    BY <1>0, <2>1, NewHelperTyped
<1>6. napp' \in AppRows
  <2>0. /\ \A a \in AppSteps : [napp EXCEPT !.at = a] \in AppRows
        /\ \A d \in UpdSteps : [napp EXCEPT !.upd = d] \in AppRows
    BY <1>0 DEF AppRows
  <2>1. \A d \in UpdSteps, w \in {0, 1} : [napp EXCEPT !.upd = d, !.want = w] \in AppRows
    BY <1>0, UpdBounds DEF AppRows
  <2>2. [napp EXCEPT !.upd = "fetch", !.artifact = release] \in AppRows
    BY <1>0 DEF AppRows, UpdSteps
  <2>3. \A a \in AppSteps : [napp EXCEPT !.upd = "idle", !.at = a] \in AppRows
    BY <1>0 DEF AppRows, UpdSteps
  <2>4. [NoApp EXCEPT !.id = napp.id] \in AppRows
    BY <1>0, UpdBounds DEF AppRows
  <2>5. CASE ApplyReadyUpdate \/ CleanupConsumedCurrent \/ CleanupStale
    BY <2>0, <2>5 DEF ApplyReadyUpdate, CleanupConsumedCurrent, CleanupStale, AppSteps
  <2>6. CASE Check \/ UpdateFails \/ RefreshUpdate(TRUE) \/ RefreshUpdate(FALSE)
    BY <2>0, <2>1, <2>6 DEF Check, UpdateFails, RefreshUpdate, UpdSteps
  <2>7. CASE CleanupStagedVersions \/ DownloadVerified
    BY <2>0, <2>2, <2>7 DEF CleanupStagedVersions, DownloadVerified, UpdSteps
  <2>8. CASE Stage
    BY <2>1, <2>8 DEF Stage, UpdSteps
  <2>9. CASE HandleUpdateInstall
    <3>1. napp' = [napp EXCEPT !.upd = "idle", !.at = napp.at]
          \/ napp' = [napp EXCEPT !.upd = "idle", !.at = "leaving"]
      BY <2>9 DEF HandleUpdateInstall
    <3>2. napp.at \in AppSteps /\ "leaving" \in AppSteps
      BY <1>0 DEF AppRows, AppSteps
    <3> QED
      BY <2>3, <3>1, <3>2
  <2>10. CASE AppEnds
    BY <2>4, <2>10 DEF AppEnds
  <2>11. CASE UserStarts
    BY <1>0, <2>11, BeginsTyped DEF UserStarts
  <2>12. CASE PublishNode
    BY <1>0, <2>12 DEF PublishNode
  <2> QED
    BY <2>5, <2>6, <2>7, <2>8, <2>9, <2>10, <2>11, <2>12 DEF AppStep, AutoUpdateLoop
<1> QED
  BY <1>0, <1>1, <1>2, <1>3, <1>4, <1>5, <1>6 DEF UpdTypesInv

\* Steps of a helper.
LEMMA HelperTyped ==
    ASSUME UpdTypesInv, NEW h \in HIds, HelperStep(h) \/ HelperCrashes(h)
    PROVE  UpdTypesInv'
<1>0. /\ exe \in ExeRows /\ staged \subseteq Versions /\ ready \in Versions /\ release \in Versions
      /\ napp \in AppRows /\ helpers \in [HIds -> AidRows] /\ helpers[h] \in AidRows
      /\ helpers[h].ver \in Versions
      /\ exe.target \in Versions /\ exe.new \in Versions /\ exe.previous \in Versions
  BY DEF UpdTypesInv, AidRows, ExeRows
<1>1. UNCHANGED <<staged, ready, release>>
  BY DEF HelperStep, HelperCrashes, CopyFile, WaitForProcessExit, ClearPrevious, MoveTarget, PublishTarget,
         StartUpdated, RemoveTarget, RestoreTarget, StartRestored, Frame0
<1>2. helpers' \in [HIds -> AidRows]
  <2>1. \A a \in HelperSteps : /\ [helpers[h] EXCEPT !.at = a] \in AidRows
                               /\ [helpers[h] EXCEPT !.at = a, !.ver = 0] \in AidRows
    BY <1>0, UpdBounds DEF AidRows
  <2>2. [NoHelper EXCEPT !.at = "done"] \in AidRows
    BY UpdBounds DEF AidRows, HelperSteps
  <2>3. ASSUME NEW a \in HelperSteps, HGoes(h, a) \/ HFails(h, a)
        PROVE  helpers' \in [HIds -> AidRows]
    <3>1. \/ helpers' = [helpers EXCEPT ![h] = [helpers[h] EXCEPT !.at = a]]
          \/ helpers' = [helpers EXCEPT ![h] = [helpers[h] EXCEPT !.at = a, !.ver = 0]]
      BY <1>0, <2>3 DEF HGoes, HFails
    <3> QED
      BY <1>0, <2>1, <3>1
  <2>4. \/ HEnds(h) \/ UNCHANGED helpers
        \/ \E a \in HelperSteps : HGoes(h, a) \/ HFails(h, a)
    <3>1. CASE HelperCrashes(h)
      BY <3>1 DEF HelperCrashes, HelperSteps
    <3>2. CASE CopyFile(h) \/ WaitForProcessExit(h) \/ ClearPrevious(h) \/ MoveTarget(h)
      BY <3>2 DEF CopyFile, WaitForProcessExit, ClearPrevious, MoveTarget, HelperSteps
    <3>3. CASE PublishTarget(h) \/ StartUpdated(h) \/ RemoveTarget(h)
      BY <3>3 DEF PublishTarget, StartUpdated, RemoveTarget, HelperSteps
    <3>4. CASE RestoreTarget(h) \/ StartRestored(h)
      BY <3>4 DEF RestoreTarget, StartRestored, HelperSteps
    <3> QED
      BY <3>1, <3>2, <3>3, <3>4 DEF HelperStep
  <2> QED
    BY <1>0, <2>2, <2>3, <2>4 DEF HEnds
<1>3. exe' \in ExeRows
  <2>1. \A v \in Versions : [exe EXCEPT !.new = v] \in ExeRows /\ [exe EXCEPT !.previous = v] \in ExeRows
                            /\ [exe EXCEPT !.target = v] \in ExeRows
    BY <1>0 DEF ExeRows
  <2>2. /\ [exe EXCEPT !.previous = exe.target, !.target = 0] \in ExeRows
        /\ [exe EXCEPT !.target = exe.new, !.new = 0] \in ExeRows
        /\ Restored \in ExeRows
    BY <1>0, UpdBounds DEF ExeRows, Restored
  <2> QED
    BY <1>0, <2>1, <2>2, UpdBounds
       DEF HelperStep, HelperCrashes, CopyFile, WaitForProcessExit, ClearPrevious, MoveTarget, PublishTarget,
           StartUpdated, RemoveTarget, RestoreTarget, StartRestored
<1>4. napp' \in AppRows
  <2>1. exe'.target \in Versions
    BY <1>3 DEF ExeRows
  <2>2. napp' = napp \/ BeginsApp(exe.target) \/ BeginsApp(exe'.target)
    BY DEF HelperStep, HelperCrashes, CopyFile, WaitForProcessExit, ClearPrevious, MoveTarget, PublishTarget,
           StartUpdated, RemoveTarget, RestoreTarget, StartRestored
  <2>3. PICK v : v = exe'.target
    OBVIOUS
  <2> QED
    BY <1>0, <2>1, <2>2, <2>3, BeginsTyped
<1> QED
  BY <1>0, <1>1, <1>2, <1>3, <1>4 DEF UpdTypesInv

\* Every step.
LEMMA UpdTypesStep == UpdTypesInv /\ [UpdateNext]_updVars => UpdTypesInv'
<1>1. UpdTypesInv /\ UNCHANGED updVars => UpdTypesInv'
  BY DEF UpdTypesInv, updVars
<1> QED
  BY <1>1, AppTyped, HelperTyped DEF UpdateNext

(***************************************************************************)
(* Type correctness of the update: files, markers and processes name       *)
(* releases that were published and applications that were begun           *)
(* (Stage, ApplyHelper).                                                   *)
(***************************************************************************)
THEOREM UpdateStaysTyped == UpdateSpec => []UpdateTypeOK
BY UpdTypesInit, UpdTypesStep, UpdTypesAre, PTL DEF UpdateSpec

(***************************************************************************)
(* The parts beside each other: the one that runs keeps its types and the  *)
(* others rest.                                                            *)
(***************************************************************************)
LiveTypesInv ==
    /\ livePart = "drain" => TypeOK
    /\ livePart = "update" => UpdTypesInv
    /\ livePart = "artifacts" => ArtTypesInv

\* Every step is one of the part that runs.
LEMMA LiveTypesStep == LiveTypesInv /\ [LiveNext]_liveVars => LiveTypesInv'
<1> SUFFICES ASSUME LiveTypesInv, [LiveNext]_liveVars PROVE LiveTypesInv'
  OBVIOUS
<1>1. livePart' = livePart
  BY DEF LiveNext, liveVars
<1>2. livePart = "drain" => [Next]_vars
  BY DEF LiveNext, liveVars
<1>3. livePart = "update" => [UpdateNext]_updVars
  BY DEF LiveNext, liveVars
<1>4. livePart = "artifacts" => [ArtNext]_artVars
  BY DEF LiveNext, liveVars
<1> QED
  BY <1>1, <1>2, <1>3, <1>4, DrainTypesStep, UpdTypesStep, ArtTypesStep DEF LiveTypesInv

(***************************************************************************)
(* Type correctness of the three parts that promise that something         *)
(* happens: the drain, the update and the artifacts.                       *)
(***************************************************************************)
THEOREM LiveStaysTyped == LiveSpec => []LiveTypeOK
<1>1. LiveInit => LiveTypesInv
  BY DrainTypesInit, UpdTypesInit, ArtTypesInit DEF LiveInit, LiveTypesInv
<1>2. LiveTypesInv => LiveTypeOK
  BY UpdTypesAre, ArtTypesAre DEF LiveTypesInv, LiveTypeOK
<1> QED
  BY <1>1, <1>2, LiveTypesStep, PTL DEF LiveSpec
================================================================================
