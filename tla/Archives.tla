------------------------------ MODULE Archives ------------------------------
(***************************************************************************)
(* scripts/cli/backup.py and restore.py (kb-cli backup, kb-cli restore):   *)
(* archives of one MVP data directory, made while its server runs, and     *)
(* restored into another one whose server is stopped, with kills and       *)
(* repeated restores.                                                      *)
(*                                                                         *)
(* A document is its row id, which names its blob <id>.pdf too; the        *)
(* contents of the two directories differ, and are "here" and "there".     *)
(* The SQLite file of the running server lags behind its write-ahead log,  *)
(* which backup does not copy. A file copied while it is being written     *)
(* (a torn copy) is not modelled.                                          *)
(***************************************************************************)
EXTENDS Naturals, FiniteSets

CONSTANTS
    DocIds,         \* row ids
    MaxBackups,     \* bound: backups
    MaxRestores     \* bound: restores

VARIABLES
    rowsHere, blobsHere,    \* the running server: rows, and blobs on disk
    checkpointed,           \* its rows in kb_mvp.sqlite proper
    backupRun,              \* the backup under way: [pc, listed, rows, blobs]
    archive,                \* the last whole archive: [made, rows, blobs]
    backups,                \* backups so far
    owned,                  \* the documents the target had at first
    dbThere, blobsThere,    \* the target: its kb_mvp.sqlite [exists, rows], and blob -> content
    asideThere,             \* kb_files.bak-<stamp>: blob -> content, one per restore
    restoreRun,             \* the restore under way or the last one: [pc, mode, from, todo]
    restores

archiveVars == <<rowsHere, blobsHere, checkpointed, backupRun, archive, backups, owned, dbThere, blobsThere,
                 asideThere, restoreRun, restores>>
sourceVars == <<rowsHere, blobsHere, checkpointed, backups>>
targetVars == <<owned, dbThere, blobsThere, asideThere, restoreRun, restores>>

NoRows == [d \in {} |-> "here"]
There(ids) == [d \in ids |-> "there"]

ArchiveInit ==
    /\ rowsHere = {} /\ blobsHere = {} /\ checkpointed = {} /\ backups = 0
    /\ backupRun = [pc |-> "idle", listed |-> {}, rows |-> {}, blobs |-> {}]
    /\ archive = [made |-> FALSE, rows |-> {}, blobs |-> {}]
    /\ owned \in SUBSET DocIds /\ blobsThere = There(owned)
    /\ dbThere = [exists |-> owned # {}, rows |-> There(owned)]
    /\ asideThere = {} /\ restores = 0
    /\ restoreRun = [pc |-> "idle", mode |-> "replace", from |-> archive, todo |-> {}]

(* The server that is backed up                                            *)

AddRow(d) ==
    /\ d \notin rowsHere /\ rowsHere' = rowsHere \cup {d}
    /\ UNCHANGED <<blobsHere, checkpointed, backups, backupRun, archive, targetVars>>

AddBlob(d) ==
    /\ d \in rowsHere /\ blobsHere' = blobsHere \cup {d}
    /\ UNCHANGED <<rowsHere, checkpointed, backups, backupRun, archive, targetVars>>

RemoveBlob(d) ==
    /\ d \in blobsHere /\ blobsHere' = blobsHere \ {d}
    /\ UNCHANGED <<rowsHere, checkpointed, backups, backupRun, archive, targetVars>>

Checkpoint ==
    /\ checkpointed' = rowsHere
    /\ UNCHANGED <<rowsHere, blobsHere, backups, backupRun, archive, targetVars>>

(* backup                                                                  *)

\* The blobs are listed, and the file count of the manifest is theirs.
ListBlobs ==
    /\ backupRun.pc = "idle" /\ backups < MaxBackups
    /\ backups' = backups + 1
    /\ backupRun' = [pc |-> "db", listed |-> blobsHere, rows |-> {}, blobs |-> {}]
    /\ UNCHANGED <<rowsHere, blobsHere, checkpointed, archive, targetVars>>

PackDatabase ==
    /\ backupRun.pc = "db"
    /\ backupRun' = [backupRun EXCEPT !.pc = "blobs", !.rows = checkpointed]
    /\ UNCHANGED <<sourceVars, archive, targetVars>>

\* A listed blob that is gone ends the run, without the manifest a restore asks for.
PackBlob ==
    /\ backupRun.pc = "blobs"
    /\ \E d \in backupRun.listed \ backupRun.blobs : backupRun' =
         IF d \in blobsHere THEN [backupRun EXCEPT !.blobs = @ \cup {d}]
                            ELSE [backupRun EXCEPT !.pc = "idle"]
    /\ UNCHANGED <<sourceVars, archive, targetVars>>

PackManifest ==
    /\ backupRun.pc = "blobs" /\ backupRun.blobs = backupRun.listed
    /\ archive' = [made |-> TRUE, rows |-> backupRun.rows, blobs |-> backupRun.blobs]
    /\ backupRun' = [backupRun EXCEPT !.pc = "idle"]
    /\ UNCHANGED <<sourceVars, targetVars>>

(* restore                                                                 *)

\* Mutant: a replace leaves the blobs that are there where they are.
StartRestoreInPlace(mode) ==
    /\ restoreRun.pc \notin {"db", "blobs"} /\ archive.made /\ restores < MaxRestores
    /\ restores' = restores + 1
    /\ restoreRun' = [pc |-> "db", mode |-> mode, from |-> archive, todo |-> archive.blobs]
    /\ UNCHANGED <<sourceVars, backupRun, archive, owned, dbThere, blobsThere, asideThere>>

\* The confirmed start: "replace" into a directory that is not empty moves its blobs aside.
StartRestore(mode) ==
    /\ restoreRun.pc \notin {"db", "blobs"} /\ archive.made /\ restores < MaxRestores
    /\ restores' = restores + 1
    /\ LET aside == mode = "replace" /\ DOMAIN blobsThere # {}
       IN  /\ asideThere' = IF aside THEN asideThere \cup {blobsThere} ELSE asideThere
           /\ blobsThere' = IF aside THEN NoRows ELSE blobsThere
    /\ restoreRun' = [pc |-> "db", mode |-> mode, from |-> archive, todo |-> archive.blobs]
    /\ UNCHANGED <<sourceVars, backupRun, archive, owned, dbThere>>

\* kb_mvp.sqlite is the first member; a merge keeps the database that is there.
RestoreDatabase ==
    /\ restoreRun.pc = "db"
    /\ dbThere' = IF restoreRun.mode = "merge" /\ dbThere.exists THEN dbThere
                  ELSE [exists |-> TRUE, rows |-> [d \in restoreRun.from.rows |-> "here"]]
    /\ restoreRun' = [restoreRun EXCEPT !.pc = "blobs"]
    /\ UNCHANGED <<sourceVars, backupRun, archive, owned, blobsThere, asideThere, restores>>

RestoreBlob ==
    /\ restoreRun.pc = "blobs"
    /\ \E d \in restoreRun.todo :
         /\ blobsThere' = IF restoreRun.mode = "merge" /\ d \in DOMAIN blobsThere THEN blobsThere
                          ELSE [b \in DOMAIN blobsThere \cup {d} |->
                                  IF b = d THEN "here" ELSE blobsThere[b]]
         /\ restoreRun' = [restoreRun EXCEPT !.todo = @ \ {d}]
    /\ UNCHANGED <<sourceVars, backupRun, archive, owned, dbThere, asideThere, restores>>

RestoreEnds ==
    /\ restoreRun.pc = "blobs" /\ restoreRun.todo = {}
    /\ restoreRun' = [restoreRun EXCEPT !.pc = "done"]
    /\ UNCHANGED <<sourceVars, backupRun, archive, owned, dbThere, blobsThere, asideThere, restores>>

KillRestore ==
    /\ restoreRun.pc \in {"db", "blobs"}
    /\ restoreRun' = [restoreRun EXCEPT !.pc = "idle"]
    /\ UNCHANGED <<sourceVars, backupRun, archive, owned, dbThere, blobsThere, asideThere, restores>>

ArchiveNext ==
    \/ \E d \in DocIds : AddRow(d) \/ AddBlob(d) \/ RemoveBlob(d)
    \/ Checkpoint
    \/ ListBlobs \/ PackDatabase \/ PackBlob \/ PackManifest
    \/ \E mode \in {"replace", "merge"} : StartRestore(mode)
    \/ RestoreDatabase \/ RestoreBlob \/ RestoreEnds \/ KillRestore

-----------------------------------------------------------------------------
\* However often restores are run, killed and repeated, each original the target had is still
\* on its disk, under kb_files or in a directory moved aside; and a "replace" that ends leaves
\* the rows and the originals of its archive, nothing of what was there (restore.py:108-143).
RestoreIsExactAndLosesNothing ==
    /\ \A d \in owned : \E b \in {blobsThere} \cup asideThere : d \in DOMAIN b /\ b[d] = "there"
    /\ restoreRun.pc = "done" /\ restoreRun.mode = "replace" =>
         /\ dbThere.rows = [d \in restoreRun.from.rows |-> "here"]
         /\ blobsThere = [d \in restoreRun.from.blobs |-> "here"]
=============================================================================
