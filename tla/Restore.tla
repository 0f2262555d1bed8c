------------------------------- MODULE Restore -------------------------------
(***************************************************************************)
(* restore_cloud_backup replaces the whole database while the app runs     *)
(* (core/management/commands/restore_cloud_backup.py, core/backup.py), and *)
(* the uploaded app icon, whose URL browsers cache for a year              *)
(* (core/app_icon.py), is one of the things it replaces.                   *)
(*                                                                         *)
(* What is in the database is a record: which of the numbered commits made *)
(* by pages it has, the icon's row, the stored files (by primary key, which*)
(* SQLite never gives out again, the counter being in the database too),   *)
(* and the backup CloudBackupStatus names.  Its schema is left out.        *)
(* The bucket only gains objects, and no two backups share a second (see   *)
(* CloudBackup for when they do).                                          *)
(*                                                                         *)
(* Commits, requests for the icon and other restores may come between any  *)
(* two steps, also where the command asks that nobody use the app.         *)
(***************************************************************************)
EXTENDS Naturals

CONSTANTS
  Restorers,   \* runs of the command
  Readers,     \* requests for /app-icon.png
  Versions,    \* images, and the versions their hashes give them
  Keys,        \* object keys in the bucket
  Old,         \* an object that is there from the start
  None,
  MaxCommits,  \* bound: commits
  MaxFiles     \* bound: icons uploaded into one database

Commits == 1 .. MaxCommits
FileKeys == 1 .. MaxFiles

Icon == [version : Versions, file : FileKeys]

Content ==
  [commits : SUBSET Commits, icon : Icon \cup {None},
   files : [FileKeys -> Versions \cup {None}], used : 0 .. MaxFiles,
   recorded : Keys \cup {None}]

ASSUME RestoreAssumption ==
  /\ None \notin Versions \cup Keys \cup Content
  /\ Old \in Keys
  /\ MaxCommits \in Nat
  /\ MaxFiles \in Nat

VARIABLES
  database,  \* the live database
  bucket,    \* what each object holds (None: there is no such object)
  pc,        \* where each run of the command is
  held,      \* the object it downloaded
  copy,      \* its copy of the current database
  current,   \* the key it uploads that under
  status,    \* the CloudBackupStatus it puts back
  made,      \* how many commits were ever made
  since,     \* those made since each run's copy
  warned,    \* those lost as the command warned they would be
  reading    \* the row each request for the icon has read, the ?v= it is for,
             \* and whether the database has been replaced since

run == <<pc, held, copy, current, status, since>>
vars == <<database, bucket, run, made, warned, reading>>

Empty ==
  [commits |-> {}, icon |-> None, files |-> [f \in FileKeys |-> None],
   used |-> 0, recorded |-> None]

Init ==
  /\ database = Empty
  /\ bucket = [k \in Keys |-> IF k = Old THEN Empty ELSE None]
  /\ pc = [r \in Restorers |-> "idle"]
  /\ held = [r \in Restorers |-> None]
  /\ copy = [r \in Restorers |-> None]
  /\ current = [r \in Restorers |-> None]
  /\ status = [r \in Restorers |-> None]
  /\ since = [r \in Restorers |-> {}]
  /\ made = 0
  /\ warned = {}
  /\ reading = [q \in Readers |-> None]

-----------------------------------------------------------------------------
(* The app.                                                                *)

(* Any page that writes (external).                                        *)
Commit ==
  /\ made < MaxCommits
  /\ made' = made + 1
  /\ database' = [database EXCEPT !.commits = @ \cup {made + 1}]
  /\ since' = [r \in Restorers |-> IF copy[r] = None THEN {} ELSE since[r] \cup {made + 1}]
  /\ UNCHANGED <<bucket, pc, held, copy, current, status, warned, reading>>

(* reset_icon(): the row goes, and delete_stored_files() its file.         *)
WithoutIcon(d) ==
  IF d.icon = None THEN d
  ELSE [d EXCEPT !.icon = None, !.files[d.icon.file] = None]

(* Mutant: the new image takes the place of the old in the stored file.    *)
OverwrittenFile(d) == IF d.icon = None THEN d.used + 1 ELSE d.icon.file

(* DatabaseStorage._save() creates a row.                                  *)
NewFile(d) == d.used + 1

(* save_icon(), one transaction.                                           *)
SaveIcon(v) ==
  /\ database.used < MaxFiles
  /\ LET f == NewFile(database)
     IN database' = [WithoutIcon(database) EXCEPT
                       !.icon = [version |-> v, file |-> f],
                       !.files[f] = v,
                       !.used = IF f > @ THEN f ELSE @]
  /\ UNCHANGED <<bucket, run, made, warned, reading>>

ResetIcon ==
  /\ database' = WithoutIcon(database)
  /\ UNCHANGED <<bucket, run, made, warned, reading>>

(* app_icon(): the row is read, and then its file, outside a transaction.  *)
(* With no row it is a redirect that is not to be cached.                  *)
ReadRow(q, v) ==
  /\ reading[q] = None
  /\ database.icon # None
  /\ reading' = [reading EXCEPT ![q] = [asked |-> v, icon |-> database.icon,
                                                 replaced |-> FALSE]]
  /\ UNCHANGED <<database, bucket, run, made, warned>>

(* Only a response for the current version can be cached for a year.       *)
Cacheable(asked, icon) == asked = icon.version

(* The response: what is in the file now (None: it is gone, an error), and *)
(* whether browsers may keep it.                                           *)
Response(q) ==
  [image |-> database.files[reading[q].icon.file],
   kept |-> Cacheable(reading[q].asked, reading[q].icon)]

Answer(q) ==
  /\ reading[q] # None
  /\ reading' = [reading EXCEPT ![q] = None]
  /\ UNCHANGED <<database, bucket, run, made, warned>>

-----------------------------------------------------------------------------
(* handle() of restore_cloud_backup.                                       *)

Move(r, from, to) ==
  /\ pc[r] = from
  /\ pc' = [pc EXCEPT ![r] = to]

(* download_cloud_backup(), and check_backup_file() finds no fault.        *)
Download(r, k) ==
  /\ Move(r, "idle", "confirm")
  /\ bucket[k] # None
  /\ held' = [held EXCEPT ![r] = bucket[k]]
  /\ UNCHANGED <<database, bucket, copy, current, status, since, made, warned, reading>>

(* The answer is yes, or --no-input: run_cloud_backup() copies the database*)
(* and names the object.                                                   *)
Confirm(r, k) ==
  /\ Move(r, "confirm", "upload")
  /\ bucket[k] = None
  /\ \A s \in Restorers : current[s] # k
  /\ copy' = [copy EXCEPT ![r] = database]
  /\ current' = [current EXCEPT ![r] = k]
  /\ since' = [since EXCEPT ![r] = {}]
  /\ UNCHANGED <<database, bucket, held, status, made, warned, reading>>

(* Mutant: a failure to upload is caught with the failure to record.       *)
AfterAnyError(outcome) == "keep status"

(* CloudBackupStatusUpdateError is raised once the backup is uploaded, so  *)
(* the restore goes on; any other error ends the command.                  *)
AfterBackup(outcome) == IF outcome = "not uploaded" THEN "idle" ELSE "keep status"

(* What a run that is over leaves.                                         *)
Over(r) ==
  /\ held' = [held EXCEPT ![r] = None]
  /\ copy' = [copy EXCEPT ![r] = None]
  /\ current' = [current EXCEPT ![r] = None]
  /\ status' = [status EXCEPT ![r] = None]
  /\ since' = [since EXCEPT ![r] = {}]

Upload(r) ==
  /\ Move(r, "upload", "record")
  /\ bucket' = [bucket EXCEPT ![current[r]] = copy[r]]
  /\ UNCHANGED <<database, held, copy, current, status, since, made, warned, reading>>

UploadFails(r) ==
  /\ Move(r, "upload", AfterBackup("not uploaded"))
  /\ IF pc'[r] = "idle" THEN Over(r) ELSE UNCHANGED <<held, copy, current, status, since>>
  /\ UNCHANGED <<database, bucket, made, warned, reading>>

Record(r) ==
  /\ Move(r, "record", AfterBackup("uploaded"))
  /\ database' = [database EXCEPT !.recorded = current[r]]
  /\ UNCHANGED <<bucket, held, copy, current, status, since, made, warned, reading>>

RecordFails(r) ==
  /\ Move(r, "record", AfterBackup("not recorded"))
  /\ UNCHANGED <<database, bucket, held, copy, current, status, since, made, warned, reading>>

KeepStatus(r) ==
  /\ Move(r, "keep status", "replace")
  /\ status' = [status EXCEPT ![r] = database.recorded]
  /\ UNCHANGED <<database, bucket, held, copy, current, since, made, warned, reading>>

(* restore_database() is one transaction: what was committed since the     *)
(* copy is lost, as _confirm() says.  It does not wait for requests, and   *)
(* one may be between its two reads.                                       *)
Replace(r) ==
  /\ Move(r, "replace", "put back")
  /\ database' = held[r]
  /\ warned' = warned \cup since[r]
  /\ reading' = [q \in Readers |->
       IF reading[q] = None THEN None ELSE [reading[q] EXCEPT !.replaced = TRUE]]
  /\ UNCHANGED <<bucket, held, copy, current, status, since, made>>

(* The row is deleted, and saved again as it was kept.                     *)
PutBack(r) ==
  /\ Move(r, "put back", "migrate")
  /\ database' = [database EXCEPT !.recorded = status[r]]
  /\ UNCHANGED <<bucket, held, copy, current, status, since, made, warned, reading>>

(* migrate changes the schema, if it is from before a migration.           *)
Migrate(r) ==
  /\ Move(r, "migrate", "idle")
  /\ Over(r)
  /\ UNCHANGED <<database, bucket, made, warned, reading>>

(* A step raises and changes nothing, the answer is not yes, or the command*)
(* is killed.                                                              *)
GiveUp(r) ==
  /\ pc[r] # "idle"
  /\ pc' = [pc EXCEPT ![r] = "idle"]
  /\ Over(r)
  /\ UNCHANGED <<database, bucket, made, warned, reading>>

(* The Machine starts again: runs and requests are gone (external).        *)
Restart ==
  /\ pc' = [r \in Restorers |-> "idle"]
  /\ held' = [r \in Restorers |-> None]
  /\ copy' = [r \in Restorers |-> None]
  /\ current' = [r \in Restorers |-> None]
  /\ status' = [r \in Restorers |-> None]
  /\ since' = [r \in Restorers |-> {}]
  /\ reading' = [q \in Readers |-> None]
  /\ UNCHANGED <<database, bucket, made, warned>>

-----------------------------------------------------------------------------
App ==
  \/ Commit
  \/ ResetIcon
  \/ \E v \in Versions : SaveIcon(v) \/ \E q \in Readers : ReadRow(q, v)
  \/ \E q \in Readers : Answer(q)

Command(r) ==
  \/ \E k \in Keys : Download(r, k) \/ Confirm(r, k)
  \/ Upload(r) \/ UploadFails(r) \/ Record(r) \/ RecordFails(r)
  \/ KeepStatus(r) \/ Replace(r) \/ PutBack(r) \/ Migrate(r) \/ GiveUp(r)

Next == App \/ Restart \/ \E r \in Restorers : Command(r)

Spec == Init /\ [][Next]_vars

-----------------------------------------------------------------------------
(* INVARIANT.  Whatever fails or is killed on the way, and whatever other  *)
(* restore runs beside it, each commit ever made is in the database, or in *)
(* an object of the bucket that can be restored, or is one the command     *)
(* warned of: made between its backup and its restore (lines 13 to 19 and  *)
(* 90 to 93 of the command).                                               *)
RestoreCanBeUndone ==
  \A c \in 1 .. made :
    \/ c \in database.commits \cup warned
    \/ \E k \in Keys : bucket[k] # None /\ c \in bucket[k].commits

KeepsItsVersion(q) ==
  LET response == Response(q)
  IN response.kept => response.image \in {reading[q].asked, None}

(* INVARIANT.  What a request would answer and browsers keep for a year as *)
(* a version of the icon is that image, however uploads and resets come    *)
(* between its two reads, unless a restore comes between them; and however *)
(* uploads, resets, backups and restores follow each other, every icon's   *)
(* row has its image, in the bucket as in the database.                    *)
CachedIconIsItsVersion ==
  /\ \A q \in Readers :
       reading[q] # None /\ ~reading[q].replaced => KeepsItsVersion(q)
  /\ \A d \in {database} \cup {bucket[k] : k \in Keys} :
       d # None /\ d.icon # None => d.files[d.icon.file] = d.icon.version

(* INVARIANT, which does not hold.  A response for the current version is  *)
(* that version, and can be cached for a year (core/app_icon.py, lines 16  *)
(* and 17), with a restore as well: no request sees a mix of the data      *)
(* before it and after (README.md, lines 354 and 355).                     *)
NoRequestSeesAMix ==
  \A q \in Readers : reading[q] # None => KeepsItsVersion(q)

=============================================================================
