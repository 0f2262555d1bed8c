---------------------------- MODULE CloudBackup ----------------------------
(***************************************************************************)
(* Cloud backups (core/backup.py, and handle() of the cloud_backup         *)
(* command) against the web app's commits and SQLite's write-ahead log:    *)
(* when is `cloud_backup --if-changed` right to skip?                      *)
(*                                                                         *)
(* What a copy or a bucket object holds matters only so far as it has      *)
(* every commit yet made, so the model keeps just that: a commit makes     *)
(* every copy and object out of date, and a new copy is up to date.  The   *)
(* row a backup itself writes to CloudBackupStatus is not counted (it is   *)
(* never in its own backup).  Modification times and object names are      *)
(* tokens, compared only for equality.  A writing checkpoint is taken to   *)
(* give the file a modification time it did not have before, and a time or *)
(* a name nothing refers to any more may come round again: an object so    *)
(* forgotten counts as not there.                                          *)
(*                                                                         *)
(* Each element of Backups is a process (or a web request) that may make   *)
(* one backup after another.  Its steps are the reads and writes others    *)
(* can come between.  Fixed here: the bucket and the settings              *)
(* (_backup_destination never changes).                                    *)
(***************************************************************************)
EXTENDS FiniteSets

CONSTANTS
  Backups,          \* what makes backups
  Mtimes,           \* modification times of the database file
  Keys,             \* object keys, one for each second
  None,             \* no time, or no key
  OneBackupASecond  \* whether backups never share a second (see TakenName)

ASSUME BackupAssumption ==
  /\ None \notin Mtimes \cup Keys
  /\ OneBackupASecond \in BOOLEAN
  /\ Mtimes # {}
  /\ Keys # {}

VARIABLES
  wal,      \* the log: "empty", "frames" not yet in the file, or "copied" to it
  mtime,    \* the database file's modification time
  second,   \* the object key of a backup named now
  whole,    \* the objects in the bucket that have every commit
  state,    \* the backup state file
  pc,       \* where each backup is
  found,    \* the time in the state file each has read
  sig,      \* the file's time in each one's signature (None: no signature)
  copy,     \* the backups whose temporary copy has every commit
  key,      \* each one's object key
  overtaken \* those since whose data_version another connection committed

database == <<wal, mtime>>
locals == <<found, sig, copy, key, overtaken>>
vars == <<wal, mtime, second, whole, state, pc, locals>>

State == [mtime : Mtimes, key : Keys]
NoState == [mtime |-> None, key |-> None]

(* Before run_cloud_backup: the process has opened no connection yet.      *)
Unconnected == {"idle", "read state", "look at file", "look at log", "start"}

(* Run_cloud_backup once it has its object key.                            *)
Named == {"upload", "status", "checkpoint", "sign file", "sign log",
          "compare", "write state", "unlink"}

Places == Unconnected \cup Named \cup {"copy", "name"}

TypeOK ==
  /\ wal \in {"empty", "frames", "copied"}
  /\ mtime \in Mtimes
  /\ second \in Keys
  /\ whole \subseteq Keys
  /\ state \in State \cup {NoState}
  /\ pc \in [Backups -> Places]
  /\ found \in [Backups -> Mtimes \cup {None}]
  /\ sig \in [Backups -> Mtimes \cup {None}]
  /\ copy \subseteq Backups
  /\ key \in [Backups -> Keys \cup {None}]
  /\ overtaken \subseteq Backups
  /\ \A p \in Backups : /\ pc[p] \in Named => key[p] \in Keys
                        /\ pc[p] = "write state" => sig[p] \in Mtimes

(* A database that no backup has been made of. *)
Init ==
  /\ wal = "empty"
  /\ mtime \in Mtimes
  /\ second \in Keys
  /\ whole = {}
  /\ state = NoState
  /\ pc = [p \in Backups |-> "idle"]
  /\ found = [p \in Backups |-> None]
  /\ sig = [p \in Backups |-> None]
  /\ copy = {}
  /\ key = [p \in Backups |-> None]
  /\ overtaken = {}

-----------------------------------------------------------------------------
(* The database, as SQLite keeps it in WAL mode (external).                *)

(* The times and the keys that nothing refers to.                          *)
FreshTimes ==
  Mtimes \ ({mtime, state.mtime} \cup {found[p] : p \in Backups}
                                 \cup {sig[p] : p \in Backups})
FreshKeys == Keys \ ({second, state.key} \cup {key[p] : p \in Backups})

(* The log's frames are copied into the file, if there are any.            *)
CopyFrames ==
  IF wal = "frames" THEN mtime' \in FreshTimes ELSE UNCHANGED mtime

(* Anything else commits: a page of the app, a migration, a shell.         *)
Commit ==
  /\ wal' = "frames"
  /\ whole' = {}
  /\ copy' = {}
  /\ overtaken' = Backups
  /\ UNCHANGED <<mtime, second, state, pc, found, sig, key>>

(* A commit's automatic checkpoint, which readers may stop part way.  The  *)
(* log keeps its size.                                                     *)
AutoCheckpoint ==
  /\ wal = "frames"
  /\ CopyFrames
  /\ wal' \in {"frames", "copied"}
  /\ UNCHANGED <<second, whole, state, pc, locals>>

(* The last connection closes: SQLite checkpoints, and deletes the log.    *)
(* (Django closes its connection after each request.)                      *)
LastConnectionCloses ==
  /\ wal # "empty"
  /\ \A p \in Backups : pc[p] \in Unconnected
  /\ CopyFrames
  /\ wal' = "empty"
  /\ UNCHANGED <<second, whole, state, pc, locals>>

NextSecond ==
  /\ second' \in FreshKeys
  /\ whole' = whole \ {second'}
  /\ UNCHANGED <<database, state, pc, locals>>

-----------------------------------------------------------------------------
(* handle() of cloud_backup, with --if-changed.                            *)

Move(p, from, to) ==
  /\ pc[p] = from
  /\ pc' = [pc EXCEPT ![p] = to]

BeginIfChanged(p) ==
  /\ Move(p, "idle", "read state")
  /\ UNCHANGED <<database, second, whole, state, locals>>

(* The same without it, as "Run Backup Now" does.                          *)
BeginNow(p) ==
  /\ Move(p, "idle", "start")
  /\ UNCHANGED <<database, second, whole, state, locals>>

(* database_changed(): True without a state file (or one that is damaged). *)
ReadState(p) ==
  /\ Move(p, "read state", IF state = NoState THEN "start" ELSE "look at file")
  /\ found' = [found EXCEPT ![p] = state.mtime]
  /\ UNCHANGED <<database, second, whole, state, sig, copy, key, overtaken>>

(* database_signature() stats the file, and then the log.                  *)
LookAtFile(p) ==
  /\ Move(p, "look at file", "look at log")
  /\ sig' = [sig EXCEPT ![p] = mtime]
  /\ UNCHANGED <<database, second, whole, state, found, copy, key, overtaken>>

(* Mutant: the signature leaves out the log.                               *)
SignatureOfFile(p) == sig[p]

(* database_signature()'s result, once the log is looked at.               *)
Signature(p) == IF wal = "empty" THEN sig[p] ELSE None

Unchanged(p) == Signature(p) # None /\ Signature(p) = found[p]

(* database_changed()'s answer: skip the backup, or go ahead.              *)
LookAtLog(p) ==
  /\ Move(p, "look at log", IF Unchanged(p) THEN "idle" ELSE "start")
  /\ found' = [found EXCEPT ![p] = None]
  /\ sig' = [sig EXCEPT ![p] = None]
  /\ UNCHANGED <<database, second, whole, state, copy, key, overtaken>>

-----------------------------------------------------------------------------
(* run_cloud_backup().                                                     *)

ReadDataVersion(p) ==
  /\ Move(p, "start", "copy")
  /\ overtaken' = overtaken \ {p}
  /\ UNCHANGED <<database, second, whole, state, found, sig, copy, key>>

(* backup_database(): one read transaction, which sees the log's frames.   *)
CopyDatabase(p) ==
  /\ Move(p, "copy", "name")
  /\ copy' = copy \cup {p}
  /\ UNCHANGED <<database, second, whole, state, found, sig, key, overtaken>>

(* The object is named for the second the copy was ready.                  *)
ObjectKey(p) == second

(* Another backup in progress has the name, or the one last recorded had.  *)
TakenName(k, p) == k = state.key \/ \E q \in Backups \ {p} : key[q] = k

NameObject(p) ==
  /\ Move(p, "name", "upload")
  /\ OneBackupASecond => ~TakenName(ObjectKey(p), p)
  /\ key' = [key EXCEPT ![p] = ObjectKey(p)]
  /\ UNCHANGED <<database, second, whole, state, found, sig, copy, overtaken>>

(* upload_fileobj(): the object appears whole, replacing any of that name. *)
Upload(p) ==
  /\ Move(p, "upload", "status")
  /\ whole' = IF p \in copy THEN whole \cup {key[p]} ELSE whole \ {key[p]}
  /\ copy' = copy \ {p}
  /\ UNCHANGED <<database, second, state, found, sig, key, overtaken>>

(* Mutant: a backup's own commit counts against it.                        *)
OvertakenWithOwn(p) == Backups

(* A commit by p changes the data_version of every connection but its own. *)
OvertakenBy(p) == Backups \ {p}

(* CloudBackupStatus.objects.update_or_create() commits.                   *)
RecordStatus(p) ==
  /\ Move(p, "status", "checkpoint")
  /\ wal' = "frames"
  /\ overtaken' = overtaken \cup OvertakenBy(p)
  /\ UNCHANGED <<mtime, second, whole, state, found, sig, copy, key>>

-----------------------------------------------------------------------------
(* _record_backup_state().                                                 *)

(* PRAGMA wal_checkpoint(TRUNCATE).                                        *)
Checkpoint(p) ==
  /\ Move(p, "checkpoint", "sign file")
  /\ CopyFrames
  /\ wal' = "empty"
  /\ UNCHANGED <<second, whole, state, locals>>

(* Other connections' transactions keep it from finishing, which it        *)
(* reports in its result: nothing looks at that.                           *)
CheckpointBlocked(p) ==
  /\ Move(p, "checkpoint", "sign file")
  /\ UNCHANGED <<wal, mtime, second, whole, state, locals>>

SignFile(p) ==
  /\ Move(p, "sign file", "sign log")
  /\ sig' = [sig EXCEPT ![p] = mtime]
  /\ UNCHANGED <<database, second, whole, state, found, copy, key, overtaken>>

SignLog(p) ==
  /\ Move(p, "sign log", "compare")
  /\ sig' = [sig EXCEPT ![p] = Signature(p)]
  /\ UNCHANGED <<database, second, whole, state, found, copy, key, overtaken>>

(* Mutant: the state is recorded whatever was committed meanwhile.         *)
RecordableAnyhow(p) == sig[p] # None

(* Mutant: the signature that was not to be had is recorded all the same.  *)
RecordableUnsigned(p) == p \notin overtaken

(* There is a signature, and data_version has not changed.                 *)
Recordable(p) == sig[p] # None /\ p \notin overtaken

CompareDataVersion(p) ==
  /\ Move(p, "compare", IF Recordable(p) THEN "write state" ELSE "unlink")
  /\ UNCHANGED <<database, second, whole, state, locals>>

(* What is left of a backup that is over.                                  *)
Forget(p) ==
  /\ found' = [found EXCEPT ![p] = None]
  /\ sig' = [sig EXCEPT ![p] = None]
  /\ copy' = copy \ {p}
  /\ key' = [key EXCEPT ![p] = None]
  /\ overtaken' = overtaken \ {p}

(* write_status() replaces the state file in one rename.                   *)
WriteState(p) ==
  /\ Move(p, "write state", "idle")
  /\ state' = [mtime |-> sig[p], key |-> key[p]]
  /\ Forget(p)
  /\ UNCHANGED <<database, second, whole>>

UnlinkState(p) ==
  /\ Move(p, "unlink", "idle")
  /\ state' = NoState
  /\ Forget(p)
  /\ UNCHANGED <<database, second, whole>>

-----------------------------------------------------------------------------
(* What can go wrong.                                                      *)

(* An OSError or a database error while recording: the old record goes.    *)
CannotRecord(p) ==
  /\ pc[p] \in {"checkpoint", "sign file", "sign log", "compare", "write state"}
  /\ pc' = [pc EXCEPT ![p] = "unlink"]
  /\ UNCHANGED <<database, second, whole, state, locals>>

(* The backup raises (a full disk, the network, CloudBackupStatusUpdate-   *)
(* Error, an unlink that fails) or is killed (after auto_backup's timeout, *)
(* with the Machine): it is over, and the state file stays as it was.      *)
Fail(p) ==
  /\ pc[p] # "idle"
  /\ pc' = [pc EXCEPT ![p] = "idle"]
  /\ Forget(p)
  /\ UNCHANGED <<database, second, whole, state>>

-----------------------------------------------------------------------------
(* A backup's next step, when nothing goes wrong.                          *)
Step(p) ==
  \/ ReadState(p) \/ LookAtFile(p) \/ LookAtLog(p)
  \/ ReadDataVersion(p) \/ CopyDatabase(p) \/ NameObject(p) \/ Upload(p)
  \/ RecordStatus(p) \/ Checkpoint(p) \/ SignFile(p) \/ SignLog(p)
  \/ CompareDataVersion(p) \/ WriteState(p) \/ UnlinkState(p)

Trouble(p) == CheckpointBlocked(p) \/ CannotRecord(p) \/ Fail(p)

SQLite == Commit \/ AutoCheckpoint \/ LastConnectionCloses

Next ==
  \/ SQLite
  \/ NextSecond
  \/ \E p \in Backups : BeginIfChanged(p) \/ BeginNow(p) \/ Step(p) \/ Trouble(p)

Spec == Init /\ [][Next]_vars

(* The idle watchdog starts automatic backups again and again, and a       *)
(* running one goes on or fails (auto_backup.py kills a hung one).         *)
Fairness ==
  \A p \in Backups : WF_vars(BeginIfChanged(p)) /\ WF_vars(Step(p))

FairSpec == Spec /\ Fairness

-----------------------------------------------------------------------------
(* INVARIANT.  While the database still has the signature in the state     *)
(* file, the object it names has every commit (the argument of the comment *)
(* at lines 175 to 184), whatever else commits, checkpoints, is backing up *)
(* or fails: what _record_backup_state() writes is never too new, and a    *)
(* record that outlives a failed backup is still true.                     *)
RecordIsTrue ==
  state # NoState /\ wal = "empty" /\ mtime = state.mtime => state.key \in whole

(* PROPERTY (refuted).  database_changed() is "True unless that's certain  *)
(* not to be so": a skip means the bucket has every commit.                *)
SkipsOnlyWhatIsBackedUp ==
  [][\A p \in Backups :
       pc[p] = "look at log" /\ LookAtLog(p) /\ pc'[p] = "idle" => whole # {}]_vars

(* From some time on nobody commits, only automatic backups start, and no  *)
(* step is one that only trouble explains.                                 *)
SettlesDown ==
  <>[][~Commit /\ \A p \in Backups : ~BeginNow(p) /\ (Trouble(p) => Step(p))]_vars

(* PROPERTY.  A wrong skip is put right: once commits and failures stop,   *)
(* automatic backups bring every commit to the bucket.                     *)
EveryCommitReachesBucket == SettlesDown => <>[](whole # {})

(* PROPERTY.  "A Machine that's started and stopped again without anyone   *)
(* changing anything adds no backups" (README, Automatic backups): once    *)
(* commits and failures stop, so do uploads; a backup's own write to       *)
(* CloudBackupStatus does not set off the next.                            *)
QuietDatabaseAddsNoBackups ==
  SettlesDown => <>[][\A p \in Backups : ~Upload(p)]_vars
=============================================================================
