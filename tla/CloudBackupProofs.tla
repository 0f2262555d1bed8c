------------------------- MODULE CloudBackupProofs -------------------------
(***************************************************************************)
(* That the backup state file never vouches for an object that lacks a     *)
(* commit, for any number of backups.                                      *)
(***************************************************************************)
EXTENDS CloudBackup, TLAPS

USE BackupAssumption


(* Between the upload and the comparison of data_version.                  *)
Recording == {"status", "checkpoint", "sign file", "sign log", "compare"}

(* No two backups, and no backup and the record, have the same object.     *)
NamesDiffer ==
  \A p \in Backups :
    key[p] # None => key[p] # state.key /\ \A q \in Backups \ {p} : key[q] # key[p]

(* A backup that nobody overtook has every commit, first in its copy and   *)
(* then in its object.                                                     *)
CopyIsWhole ==
  \A p \in Backups : pc[p] \in {"name", "upload"} /\ p \notin overtaken => p \in copy

ObjectIsWhole ==
  \A p \in Backups : pc[p] \in Recording /\ p \notin overtaken => key[p] \in whole

(* The file with time t in it has been given nothing since, and nothing is *)
(* waiting in the log to be given to it.                                   *)
StillAsOf(t) == t = mtime /\ wal # "frames"

(* What is about to be recorded, and what has been, is true.               *)
WritesTruth ==
  \A p \in Backups :
    pc[p] = "write state" /\ StillAsOf(sig[p]) => key[p] \in whole

RecordHolds == state # NoState /\ StillAsOf(state.mtime) => state.key \in whole

BackupInv == NamesDiffer /\ CopyIsWhole /\ ObjectIsWhole /\ WritesTruth /\ RecordHolds

-----------------------------------------------------------------------------
(* A checkpoint leaves the file's time alone, or gives it one that nothing *)
(* refers to.                                                              *)
LEMMA CopyFramesGives ==
  ASSUME TypeOK, CopyFrames
  PROVE  /\ mtime' \in Mtimes
         /\ wal # "frames" => mtime' = mtime
         /\ wal = "frames" => /\ mtime' # state.mtime
                              /\ \A p \in Backups : mtime' # sig[p]
BY DEF TypeOK, CopyFrames, FreshTimes

(* What the state file may hold.                                           *)
LEMMA RecordTypes ==
  ASSUME TypeOK
  PROVE  state.mtime \in Mtimes \cup {None} /\ state.key \in Keys \cup {None}
<1>1. state \in State \/ state = NoState
  BY DEF TypeOK
<1>2. CASE state \in State
  BY <1>2 DEF State
<1>3. CASE state = NoState
  BY <1>3 DEF NoState
<1> QED BY <1>1, <1>2, <1>3

(* The types hold at first.                                                *)
LEMMA InitTypes == Init => TypeOK
BY DEF Init, TypeOK, NoState, Named, Places, Unconnected

(* Forgetting a backup keeps the types of what it kept.                    *)
LEMMA ForgetTypes ==
  ASSUME TypeOK, NEW p \in Backups, Forget(p)
  PROVE  /\ found' \in [Backups -> Mtimes \cup {None}]
         /\ sig' \in [Backups -> Mtimes \cup {None}]
         /\ copy' \subseteq Backups
         /\ key' \in [Backups -> Keys \cup {None}]
         /\ overtaken' \subseteq Backups
         /\ \A q \in Backups \ {p} : key'[q] = key[q] /\ sig'[q] = sig[q]
BY DEF TypeOK, Forget

(* What SQLite and the clock do keeps the types.                           *)
LEMMA DatabaseTypes ==
  ASSUME TypeOK, SQLite \/ NextSecond
  PROVE  TypeOK'
<1>1. CASE Commit
  BY <1>1 DEF TypeOK, Commit
<1>2. CASE AutoCheckpoint
  BY <1>2, CopyFramesGives DEF TypeOK, AutoCheckpoint, locals
<1>3. CASE LastConnectionCloses
  BY <1>3, CopyFramesGives DEF TypeOK, LastConnectionCloses, locals
<1>4. CASE NextSecond
  BY <1>4 DEF TypeOK, NextSecond, FreshKeys, database, locals
<1> QED BY <1>1, <1>2, <1>3, <1>4 DEF SQLite

(* So does a backup that begins.                                           *)
LEMMA BeginTypes ==
  ASSUME TypeOK, NEW p \in Backups, BeginIfChanged(p) \/ BeginNow(p)
  PROVE  TypeOK'
BY DEF TypeOK, BeginIfChanged, BeginNow, Move, Places, Unconnected, Named,
       database, locals

(* So does each step of one.                                               *)
LEMMA StepTypes ==
  ASSUME TypeOK, NEW p \in Backups, Step(p)
  PROVE  TypeOK'
<1> USE DEF TypeOK, Move, Places, Unconnected, Named, database, locals
<1>1. CASE ReadState(p)
  <2> DEFINE next == IF state = NoState THEN "start" ELSE "look at file"
  <2>1. state.mtime \in Mtimes \cup {None}
    BY RecordTypes
  <2>2. next \in Places /\ next \notin Named
    OBVIOUS
  <2>3. pc' = [pc EXCEPT ![p] = next]
    BY <1>1 DEF ReadState
  <2> HIDE DEF next
  <2> QED BY <1>1, <2>1, <2>2, <2>3 DEF ReadState
<1>2. CASE LookAtFile(p)         BY <1>2 DEF LookAtFile
<1>3. CASE LookAtLog(p)          BY <1>3 DEF LookAtLog
<1>4. CASE ReadDataVersion(p)    BY <1>4 DEF ReadDataVersion
<1>5. CASE CopyDatabase(p)       BY <1>5 DEF CopyDatabase
<1>6. CASE NameObject(p)         BY <1>6 DEF NameObject, ObjectKey
<1>7. CASE Upload(p)             BY <1>7 DEF Upload
<1>8. CASE RecordStatus(p)       BY <1>8 DEF RecordStatus, OvertakenBy
<1>9. CASE Checkpoint(p)         BY <1>9, CopyFramesGives DEF Checkpoint
<1>10. CASE SignFile(p)          BY <1>10 DEF SignFile
<1>11. CASE SignLog(p)           BY <1>11 DEF SignLog, Signature
<1>12. CASE CompareDataVersion(p)
  BY <1>12 DEF CompareDataVersion, Recordable
<1>13. CASE WriteState(p)        BY <1>13, ForgetTypes DEF WriteState, State
<1>14. CASE UnlinkState(p)       BY <1>14, ForgetTypes DEF UnlinkState
<1> QED BY <1>1, <1>2, <1>3, <1>4, <1>5, <1>6, <1>7, <1>8, <1>9, <1>10,
           <1>11, <1>12, <1>13, <1>14 DEF Step

(* And so does trouble.                                                    *)
LEMMA TroubleTypes ==
  ASSUME TypeOK, NEW p \in Backups, Trouble(p)
  PROVE  TypeOK'
<1> USE DEF TypeOK, Move, Places, Unconnected, Named, database, locals
<1>1. CASE CheckpointBlocked(p)  BY <1>1 DEF CheckpointBlocked
<1>2. CASE CannotRecord(p)       BY <1>2 DEF CannotRecord
<1>3. CASE Fail(p)               BY <1>3, ForgetTypes DEF Fail
<1> QED BY <1>1, <1>2, <1>3 DEF Trouble

(* Every value the backups keep has its type, and a backup that has named  *)
(* its object, or is about to record its signature, has one (run_cloud_    *)
(* backup and _record_backup_state, lines 140 to 249).                     *)
THEOREM TypeCorrect == Spec => []TypeOK
<1>1. Init => TypeOK
  BY InitTypes
<1>2. TypeOK /\ [Next]_vars => TypeOK'
  <2> SUFFICES ASSUME TypeOK, [Next]_vars PROVE TypeOK'
    OBVIOUS
  <2>1. CASE UNCHANGED vars
    BY <2>1 DEF vars, locals, TypeOK
  <2>2. CASE Next
    BY <2>2, DatabaseTypes, BeginTypes, StepTypes, TroubleTypes DEF Next
  <2> QED BY <2>1, <2>2
<1> QED BY <1>1, <1>2, PTL DEF Spec

-----------------------------------------------------------------------------
(* At first nothing is named, copied or recorded.                          *)
LEMMA InitBackupInv == Init => BackupInv
BY DEF Init, BackupInv, NamesDiffer, CopyIsWhole, ObjectIsWhole, Recording,
       WritesTruth, RecordHolds

(* Commits overtake every backup; the checkpoint that follows gives the    *)
(* file a time that no one has recorded or is about to.                    *)
LEMMA DatabaseInv ==
  ASSUME TypeOK, BackupInv, SQLite \/ NextSecond
  PROVE  BackupInv'
<1> USE DEF BackupInv, locals, database
<1>1. CASE Commit
  BY <1>1 DEF Commit, TypeOK, NamesDiffer, CopyIsWhole, ObjectIsWhole,
              WritesTruth, RecordHolds, StillAsOf
<1>2. ASSUME CopyFrames, wal' \in {"empty", "frames", "copied"},
             wal' = "frames" => wal = "frames",
             UNCHANGED <<second, whole, state, pc, locals>>
      PROVE  BackupInv'
  <2>1. NamesDiffer' /\ CopyIsWhole' /\ ObjectIsWhole'
    BY <1>2 DEF NamesDiffer, CopyIsWhole, ObjectIsWhole
  <2>2. WritesTruth'
    BY <1>2, CopyFramesGives DEF WritesTruth, StillAsOf
  <2>3. RecordHolds'
    BY <1>2, CopyFramesGives DEF RecordHolds, StillAsOf
  <2> QED BY <2>1, <2>2, <2>3
<1>3. CASE AutoCheckpoint
  BY <1>2, <1>3 DEF AutoCheckpoint
<1>4. CASE LastConnectionCloses
  BY <1>2, <1>4 DEF LastConnectionCloses
<1>5. CASE NextSecond
  <2>1. second' # state.key /\ \A p \in Backups : second' # key[p]
    BY <1>5 DEF NextSecond, FreshKeys
  <2>2. NamesDiffer' /\ CopyIsWhole'
    BY <1>5 DEF NextSecond, NamesDiffer, CopyIsWhole
  <2>3. ObjectIsWhole' /\ WritesTruth'
    BY <1>5, <2>1 DEF NextSecond, TypeOK, ObjectIsWhole, WritesTruth, StillAsOf
  <2>4. RecordHolds'
    BY <1>5, <2>1 DEF NextSecond, TypeOK, RecordHolds, StillAsOf
  <2> QED BY <2>2, <2>3, <2>4
<1> QED BY <1>1, <1>3, <1>4, <1>5 DEF SQLite

(* A backup that only moves on, or forgets, disturbs nothing, as long as   *)
(* what it moves on to is true of it.                                      *)
LEMMA MoveOnInv ==
  ASSUME TypeOK, BackupInv, NEW p \in Backups, NEW to \in Places,
         pc' = [pc EXCEPT ![p] = to],
         to \in Recording => pc[p] \in Recording,
         to \notin {"name", "upload", "write state"},
         \A q \in Backups \ {p} : key'[q] = key[q] /\ sig'[q] = sig[q],
         key'[p] \in {key[p], None},
         to \in Recording => key'[p] = key[p],
         \A q \in Backups \ {p} : q \in copy' <=> q \in copy,
         \A q \in Backups \ {p} : q \in overtaken' <=> q \in overtaken,
         to \in Recording => overtaken' = overtaken,
         UNCHANGED <<database, second, whole, state>>
  PROVE  BackupInv'
<1> USE DEF BackupInv, database
<1>1. \A q \in Backups : pc'[q] = IF q = p THEN to ELSE pc[q]
  BY DEF TypeOK
<1>2. NamesDiffer'
  BY DEF NamesDiffer
<1>3. CopyIsWhole'
  BY <1>1 DEF CopyIsWhole
<1>4. ObjectIsWhole'
  BY <1>1 DEF ObjectIsWhole
<1>5. WritesTruth'
  BY <1>1 DEF WritesTruth, StillAsOf
<1>6. RecordHolds'
  BY DEF RecordHolds, StillAsOf
<1> QED BY <1>2, <1>3, <1>4, <1>5, <1>6

(* The steps that matter: the copy, the object, the commit of the backup's *)
(* own, the checkpoint, the comparison and the record.                     *)
LEMMA StepInv ==
  ASSUME TypeOK, BackupInv, OneBackupASecond, NEW p \in Backups, Step(p)
  PROVE  BackupInv'
<1> USE DEF Move, Places, Unconnected, Named, Recording, database, locals
<1>1. CASE ReadState(p)
  <2> DEFINE next == IF state = NoState THEN "start" ELSE "look at file"
  <2>1. next \in {"start", "look at file"}
    OBVIOUS
  <2>2. pc' = [pc EXCEPT ![p] = next]
    BY <1>1 DEF ReadState
  <2> HIDE DEF next
  <2> QED BY <1>1, <2>1, <2>2, MoveOnInv DEF ReadState
<1>2. CASE LookAtFile(p)
  BY <1>2, MoveOnInv DEF LookAtFile, TypeOK
<1>3. CASE LookAtLog(p)
  BY <1>3, MoveOnInv DEF LookAtLog, TypeOK
<1>4. CASE ReadDataVersion(p)
  BY <1>4, MoveOnInv DEF ReadDataVersion
<1>5. CASE CopyDatabase(p)
  BY <1>5 DEF CopyDatabase, TypeOK, BackupInv, NamesDiffer, CopyIsWhole,
              ObjectIsWhole, WritesTruth, RecordHolds, StillAsOf
<1>6. CASE NameObject(p)
  <2>1. /\ second \in Keys /\ second # None /\ second # state.key
        /\ \A q \in Backups \ {p} : key[q] # second
    BY <1>6 DEF NameObject, TakenName, ObjectKey, TypeOK
  <2>2. \A q \in Backups : key'[q] = IF q = p THEN second ELSE key[q]
    BY <1>6 DEF NameObject, ObjectKey, TypeOK
  <2>3. \A q \in Backups : pc'[q] = IF q = p THEN "upload" ELSE pc[q]
    BY <1>6 DEF NameObject, TypeOK
  <2>4. NamesDiffer'
    BY <1>6, <2>1, <2>2 DEF NameObject, BackupInv, NamesDiffer
  <2>5. CopyIsWhole'
    BY <1>6, <2>3 DEF NameObject, BackupInv, CopyIsWhole
  <2>6. ObjectIsWhole' /\ WritesTruth'
    <3>1. UNCHANGED <<wal, mtime, whole, sig, overtaken>>
      BY <1>6 DEF NameObject
    <3> QED BY <2>2, <2>3, <3>1 DEF BackupInv, ObjectIsWhole, WritesTruth, StillAsOf
  <2>7. RecordHolds'
    BY <1>6 DEF NameObject, BackupInv, RecordHolds, StillAsOf
  <2> QED BY <2>4, <2>5, <2>6, <2>7 DEF BackupInv
<1>7. CASE Upload(p)
  <2>1. \A q \in Backups : pc'[q] = IF q = p THEN "status" ELSE pc[q]
    BY <1>7 DEF Upload, TypeOK
  <2>2. key[p] # state.key /\ \A q \in Backups \ {p} : key[q] # key[p]
    BY <1>7 DEF Upload, BackupInv, NamesDiffer, TypeOK
  <2>3. p \notin overtaken => key[p] \in whole'
    BY <1>7 DEF Upload, BackupInv, CopyIsWhole
  <2>4. \A k \in Keys \ {key[p]} : k \in whole' <=> k \in whole
    BY <1>7 DEF Upload
  <2>5. NamesDiffer' /\ CopyIsWhole'
    BY <1>7, <2>1 DEF Upload, BackupInv, NamesDiffer, CopyIsWhole
  <2>6. ObjectIsWhole' /\ WritesTruth'
    BY <1>7, <2>1, <2>2, <2>3, <2>4
    DEF Upload, TypeOK, BackupInv, ObjectIsWhole, WritesTruth, StillAsOf
  <2>7. RecordHolds'
    <3>1. state # NoState => state.key \in Keys
      BY DEF TypeOK, State
    <3> QED BY <1>7, <2>2, <2>4, <3>1 DEF Upload, BackupInv, RecordHolds, StillAsOf
  <2> QED BY <2>5, <2>6, <2>7 DEF BackupInv
<1>8. CASE RecordStatus(p)
  BY <1>8 DEF RecordStatus, OvertakenBy, TypeOK, BackupInv, NamesDiffer,
              CopyIsWhole, ObjectIsWhole, WritesTruth, RecordHolds, StillAsOf
<1>9. CASE Checkpoint(p)
  <2>1. \A q \in Backups : pc'[q] = IF q = p THEN "sign file" ELSE pc[q]
    BY <1>9 DEF Checkpoint, TypeOK
  <2>0. pc[p] = "checkpoint" /\ UNCHANGED <<whole, state, sig, copy, key, overtaken>>
    BY <1>9 DEF Checkpoint
  <2>2. NamesDiffer' /\ CopyIsWhole' /\ ObjectIsWhole'
    BY <2>0, <2>1 DEF BackupInv, NamesDiffer, CopyIsWhole, ObjectIsWhole
  <2>3. WritesTruth'
    <3>1. /\ wal # "frames" => mtime' = mtime
          /\ wal = "frames" => \A q \in Backups : mtime' # sig[q]
      BY <1>9, CopyFramesGives DEF Checkpoint
    <3> QED BY <2>0, <2>1, <3>1 DEF BackupInv, WritesTruth, StillAsOf
  <2>4. RecordHolds'
    BY <1>9, CopyFramesGives DEF Checkpoint, BackupInv, RecordHolds, StillAsOf
  <2> QED BY <2>2, <2>3, <2>4 DEF BackupInv
<1>10. CASE SignFile(p)
  BY <1>10, MoveOnInv DEF SignFile, TypeOK
<1>11. CASE SignLog(p)
  BY <1>11, MoveOnInv DEF SignLog, TypeOK
<1>12. CASE CompareDataVersion(p)
  BY <1>12 DEF CompareDataVersion, Recordable, TypeOK, BackupInv, NamesDiffer,
               CopyIsWhole, ObjectIsWhole, WritesTruth, RecordHolds, StillAsOf
<1>13. CASE WriteState(p)
  <2>1. \A q \in Backups : pc'[q] = IF q = p THEN "idle" ELSE pc[q]
    BY <1>13 DEF WriteState, TypeOK
  <2>2. \A q \in Backups : /\ key'[q] = IF q = p THEN None ELSE key[q]
                           /\ sig'[q] = IF q = p THEN None ELSE sig[q]
    BY <1>13 DEF WriteState, Forget, TypeOK
  <2>0. /\ \A q \in Backups \ {p} : /\ q \in copy' <=> q \in copy
                                    /\ q \in overtaken' <=> q \in overtaken
        /\ mtime' = mtime /\ wal' = wal /\ whole' = whole
    BY <1>13 DEF WriteState, Forget
  <2>3. state'.mtime = sig[p] /\ state'.key = key[p] /\ key[p] # None
    BY <1>13 DEF WriteState, TypeOK
  <2>4. NamesDiffer'
    BY <2>2, <2>3 DEF BackupInv, NamesDiffer
  <2>5. CopyIsWhole'
    BY <2>0, <2>1 DEF BackupInv, CopyIsWhole
  <2>6. ObjectIsWhole' /\ WritesTruth'
    BY <2>0, <2>1, <2>2 DEF BackupInv, ObjectIsWhole, WritesTruth, StillAsOf
  <2>7. RecordHolds'
    BY <1>13, <2>3 DEF WriteState, BackupInv, WritesTruth, RecordHolds, StillAsOf
  <2> QED BY <2>4, <2>5, <2>6, <2>7 DEF BackupInv
<1>14. CASE UnlinkState(p)
  <2>1. \A q \in Backups : pc'[q] = IF q = p THEN "idle" ELSE pc[q]
    BY <1>14 DEF UnlinkState, TypeOK
  <2>2. \A q \in Backups : /\ key'[q] = IF q = p THEN None ELSE key[q]
                           /\ sig'[q] = IF q = p THEN None ELSE sig[q]
    BY <1>14 DEF UnlinkState, Forget, TypeOK
  <2>0. /\ \A q \in Backups \ {p} : /\ q \in copy' <=> q \in copy
                                    /\ q \in overtaken' <=> q \in overtaken
        /\ mtime' = mtime /\ wal' = wal /\ whole' = whole
    BY <1>14 DEF UnlinkState, Forget
  <2>3. NamesDiffer' /\ RecordHolds'
    BY <1>14, <2>2 DEF UnlinkState, NoState, BackupInv, NamesDiffer, RecordHolds
  <2>4. CopyIsWhole' /\ ObjectIsWhole' /\ WritesTruth'
    BY <2>0, <2>1, <2>2 DEF BackupInv, CopyIsWhole, ObjectIsWhole, WritesTruth,
                            StillAsOf
  <2> QED BY <2>3, <2>4 DEF BackupInv
<1> QED BY <1>1, <1>2, <1>3, <1>4, <1>5, <1>6, <1>7, <1>8, <1>9, <1>10,
           <1>11, <1>12, <1>13, <1>14 DEF Step

(* A backup that begins, or that is in trouble, records nothing.           *)
LEMMA OtherInv ==
  ASSUME TypeOK, BackupInv, NEW p \in Backups,
         BeginIfChanged(p) \/ BeginNow(p) \/ Trouble(p)
  PROVE  BackupInv'
<1> USE DEF Move, Places, Unconnected, Named, Recording, database, locals
<1>1. CASE BeginIfChanged(p)    BY <1>1, MoveOnInv DEF BeginIfChanged
<1>2. CASE BeginNow(p)          BY <1>2, MoveOnInv DEF BeginNow
<1>3. CASE CheckpointBlocked(p) BY <1>3, MoveOnInv DEF CheckpointBlocked
<1>4. CASE CannotRecord(p)      BY <1>4, MoveOnInv DEF CannotRecord
<1>5. CASE Fail(p)              BY <1>5, MoveOnInv DEF Fail, Forget, TypeOK
<1> QED BY <1>1, <1>2, <1>3, <1>4, <1>5 DEF Trouble

(* The state file never vouches for an object that lacks a commit          *)
(* (_record_backup_state, lines 221 to 249): for any number of backups,    *)
(* provided that no two share a second, and so an object key.              *)
THEOREM RecordNeverWrong ==
  ASSUME OneBackupASecond
  PROVE  Spec => []RecordIsTrue
<1>1. Init => BackupInv
  BY InitBackupInv
<1>2. TypeOK /\ BackupInv /\ [Next]_vars => BackupInv'
  <2> SUFFICES ASSUME TypeOK, BackupInv, [Next]_vars PROVE BackupInv'
    OBVIOUS
  <2>1. CASE UNCHANGED vars
    BY <2>1 DEF vars, locals, BackupInv, NamesDiffer, CopyIsWhole, ObjectIsWhole,
                WritesTruth, RecordHolds, StillAsOf
  <2>2. CASE Next
    BY <2>2, DatabaseInv, StepInv, OtherInv DEF Next
  <2> QED BY <2>1, <2>2
<1>3. BackupInv => RecordIsTrue
  BY DEF BackupInv, RecordHolds, RecordIsTrue, StillAsOf
<1> QED BY <1>1, <1>2, <1>3, TypeCorrect, PTL DEF Spec
=============================================================================
