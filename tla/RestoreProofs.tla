--------------------------- MODULE RestoreProofs ---------------------------
(***************************************************************************)
(* That a restore can always be undone, and that what browsers keep of the *)
(* app icon is what it says it is, however many restores, uploads of icons *)
(* and requests for them run beside each other.                            *)
(***************************************************************************)
EXTENDS Restore, TLAPS

Steps == {"idle", "confirm", "upload", "record", "keep status", "replace", "put back", "migrate"}

TypeOK ==
  /\ database \in Content
  /\ bucket \in [Keys -> Content \cup {None}]
  /\ pc \in [Restorers -> Steps]
  /\ held \in [Restorers -> Content \cup {None}]
  /\ copy \in [Restorers -> Content \cup {None}]
  /\ current \in [Restorers -> Keys \cup {None}]
  /\ status \in [Restorers -> Keys \cup {None}]
  /\ since \in [Restorers -> SUBSET Commits]
  /\ made \in 0 .. MaxCommits
  /\ warned \in SUBSET Commits
  /\ reading \in [Readers -> [asked : Versions, icon : Icon, replaced : BOOLEAN] \cup {None}]

(* A run has downloaded what it restores, and has a copy and a key of its  *)
(* own to upload it under; once it has done so, that is what the object    *)
(* holds.                                                                  *)
Holds(r) == held[r] \in Content
HasCopy(r) == copy[r] \in Content /\ current[r] \in Keys
RunsAreUnderway ==
  \A r \in Restorers :
    /\ pc[r] \in {"confirm", "upload", "record", "keep status", "replace"} => Holds(r)
    /\ pc[r] \in {"upload", "record", "keep status", "replace"} => HasCopy(r)
    /\ pc[r] = "upload" => bucket[current[r]] = None
KeysDiffer ==
  \A r, s \in Restorers : r # s /\ current[r] # None => current[r] # current[s]

(* What a run must not lose is in the bucket already, was committed since  *)
(* its copy, or was warned of before; till it has uploaded, in its copy.   *)
InBucket(c) == \E k \in Keys : bucket[k] # None /\ c \in bucket[k].commits
Accounted(r) ==
  \A c \in 1 .. made :
    \/ c \in since[r] \cup warned
    \/ InBucket(c)
    \/ pc[r] = "upload" /\ c \in copy[r].commits
AllAccounted ==
  \A r \in Restorers : pc[r] \in {"upload", "record", "keep status", "replace"} => Accounted(r)

(* An icon's row has its image, and numbers that weren't given out yet     *)
(* have none.                                                              *)
IconKept(d) ==
  /\ d.icon # None => d.files[d.icon.file] = d.icon.version /\ d.icon.file <= d.used
  /\ \A f \in FileKeys : f > d.used => d.files[f] = None
Kept(d) == d \in Content => IconKept(d)

(* A stored file is never written again: what a request has read the row   *)
(* of is there, or gone, as long as the database is the one it read.       *)
RowsReadHold ==
  \A q \in Readers : reading[q] # None /\ ~reading[q].replaced =>
    /\ database.files[reading[q].icon.file] \in {reading[q].icon.version, None}
    /\ reading[q].icon.file <= database.used

IconInv ==
  /\ Kept(database)
  /\ \A k \in Keys : Kept(bucket[k])
  /\ \A r \in Restorers : Kept(held[r]) /\ Kept(copy[r])
  /\ RowsReadHold

------------------------------------------------------------------------------
(* What the app makes of the database it finds.                            *)

LEMMA ContentFields ==
  ASSUME NEW d \in Content
  PROVE  /\ d.commits \in SUBSET Commits /\ d.icon \in Icon \cup {None}
         /\ d.files \in [FileKeys -> Versions \cup {None}] /\ d.used \in 0 .. MaxFiles
         /\ d.recorded \in Keys \cup {None}
         /\ d # None
BY RestoreAssumption DEF Content

(* reset_icon() leaves a database that differs in the icon and its file.   *)
LEMMA WithoutIconIs ==
  ASSUME NEW d \in Content
  PROVE  /\ WithoutIcon(d) \in Content
         /\ WithoutIcon(d).icon = None /\ WithoutIcon(d).used = d.used
         /\ WithoutIcon(d).commits = d.commits /\ WithoutIcon(d).recorded = d.recorded
         /\ \A f \in FileKeys : WithoutIcon(d).files[f] \in {d.files[f], None}
<1>1. CASE d.icon = None
  BY <1>1, ContentFields DEF WithoutIcon
<1>2. CASE d.icon # None
  <2> DEFINE files == [d.files EXCEPT ![d.icon.file] = None]
             e == [commits |-> d.commits, icon |-> None, files |-> files, used |-> d.used,
                   recorded |-> d.recorded]
  <2>1. files \in [FileKeys -> Versions \cup {None}]
    BY ContentFields
  <2>2. e \in Content
    BY <2>1, ContentFields DEF Content
  <2>3. WithoutIcon(d) = e
    BY <1>2 DEF WithoutIcon, Content
  <2>4. \A f \in FileKeys : files[f] \in {d.files[f], None}
    BY ContentFields
  <2> QED BY <2>2, <2>3, <2>4
<1> QED BY <1>1, <1>2

(* save_icon() gives the image a file that was never there before.         *)
LEMMA SaveIconIs ==
  ASSUME TypeOK, NEW v \in Versions, SaveIcon(v)
  PROVE  /\ database' \in Content
         /\ database'.icon = [version |-> v, file |-> database.used + 1]
         /\ database'.used = database.used + 1
         /\ database'.commits = database.commits
         /\ database'.files[database.used + 1] = v
         /\ \A f \in FileKeys \ {database.used + 1} :
              database'.files[f] \in {database.files[f], None}
<1> DEFINE d == WithoutIcon(database)
           f == database.used + 1
           files == [d.files EXCEPT ![f] = v]
           icon == [version |-> v, file |-> f]
           e == [commits |-> d.commits, icon |-> icon, files |-> files, used |-> f,
                 recorded |-> d.recorded]
<1>1. database \in Content
  BY DEF TypeOK
<1>2. /\ d \in Content /\ d.used = database.used /\ d.commits = database.commits
      /\ \A g \in FileKeys : d.files[g] \in {database.files[g], None}
  BY <1>1, WithoutIconIs
<1>3. database.used \in 0 .. MaxFiles /\ database.used < MaxFiles
  BY <1>1, ContentFields DEF SaveIcon
<1>4. f \in FileKeys /\ f \in 0 .. MaxFiles /\ f > d.used
  BY <1>2, <1>3, RestoreAssumption DEF FileKeys
<1>5. icon \in Icon
  BY <1>4 DEF Icon
<1>6. d.files \in [FileKeys -> Versions \cup {None}]
  BY <1>2, ContentFields
<1>7. files \in [FileKeys -> Versions \cup {None}]
  BY <1>6
<1>8. e \in Content
  BY <1>2, <1>4, <1>5, <1>7, ContentFields DEF Content
<1>9. database' = [d EXCEPT !.icon = icon, !.files[f] = v, !.used = IF f > @ THEN f ELSE @]
  BY DEF SaveIcon, NewFile
<1>10. database' = e
  <2> HIDE DEF d, f, icon
  <2> QED BY <1>2, <1>4, <1>9 DEF Content
<1>11. files[f] = v /\ \A g \in FileKeys \ {f} : files[g] = d.files[g]
  BY <1>4, <1>6
<1> QED BY <1>2, <1>8, <1>10, <1>11

LEMMA SettingFields ==
  ASSUME NEW d \in Content
  PROVE  /\ \A k \in Keys \cup {None} : [d EXCEPT !.recorded = k] \in Content
         /\ \A c \in Commits : [d EXCEPT !.commits = @ \cup {c}] \in Content
<1>1. ASSUME NEW k \in Keys \cup {None} PROVE [d EXCEPT !.recorded = k] \in Content
  BY <1>1 DEF Content
<1>2. ASSUME NEW c \in Commits PROVE [d EXCEPT !.commits = @ \cup {c}] \in Content
  BY <1>2 DEF Content
<1> QED BY <1>1, <1>2


------------------------------------------------------------------------------
(* Type correctness.                                                       *)

LEMMA AppTypes == TypeOK /\ App => TypeOK'
<1> SUFFICES ASSUME TypeOK, App PROVE TypeOK'
  OBVIOUS
<1>1. CASE Commit
  <2>1. made + 1 \in Commits /\ made + 1 \in 0 .. MaxCommits
    BY <1>1, RestoreAssumption DEF Commit, TypeOK, Commits
  <2>2. database' \in Content
    BY <1>1, <2>1, SettingFields DEF Commit, TypeOK
  <2>3. since' \in [Restorers -> SUBSET Commits]
    BY <1>1, <2>1 DEF Commit, TypeOK
  <2> QED BY <1>1, <2>1, <2>2, <2>3 DEF Commit, TypeOK
<1>2. CASE ResetIcon
  BY <1>2, WithoutIconIs DEF ResetIcon, TypeOK, run
<1>3. ASSUME NEW v \in Versions, SaveIcon(v) PROVE TypeOK'
  BY <1>3, SaveIconIs DEF SaveIcon, TypeOK, run
<1>4. ASSUME NEW q \in Readers, NEW v \in Versions, ReadRow(q, v) PROVE TypeOK'
  <2>1. database.icon \in Icon
    BY <1>4, ContentFields DEF ReadRow, TypeOK
  <2> QED BY <1>4, <2>1 DEF ReadRow, TypeOK, run
<1>5. ASSUME NEW q \in Readers, Answer(q) PROVE TypeOK'
  BY <1>5 DEF Answer, TypeOK, run
<1> QED BY <1>1, <1>2, <1>3, <1>4, <1>5 DEF App

LEMMA OverTypes ==
  ASSUME TypeOK, NEW r \in Restorers, Over(r)
  PROVE  /\ held' \in [Restorers -> Content \cup {None}]
         /\ copy' \in [Restorers -> Content \cup {None}]
         /\ current' \in [Restorers -> Keys \cup {None}]
         /\ status' \in [Restorers -> Keys \cup {None}]
         /\ since' \in [Restorers -> SUBSET Commits]
BY DEF Over, TypeOK

LEMMA CommandTypes ==
  ASSUME TypeOK, RunsAreUnderway, NEW r \in Restorers, Command(r)
  PROVE  TypeOK'
<1>1. ASSUME NEW from, NEW to \in Steps, Move(r, from, to) PROVE pc' \in [Restorers -> Steps]
  BY <1>1 DEF Move, TypeOK
<1>2. /\ \A outcome : AfterBackup(outcome) \in Steps
      /\ {"idle", "confirm", "upload", "record", "replace", "put back", "migrate"} \subseteq Steps
  BY DEF AfterBackup, Steps
<1>3. ASSUME NEW k \in Keys, Download(r, k) PROVE TypeOK'
  <2>1. pc' \in [Restorers -> Steps]
    BY <1>1, <1>2, <1>3 DEF Download
  <2> QED BY <1>3, <2>1 DEF Download, TypeOK
<1>4. ASSUME NEW k \in Keys, Confirm(r, k) PROVE TypeOK'
  <2>1. pc' \in [Restorers -> Steps]
    BY <1>1, <1>2, <1>4 DEF Confirm
  <2> QED BY <1>4, <2>1 DEF Confirm, TypeOK
<1>5. CASE Upload(r)
  <2>1. pc' \in [Restorers -> Steps]
    BY <1>1, <1>2, <1>5 DEF Upload
  <2>2. current[r] \in Keys /\ copy[r] \in Content
    BY <1>5 DEF Upload, Move, RunsAreUnderway, HasCopy
  <2> QED BY <1>5, <2>1, <2>2 DEF Upload, TypeOK
<1>6. CASE UploadFails(r)
  <2>1. pc' \in [Restorers -> Steps]
    BY <1>1, <1>2, <1>6 DEF UploadFails
  <2> QED BY <1>6, <2>1, OverTypes DEF UploadFails, TypeOK
<1>7. CASE Record(r)
  <2>1. pc' \in [Restorers -> Steps]
    BY <1>1, <1>2, <1>7 DEF Record
  <2>2. database' \in Content
    BY <1>7, SettingFields DEF Record, TypeOK
  <2> QED BY <1>7, <2>1, <2>2 DEF Record, TypeOK
<1>8. CASE RecordFails(r)
  <2>1. pc' \in [Restorers -> Steps]
    BY <1>1, <1>2, <1>8 DEF RecordFails
  <2> QED BY <1>8, <2>1 DEF RecordFails, TypeOK
<1>9. CASE KeepStatus(r)
  <2>1. pc' \in [Restorers -> Steps]
    BY <1>1, <1>2, <1>9 DEF KeepStatus
  <2>2. database.recorded \in Keys \cup {None}
    BY ContentFields DEF TypeOK
  <2> QED BY <1>9, <2>1, <2>2 DEF KeepStatus, TypeOK
<1>10. CASE Replace(r)
  <2>1. pc' \in [Restorers -> Steps]
    BY <1>1, <1>2, <1>10 DEF Replace
  <2>2. held[r] \in Content
    BY <1>10 DEF Replace, Move, RunsAreUnderway, Holds
  <2> QED BY <1>10, <2>1, <2>2 DEF Replace, TypeOK
<1>11. CASE PutBack(r)
  <2>1. pc' \in [Restorers -> Steps]
    BY <1>1, <1>2, <1>11 DEF PutBack
  <2>2. database' \in Content
    BY <1>11, SettingFields DEF PutBack, TypeOK
  <2> QED BY <1>11, <2>1, <2>2 DEF PutBack, TypeOK
<1>12. CASE Migrate(r) \/ GiveUp(r)
  <2>1. pc' \in [Restorers -> Steps]
    BY <1>1, <1>2, <1>12 DEF Migrate, GiveUp, TypeOK
  <2> QED BY <1>12, <2>1, OverTypes DEF Migrate, GiveUp, TypeOK
<1> QED BY <1>3, <1>4, <1>5, <1>6, <1>7, <1>8, <1>9, <1>10, <1>11, <1>12 DEF Command

LEMMA RestartTypes == ASSUME TypeOK, Restart PROVE TypeOK'
<1>1. pc' \in [Restorers -> Steps]
  BY DEF Restart, Steps
<1>2. UNCHANGED <<database, bucket, made, warned>>
  BY DEF Restart
<1> QED BY <1>1, <1>2 DEF Restart, TypeOK

LEMMA InitTypes == Init => TypeOK
<1>1. Empty \in Content
  BY RestoreAssumption DEF Empty, Content
<1> QED BY <1>1, RestoreAssumption DEF Init, TypeOK, Steps

------------------------------------------------------------------------------
(* What each run holds.                                                    *)

LEMMA InitUnderway == Init => RunsAreUnderway /\ KeysDiffer
BY DEF Init, RunsAreUnderway, KeysDiffer

LEMMA StepUnderway ==
  ASSUME TypeOK, RunsAreUnderway, KeysDiffer, [Next]_vars
  PROVE  RunsAreUnderway' /\ KeysDiffer'
<1>1. ASSUME UNCHANGED run, UNCHANGED bucket PROVE RunsAreUnderway' /\ KeysDiffer'
  BY <1>1 DEF run, RunsAreUnderway, KeysDiffer, Holds, HasCopy
<1>2. CASE Commit
  BY <1>2 DEF Commit, RunsAreUnderway, KeysDiffer, Holds, HasCopy
<1>3. CASE App /\ ~Commit
  BY <1>1, <1>3 DEF App, ResetIcon, SaveIcon, ReadRow, Answer
<1>4. CASE Restart
  BY <1>4 DEF Restart, RunsAreUnderway, KeysDiffer
<1>5. ASSUME NEW r \in Restorers, Command(r) PROVE RunsAreUnderway' /\ KeysDiffer'
  <2>1. ASSUME NEW k \in Keys, Download(r, k) PROVE RunsAreUnderway' /\ KeysDiffer'
    <3>1. bucket[k] \in Content
      BY <2>1 DEF Download, TypeOK
    <3>2. /\ pc' = [pc EXCEPT ![r] = "confirm"] /\ held' = [held EXCEPT ![r] = bucket[k]]
          /\ UNCHANGED <<bucket, copy, current>>
      BY <2>1 DEF Download, Move
    <3> QED BY <3>1, <3>2 DEF RunsAreUnderway, KeysDiffer, Holds, HasCopy, TypeOK
  <2>2. ASSUME NEW k \in Keys, Confirm(r, k) PROVE RunsAreUnderway' /\ KeysDiffer'
    <3>1. /\ pc[r] = "confirm" /\ pc' = [pc EXCEPT ![r] = "upload"]
          /\ copy' = [copy EXCEPT ![r] = database] /\ current' = [current EXCEPT ![r] = k]
          /\ UNCHANGED <<bucket, held>> /\ bucket[k] = None
      BY <2>2 DEF Confirm, Move
    <3>2. \A s \in Restorers : current[s] # k
      BY <2>2 DEF Confirm
    <3>3. KeysDiffer'
      BY <3>1, <3>2 DEF KeysDiffer, TypeOK
    <3> QED BY <3>1, <3>3 DEF RunsAreUnderway, Holds, HasCopy, TypeOK
  <2>3. CASE Upload(r)
    <3>1. /\ pc[r] = "upload" /\ pc' = [pc EXCEPT ![r] = "record"]
          /\ bucket' = [bucket EXCEPT ![current[r]] = copy[r]]
          /\ UNCHANGED <<held, copy, current>>
      BY <2>3 DEF Upload, Move
    <3>2. current[r] \in Keys /\ current[r] # None
      BY <3>1, RestoreAssumption DEF RunsAreUnderway, HasCopy
    <3>3. \A s \in Restorers : s # r => current[s] # current[r]
      BY <3>2 DEF KeysDiffer
    <3> QED BY <3>1, <3>2, <3>3 DEF RunsAreUnderway, KeysDiffer, Holds, HasCopy, TypeOK
  <2>4. ASSUME NEW to \in {"record", "keep status", "replace", "put back", "migrate", "idle"},
               pc' = [pc EXCEPT ![r] = to],
               to = "record" => pc[r] = "upload",
               to = "keep status" => pc[r] = "record", to = "replace" => pc[r] = "keep status",
               UNCHANGED <<bucket, held, copy, current>>
        PROVE  RunsAreUnderway' /\ KeysDiffer'
    BY <2>4 DEF RunsAreUnderway, KeysDiffer, Holds, HasCopy, TypeOK
  <2>5. ASSUME Over(r), pc' = [pc EXCEPT ![r] = "idle"], UNCHANGED bucket
        PROVE  RunsAreUnderway' /\ KeysDiffer'
    BY <2>5 DEF Over, RunsAreUnderway, KeysDiffer, Holds, HasCopy, TypeOK
  <2>6. CASE UploadFails(r)
    <3>1. AfterBackup("not uploaded") = "idle" /\ pc'[r] = "idle"
      BY <2>6 DEF UploadFails, AfterBackup, Move, TypeOK
    <3> QED BY <2>5, <2>6, <3>1 DEF UploadFails, Move
  <2>7. CASE Record(r) \/ RecordFails(r)
    <3>1. AfterBackup("uploaded") = "keep status" /\ AfterBackup("not recorded") = "keep status"
      BY DEF AfterBackup
    <3> QED BY <2>4, <2>7, <3>1 DEF Record, RecordFails, Move
  <2>8. CASE KeepStatus(r) \/ Replace(r) \/ PutBack(r)
    BY <2>4, <2>8 DEF KeepStatus, Replace, PutBack, Move
  <2>9. CASE Migrate(r) \/ GiveUp(r)
    BY <2>5, <2>9 DEF Migrate, GiveUp, Move
  <2> QED BY <1>5, <2>1, <2>2, <2>3, <2>6, <2>7, <2>8, <2>9 DEF Command
<1>6. CASE UNCHANGED vars
  BY <1>1, <1>6 DEF vars
<1> QED BY <1>2, <1>3, <1>4, <1>5, <1>6 DEF Next

(* The state has the shape that the command and the app give it: objects   *)
(* and copies are whole databases, and each run is at one of its steps.    *)
THEOREM TypeCorrect == Spec => [](TypeOK /\ RunsAreUnderway /\ KeysDiffer)
<1>1. Init => TypeOK /\ RunsAreUnderway /\ KeysDiffer
  BY InitTypes, InitUnderway
<1>2. TypeOK /\ RunsAreUnderway /\ KeysDiffer /\ [Next]_vars =>
        TypeOK' /\ RunsAreUnderway' /\ KeysDiffer'
  <2> SUFFICES ASSUME TypeOK, RunsAreUnderway, KeysDiffer, [Next]_vars
               PROVE  TypeOK' /\ RunsAreUnderway' /\ KeysDiffer'
    OBVIOUS
  <2>1. TypeOK'
    <3>1. CASE UNCHANGED vars
      BY <3>1 DEF vars, run, TypeOK
    <3> QED BY <3>1, AppTypes, CommandTypes, RestartTypes DEF Next
  <2> QED BY <2>1, StepUnderway
<1> QED BY <1>1, <1>2, PTL DEF Spec

------------------------------------------------------------------------------
(* A restore can be undone.                                                *)

(* The bucket only gains objects: what is in it stays.                     *)
LEMMA BucketGrows ==
  ASSUME \A k \in Keys : bucket[k] # None => bucket'[k] = bucket[k], NEW c, InBucket(c)
  PROVE  InBucket(c)'
BY DEF InBucket

(* A step of a run's that leaves the database, its copy and what was       *)
(* committed since, and doesn't go back to before the upload.              *)
LEMMA CalmSteps ==
  ASSUME TypeOK, AllAccounted, RestoreCanBeUndone, UNCHANGED <<bucket, made>>,
         warned \subseteq warned', database.commits \subseteq database'.commits,
         \A r \in Restorers :
           pc'[r] \in {"upload", "record", "keep status", "replace"} =>
             /\ pc[r] \in {"upload", "record", "keep status", "replace"}
             /\ pc[r] = "upload" <=> pc'[r] = "upload"
             /\ since'[r] = since[r] /\ copy'[r] = copy[r]
  PROVE  AllAccounted' /\ RestoreCanBeUndone'
<1>1. AllAccounted'
  BY DEF AllAccounted, Accounted, InBucket
<1>2. RestoreCanBeUndone'
  BY DEF RestoreCanBeUndone
<1> QED BY <1>1, <1>2

LEMMA CommitUndone ==
  ASSUME TypeOK, RunsAreUnderway, AllAccounted, RestoreCanBeUndone, Commit
  PROVE  AllAccounted' /\ RestoreCanBeUndone'
<1>1. /\ made' = made + 1 /\ made \in Nat
      /\ UNCHANGED <<bucket, pc, copy, warned>>
  BY RestoreAssumption DEF Commit, TypeOK
<1>2. database'.commits = database.commits \cup {made + 1}
  BY DEF Commit, TypeOK, Content
<1>3. ASSUME NEW r \in Restorers, copy[r] \in Content PROVE since'[r] = since[r] \cup {made + 1}
  BY <1>3, RestoreAssumption DEF Commit
<1>4. 1 .. made' = (1 .. made) \cup {made + 1}
  BY <1>1
<1>5. RestoreCanBeUndone'
  BY <1>1, <1>2, <1>4 DEF RestoreCanBeUndone
<1>6. ASSUME NEW r \in Restorers, pc[r] \in {"upload", "record", "keep status", "replace"}
      PROVE  Accounted(r)'
  <2>1. Accounted(r) /\ since'[r] = since[r] \cup {made + 1}
    BY <1>3, <1>6 DEF AllAccounted, RunsAreUnderway, HasCopy
  <2> QED BY <1>1, <1>4, <2>1 DEF Accounted, InBucket
<1> QED BY <1>1, <1>5, <1>6 DEF AllAccounted

(* The copy a run takes is of the whole database.                          *)
LEMMA ConfirmUndone ==
  ASSUME TypeOK, AllAccounted, RestoreCanBeUndone, NEW r \in Restorers, NEW k \in Keys, Confirm(r, k)
  PROVE  AllAccounted' /\ RestoreCanBeUndone'
<1>1. /\ pc' = [pc EXCEPT ![r] = "upload"] /\ copy' = [copy EXCEPT ![r] = database]
      /\ since' = [since EXCEPT ![r] = {}] /\ UNCHANGED <<database, bucket, made, warned>>
  BY DEF Confirm, Move
<1>2. RestoreCanBeUndone'
  BY <1>1 DEF RestoreCanBeUndone
<1>3. ASSUME NEW s \in Restorers, s # r,
             pc'[s] \in {"upload", "record", "keep status", "replace"}
      PROVE  Accounted(s)'
  BY <1>1, <1>3 DEF AllAccounted, Accounted, InBucket, TypeOK
<1>4. Accounted(r)'
  BY <1>1 DEF RestoreCanBeUndone, Accounted, InBucket, TypeOK
<1> QED BY <1>2, <1>3, <1>4 DEF AllAccounted

(* Once a run has uploaded its copy, what it must not lose is in the       *)
(* bucket.                                                                 *)
LEMMA UploadUndone ==
  ASSUME TypeOK, RunsAreUnderway, AllAccounted, RestoreCanBeUndone, NEW r \in Restorers, Upload(r)
  PROVE  AllAccounted' /\ RestoreCanBeUndone'
<1>1. /\ pc[r] = "upload" /\ pc' = [pc EXCEPT ![r] = "record"]
      /\ bucket' = [bucket EXCEPT ![current[r]] = copy[r]]
      /\ UNCHANGED <<database, copy, since, made, warned>>
  BY DEF Upload, Move
<1>2. current[r] \in Keys /\ copy[r] \in Content /\ bucket[current[r]] = None
  BY <1>1 DEF RunsAreUnderway, HasCopy
<1>3. \A k \in Keys : bucket[k] # None => bucket'[k] = bucket[k]
  BY <1>1, <1>2 DEF TypeOK
<1>4. bucket'[current[r]] = copy[r] /\ copy[r] # None
  BY <1>1, <1>2, RestoreAssumption DEF TypeOK
<1>5. RestoreCanBeUndone'
  BY <1>1, <1>3 DEF RestoreCanBeUndone
<1>6. \A c : InBucket(c) => InBucket(c)'
  BY <1>3, BucketGrows
<1>7. \A c \in copy[r].commits : InBucket(c)'
  BY <1>2, <1>4 DEF InBucket
<1>8. ASSUME NEW s \in Restorers, s # r,
             pc'[s] \in {"upload", "record", "keep status", "replace"}
      PROVE  Accounted(s)'
  <2>1. Accounted(s) /\ pc'[s] = pc[s]
    BY <1>1, <1>8 DEF AllAccounted, TypeOK
  <2> QED BY <1>1, <1>6, <2>1 DEF Accounted
<1>9. Accounted(r)'
  <2>1. Accounted(r)
    BY <1>1 DEF AllAccounted
  <2> QED BY <1>1, <1>6, <1>7, <2>1 DEF Accounted
<1> QED BY <1>5, <1>8, <1>9 DEF AllAccounted

(* What the database loses is in the bucket, or was warned of.             *)
LEMMA ReplaceUndone ==
  ASSUME TypeOK, AllAccounted, RestoreCanBeUndone, NEW r \in Restorers, Replace(r)
  PROVE  AllAccounted' /\ RestoreCanBeUndone'
<1>1. /\ pc[r] = "replace" /\ pc' = [pc EXCEPT ![r] = "put back"]
      /\ warned' = warned \cup since[r] /\ UNCHANGED <<bucket, copy, since, made>>
  BY DEF Replace, Move
<1>2. Accounted(r)
  BY <1>1 DEF AllAccounted
<1>3. RestoreCanBeUndone'
  BY <1>1, <1>2 DEF Accounted, InBucket, RestoreCanBeUndone
<1>4. ASSUME NEW s \in Restorers, pc'[s] \in {"upload", "record", "keep status", "replace"}
      PROVE  Accounted(s)'
  <2>1. Accounted(s) /\ pc'[s] = pc[s]
    BY <1>1, <1>4 DEF AllAccounted, TypeOK
  <2> QED BY <1>1, <2>1 DEF Accounted, InBucket
<1> QED BY <1>3, <1>4 DEF AllAccounted

LEMMA AppUndone ==
  ASSUME TypeOK, AllAccounted, RestoreCanBeUndone, App, ~Commit
  PROVE  AllAccounted' /\ RestoreCanBeUndone'
<1>1. UNCHANGED <<bucket, run, made, warned>>
  BY DEF App, ResetIcon, SaveIcon, ReadRow, Answer
<1>2. database'.commits = database.commits
  <2>1. database \in Content
    BY DEF TypeOK
  <2>2. CASE ResetIcon
    BY <2>1, <2>2, WithoutIconIs DEF ResetIcon
  <2>3. ASSUME NEW v \in Versions, SaveIcon(v) PROVE database'.commits = database.commits
    BY <2>3, SaveIconIs
  <2>4. ASSUME UNCHANGED database PROVE database'.commits = database.commits
    BY <2>4
  <2> QED BY <2>2, <2>3, <2>4 DEF App, ReadRow, Answer
<1> QED BY <1>1, <1>2, CalmSteps DEF run

LEMMA CommandUndone ==
  ASSUME TypeOK, RunsAreUnderway, AllAccounted, RestoreCanBeUndone,
         NEW r \in Restorers, Command(r)
  PROVE  AllAccounted' /\ RestoreCanBeUndone'
<1>1. ASSUME NEW to, pc' = [pc EXCEPT ![r] = to], UNCHANGED <<bucket, made, warned>>,
             database'.commits = database.commits,
             \/ to \in {"idle", "confirm", "put back", "migrate"}
             \/ /\ pc[r] \in {"record", "keep status", "replace"} /\ to \in {"keep status", "replace"}
                /\ since'[r] = since[r] /\ copy'[r] = copy[r],
             \A s \in Restorers : s # r => since'[s] = since[s] /\ copy'[s] = copy[s]
      PROVE  AllAccounted' /\ RestoreCanBeUndone'
  BY <1>1, CalmSteps DEF TypeOK
<1>2. ASSUME Over(r), pc' = [pc EXCEPT ![r] = "idle"], UNCHANGED <<database, bucket, made, warned>>
      PROVE  AllAccounted' /\ RestoreCanBeUndone'
  BY <1>1, <1>2 DEF Over, TypeOK
<1>3. \A k : [database EXCEPT !.recorded = k].commits = database.commits
  BY DEF TypeOK, Content
<1>4. ASSUME NEW k \in Keys, Download(r, k) PROVE AllAccounted' /\ RestoreCanBeUndone'
  BY <1>1, <1>4 DEF Download, Move
<1>5. CASE UploadFails(r)
  <2>1. AfterBackup("not uploaded") = "idle" /\ pc'[r] = "idle"
    BY <1>5 DEF UploadFails, AfterBackup, Move, TypeOK
  <2> QED BY <1>2, <1>5, <2>1 DEF UploadFails, Move
<1>6. CASE Record(r) \/ RecordFails(r)
  <2>1. AfterBackup("uploaded") = "keep status" /\ AfterBackup("not recorded") = "keep status"
    BY DEF AfterBackup
  <2> QED BY <1>1, <1>3, <1>6, <2>1 DEF Record, RecordFails, Move
<1>7. CASE KeepStatus(r) \/ PutBack(r)
  BY <1>1, <1>3, <1>7 DEF KeepStatus, PutBack, Move
<1>8. CASE Migrate(r) \/ GiveUp(r)
  BY <1>2, <1>8 DEF Migrate, GiveUp, Move
<1> QED BY <1>4, <1>5, <1>6, <1>7, <1>8, ConfirmUndone, UploadUndone, ReplaceUndone DEF Command

(* Whatever fails or is killed, and however many restores run at once, no  *)
(* commit is lost that the command didn't warn of: each is in the database *)
(* or in an object that can be restored in its turn.                       *)
THEOREM RestoresCanBeUndone == Spec => []RestoreCanBeUndone
<1>1. Init => AllAccounted /\ RestoreCanBeUndone
  BY DEF Init, AllAccounted, RestoreCanBeUndone
<1>2. TypeOK /\ RunsAreUnderway /\ AllAccounted /\ RestoreCanBeUndone /\ [Next]_vars =>
        AllAccounted' /\ RestoreCanBeUndone'
  <2> SUFFICES ASSUME TypeOK, RunsAreUnderway, AllAccounted, RestoreCanBeUndone, [Next]_vars
               PROVE  AllAccounted' /\ RestoreCanBeUndone'
    OBVIOUS
  <2>1. CASE App
    BY <2>1, CommitUndone, AppUndone
  <2>2. CASE Restart
    BY <2>2, CalmSteps DEF Restart
  <2>3. CASE UNCHANGED vars
    BY <2>3, CalmSteps DEF vars, run
  <2> QED BY <2>1, <2>2, <2>3, CommandUndone DEF Next
<1> QED BY <1>1, <1>2, TypeCorrect, PTL DEF Spec

------------------------------------------------------------------------------
(* What browsers keep of the icon.                                         *)

(* A row that is gone needs no file; a new one has one that nobody had.    *)
LEMMA UploadsKeepIcons ==
  ASSUME TypeOK, Kept(database), RowsReadHold, UNCHANGED reading,
         ResetIcon \/ \E v \in Versions : SaveIcon(v)
  PROVE  Kept(database)' /\ RowsReadHold'
<1>1. database \in Content /\ IconKept(database) /\ database.used \in 0 .. MaxFiles
  BY ContentFields DEF TypeOK, Kept
<1>2. \A q \in Readers : reading[q] # None => reading[q].icon.file \in FileKeys
  BY DEF TypeOK, Icon
<1>3. CASE ResetIcon
  <2>1. /\ database'.icon = None /\ database'.used = database.used
        /\ \A f \in FileKeys : database'.files[f] \in {database.files[f], None}
    BY <1>1, <1>3, WithoutIconIs DEF ResetIcon
  <2>2. IconKept(database)'
    BY <1>1, <2>1 DEF IconKept
  <2>3. RowsReadHold'
    BY <1>2, <2>1 DEF RowsReadHold
  <2> QED BY <2>2, <2>3 DEF Kept
<1>4. ASSUME NEW v \in Versions, SaveIcon(v) PROVE Kept(database)' /\ RowsReadHold'
  <2>1. /\ database'.icon = [version |-> v, file |-> database.used + 1]
        /\ database'.used = database.used + 1
        /\ database'.files[database.used + 1] = v
        /\ \A f \in FileKeys \ {database.used + 1} :
             database'.files[f] \in {database.files[f], None}
    BY <1>4, SaveIconIs
  <2>2. database.used \in Nat /\ \A f \in FileKeys : f \in Nat
    BY <1>1, RestoreAssumption DEF FileKeys
  <2>3. IconKept(database)'
    BY <1>1, <2>1, <2>2 DEF IconKept
  <2>4. RowsReadHold'
    <3> SUFFICES ASSUME NEW q \in Readers, reading[q] # None, ~reading[q].replaced
                 PROVE  /\ database'.files[reading[q].icon.file] \in {reading[q].icon.version, None}
                        /\ reading[q].icon.file <= database'.used
      BY DEF RowsReadHold
    <3>1. /\ database.files[reading[q].icon.file] \in {reading[q].icon.version, None}
          /\ reading[q].icon.file <= database.used
      BY DEF RowsReadHold
    <3> QED BY <1>2, <2>1, <2>2, <3>1
  <2> QED BY <2>3, <2>4 DEF Kept
<1> QED BY <1>3, <1>4

(* A write that leaves the icon and the files.                             *)
LEMMA OtherWritesKeepIcons ==
  ASSUME TypeOK, Kept(database), RowsReadHold, UNCHANGED reading,
         \/ database' = database
         \/ \E k \in Keys \cup {None} : database' = [database EXCEPT !.recorded = k]
         \/ \E c : database' = [database EXCEPT !.commits = @ \cup {c}]
  PROVE  Kept(database)' /\ RowsReadHold'
<1>1. /\ database'.icon = database.icon /\ database'.files = database.files
      /\ database'.used = database.used
  BY DEF TypeOK, Content
<1> QED BY <1>1 DEF TypeOK, Kept, IconKept, RowsReadHold

LEMMA AppKeepsIcons ==
  ASSUME TypeOK, IconInv, App
  PROVE  IconInv'
<1>1. UNCHANGED <<bucket, held, copy>>
  BY DEF App, Commit, ResetIcon, SaveIcon, ReadRow, Answer, run
<1>2. Kept(database)' /\ RowsReadHold'
  <2>1. CASE Commit
    BY <2>1, OtherWritesKeepIcons DEF Commit, IconInv
  <2>2. CASE ResetIcon \/ \E v \in Versions : SaveIcon(v)
    BY <2>2, UploadsKeepIcons DEF IconInv, ResetIcon, SaveIcon
  <2>3. ASSUME NEW q \in Readers, NEW v \in Versions, ReadRow(q, v)
        PROVE  Kept(database)' /\ RowsReadHold'
    <3>1. /\ database' = database /\ database.icon # None
          /\ reading' = [reading EXCEPT ![q] = [asked |-> v, icon |-> database.icon,
                                               replaced |-> FALSE]]
      BY <2>3 DEF ReadRow
    <3>2. /\ database.files[database.icon.file] = database.icon.version
          /\ database.icon.file <= database.used
      BY <3>1 DEF IconInv, Kept, IconKept, TypeOK
    <3> QED BY <3>1, <3>2 DEF IconInv, Kept, IconKept, RowsReadHold, TypeOK
  <2>4. ASSUME NEW q \in Readers, Answer(q) PROVE Kept(database)' /\ RowsReadHold'
    BY <2>4 DEF Answer, IconInv, Kept, IconKept, RowsReadHold, TypeOK
  <2> QED BY <2>1, <2>2, <2>3, <2>4 DEF App
<1> QED BY <1>1, <1>2 DEF IconInv, Kept, IconKept

LEMMA CommandKeepsIcons ==
  ASSUME TypeOK, RunsAreUnderway, IconInv, NEW r \in Restorers, Command(r)
  PROVE  IconInv'
<1>1. ASSUME \/ database' = database
             \/ \E k \in Keys \cup {None} : database' = [database EXCEPT !.recorded = k],
             UNCHANGED reading
      PROVE  Kept(database)' /\ RowsReadHold'
  BY <1>1, OtherWritesKeepIcons DEF IconInv
<1>2. ASSUME UNCHANGED <<bucket, held, copy>>, Kept(database)', RowsReadHold' PROVE IconInv'
  BY <1>2 DEF IconInv, Kept, IconKept
<1>3. ASSUME UNCHANGED <<bucket, database, reading>>, Over(r) PROVE IconInv'
  <2>1. ~ (None \in Content)
    BY RestoreAssumption
  <2>2. \A s \in Restorers : held'[s] \in {held[s], None} /\ copy'[s] \in {copy[s], None}
    BY <1>3 DEF Over, TypeOK
  <2> QED BY <1>1, <1>3, <2>1, <2>2 DEF IconInv, Kept, IconKept
<1>4. ASSUME NEW k \in Keys, Download(r, k) PROVE IconInv'
  <2>1. \A s \in Restorers : held'[s] \in {held[s], bucket[k]}
    BY <1>4 DEF Download, TypeOK
  <2>2. UNCHANGED <<database, bucket, copy, reading>>
    BY <1>4 DEF Download
  <2> QED BY <1>1, <2>1, <2>2 DEF IconInv, Kept, IconKept
<1>5. ASSUME NEW k \in Keys, Confirm(r, k) PROVE IconInv'
  <2>1. \A s \in Restorers : copy'[s] \in {copy[s], database}
    BY <1>5 DEF Confirm, TypeOK
  <2>2. UNCHANGED <<database, bucket, held, reading>>
    BY <1>5 DEF Confirm
  <2> QED BY <1>1, <2>1, <2>2 DEF IconInv, Kept, IconKept
<1>6. CASE Upload(r)
  <2>1. \A k \in Keys : bucket'[k] \in {bucket[k], copy[r]}
    BY <1>6 DEF Upload, TypeOK
  <2>2. UNCHANGED <<database, held, copy, reading>>
    BY <1>6 DEF Upload
  <2> QED BY <1>1, <2>1, <2>2 DEF IconInv, Kept, IconKept
<1>7. CASE UploadFails(r)
  <2>1. AfterBackup("not uploaded") = "idle" /\ pc'[r] = "idle"
    BY <1>7 DEF UploadFails, AfterBackup, Move, TypeOK
  <2> QED BY <1>3, <1>7, <2>1 DEF UploadFails
<1>8. CASE Record(r) \/ RecordFails(r) \/ KeepStatus(r) \/ PutBack(r)
  BY <1>1, <1>2, <1>8 DEF Record, RecordFails, KeepStatus, PutBack, TypeOK
<1>9. CASE Replace(r)
  <2>1. database' = held[r] /\ UNCHANGED <<bucket, held, copy>>
    BY <1>9 DEF Replace
  <2>2. Kept(database)'
    BY <2>1 DEF IconInv, Kept, IconKept
  <2>3. \A q \in Readers : reading'[q] # None => reading'[q].replaced
    BY <1>9 DEF Replace, TypeOK
  <2>4. RowsReadHold'
    BY <2>3 DEF RowsReadHold
  <2> QED BY <1>2, <2>1, <2>2, <2>4
<1>10. CASE Migrate(r) \/ GiveUp(r)
  BY <1>3, <1>10 DEF Migrate, GiveUp
<1> QED BY <1>4, <1>5, <1>6, <1>7, <1>8, <1>9, <1>10 DEF Command

LEMMA RestartKeepsIcons ==
  ASSUME IconInv, Restart PROVE IconInv'
<1>1. /\ \A r \in Restorers : held'[r] = None /\ copy'[r] = None
      /\ \A q \in Readers : reading'[q] = None
      /\ UNCHANGED <<database, bucket>>
  BY DEF Restart
<1> QED BY <1>1, RestoreAssumption DEF IconInv, Kept, IconKept, RowsReadHold

LEMMA IconInvSuffices ==
  ASSUME TypeOK, IconInv PROVE CachedIconIsItsVersion
<1>1. ASSUME NEW q \in Readers, reading[q] # None, ~reading[q].replaced
      PROVE  KeepsItsVersion(q)
  BY <1>1 DEF KeepsItsVersion, Response, Cacheable, IconInv, RowsReadHold
<1>2. ASSUME NEW d \in {database} \cup {bucket[k] : k \in Keys}, d # None, d.icon # None
      PROVE  d.files[d.icon.file] = d.icon.version
  <2>1. d \in Content
    BY <1>2 DEF TypeOK
  <2>2. Kept(d)
    BY DEF IconInv
  <2> QED BY <1>2, <2>1, <2>2 DEF Kept, IconKept
<1> QED BY <1>1, <1>2 DEF CachedIconIsItsVersion

(* However uploads and resets come between the two reads of app_icon(),    *)
(* what it lets browsers keep for a year as a version is that image, if no *)
(* restore comes between them (see NoRequestSeesAMix for when one does);   *)
(* and through all backups and restores each icon's row has its own image. *)
THEOREM CachedIconsAreTrue == Spec => []CachedIconIsItsVersion
<1>1. Init => IconInv
  <2> SUFFICES ASSUME Init PROVE IconInv
    OBVIOUS
  <2>1. IconKept(Empty)
    BY DEF Empty, IconKept
  <2>2. /\ database = Empty /\ \A k \in Keys : bucket[k] \in {Empty, None}
        /\ \A r \in Restorers : held[r] = None /\ copy[r] = None
        /\ \A q \in Readers : reading[q] = None
    BY DEF Init
  <2> QED BY <2>1, <2>2, RestoreAssumption DEF IconInv, Kept, RowsReadHold
<1>2. TypeOK /\ RunsAreUnderway /\ IconInv /\ [Next]_vars => IconInv'
  <2> SUFFICES ASSUME TypeOK, RunsAreUnderway, IconInv, [Next]_vars PROVE IconInv'
    OBVIOUS
  <2>1. CASE UNCHANGED vars
    BY <2>1 DEF vars, run, IconInv, Kept, IconKept, RowsReadHold
  <2> QED BY <2>1, AppKeepsIcons, CommandKeepsIcons, RestartKeepsIcons DEF Next
<1>3. TypeOK /\ IconInv => CachedIconIsItsVersion
  BY IconInvSuffices
<1> QED BY <1>1, <1>2, <1>3, TypeCorrect, PTL DEF Spec

=============================================================================
