------------------------- MODULE AttachmentsProofs -------------------------
(***************************************************************************)
(* That attachments keep their files and their parents, for any number of  *)
(* rows and requests.                                                      *)
(*                                                                         *)
(* What makes it so is that a key is never used twice and that a request   *)
(* which knows a file's name from earlier can only know a file that is its *)
(* row's or nobody's any more: DoomedOwn.                                  *)
(***************************************************************************)
EXTENDS Attachments, TLAPS

(* The files a deletion will take with it are no other row's.              *)
Own(fs) ==
  \A a \in Attachments : fs[a] # None =>
    \A b \in Existing : file[b][1] = fs[a][1] => b = a

DoomedOwn == \A r \in Deleters : Own(doomed[r])

FilesInv == FilesPresent /\ DoomedOwn

-----------------------------------------------------------------------------
(* What the steps do to the rows.                                          *)

LEMMA NoFileIs == /\ NoFile \in [Attachments -> {None}]
                  /\ \A a \in Attachments : NoFile[a] = None
BY DEF NoFile

(* FilesOf gives the files of rows that are there.                         *)
LEMMA FilesOfHas ==
  ASSUME TypeOK, NEW A \in SUBSET Existing
  PROVE  /\ FilesOf(A) \in [Attachments -> FileNames]
         /\ \A a \in Attachments : FilesOf(A)[a] = IF a \in A THEN file[a] ELSE None
         /\ \A a \in A : a \in Attachments /\ FilesOf(A)[a] # None
BY DEF FilesOf, TypeOK, Existing, FileNames

(* Saving one row leaves the others.                                       *)
LEMMA SaveRowTypes ==
  ASSUME TypeOK, NEW a \in Attachments, NEW i \in ItemsThere \cup {None},
         NEW d \in DocumentsThere \cup {None}, NEW y \in Years \cup {None},
         NEW f \in Files \X Names, SaveRow(a, i, d, y, f), UNCHANGED parents
  PROVE  /\ item' \in [Attachments -> Items \cup {None}]
         /\ doc' \in [Attachments -> Documents \cup {None}]
         /\ dated' \in [Attachments -> Years \cup {None}]
         /\ file' \in [Attachments -> FileNames]
         /\ References'
         /\ file'[a] = f /\ item'[a] = i /\ doc'[a] = d
         /\ \A b \in Attachments \ {a} :
              file'[b] = file[b] /\ item'[b] = item[b] /\ doc'[b] = doc[b]
<1>1. /\ item \in [Attachments -> Items \cup {None}]
      /\ doc \in [Attachments -> Documents \cup {None}]
      /\ dated \in [Attachments -> Years \cup {None}]
      /\ file \in [Attachments -> FileNames]
      /\ References
  BY DEF TypeOK
<1>2. Filled(y, f[2]) \in Years \cup {None}
  BY AttachmentAssumption DEF Filled
<1>3. /\ item' \in [Attachments -> Items \cup {None}]
      /\ doc' \in [Attachments -> Documents \cup {None}]
      /\ dated' \in [Attachments -> Years \cup {None}]
      /\ file' \in [Attachments -> FileNames]
  BY <1>1, <1>2 DEF SaveRow, ItemsThere, DocumentsThere, FileNames
<1>4. /\ file'[a] = f /\ item'[a] = i /\ doc'[a] = d
      /\ \A b \in Attachments \ {a} :
           file'[b] = file[b] /\ item'[b] = item[b] /\ doc'[b] = doc[b]
  BY <1>1 DEF SaveRow
<1>5. ItemsThere' = ItemsThere /\ DocumentsThere' = DocumentsThere
  BY DEF parents, ItemsThere, DocumentsThere
<1>6. f # None
  BY AttachmentAssumption
<1>7. References'
  BY <1>1, <1>4, <1>5, <1>6 DEF References
<1> QED BY <1>3, <1>4, <1>7

(* Deletion with what is attached.                                         *)
LEMMA DeleteFromTypes ==
  ASSUME TypeOK, NEW P, NEW fs \in [Attachments -> FileNames],
         ~LeavesDangling(P, fs), DeleteFrom(P, fs)
  PROVE  /\ itemYear' \in [Items -> Years \cup {None}]
         /\ docYear' \in [Documents -> Years \cup {None}]
         /\ item' \in [Attachments -> Items \cup {None}]
         /\ doc' \in [Attachments -> Documents \cup {None}]
         /\ dated' \in [Attachments -> Years \cup {None}]
         /\ file' \in [Attachments -> FileNames]
         /\ stored' = {f \in stored : ~Refers(fs, f)}
         /\ References'
         /\ \A a \in Attachments :
              IF fs[a] # None THEN file'[a] = None
              ELSE file'[a] = file[a] /\ item'[a] = item[a] /\ doc'[a] = doc[a]
<1>1. /\ item \in [Attachments -> Items \cup {None}]
      /\ doc \in [Attachments -> Documents \cup {None}]
      /\ dated \in [Attachments -> Years \cup {None}]
      /\ file \in [Attachments -> FileNames]
      /\ References
      /\ itemYear \in [Items -> Years \cup {None}]
      /\ docYear \in [Documents -> Years \cup {None}]
  BY DEF TypeOK
<1>2. /\ itemYear' = [i \in Items |-> IF i \in P THEN None ELSE itemYear[i]]
      /\ docYear' = [d \in Documents |-> IF d \in P THEN None ELSE docYear[d]]
      /\ item' = [a \in Attachments |-> IF fs[a] # None THEN None ELSE item[a]]
      /\ doc' = [a \in Attachments |-> IF fs[a] # None THEN None ELSE doc[a]]
      /\ dated' = [a \in Attachments |-> IF fs[a] # None THEN None ELSE dated[a]]
      /\ file' = [a \in Attachments |-> IF fs[a] # None THEN None ELSE file[a]]
      /\ stored' = {f \in stored : ~Refers(fs, f)}
  BY DEF DeleteFrom
<1>3. ASSUME NEW a \in Attachments
      PROVE item'[a] \in ItemsThere' \cup {None} /\ doc'[a] \in DocumentsThere' \cup {None}
  <2>1. CASE fs[a] # None
    BY <1>2, <2>1
  <2>2. CASE fs[a] = None
    <3>1. item'[a] = item[a] /\ doc'[a] = doc[a]
      BY <1>2, <2>2
    <3>2. item[a] \in ItemsThere \cup {None} /\ doc[a] \in DocumentsThere \cup {None}
      BY <1>1 DEF References
    <3>3. file[a] # None => item[a] \notin P /\ doc[a] \notin P
      BY <2>2 DEF LeavesDangling, AttachedTo, Existing
    <3>4. file[a] = None => item[a] = None /\ doc[a] = None
      BY <1>1 DEF References
    <3>5. item'[a] \in ItemsThere' \cup {None}
      BY <1>2, <3>1, <3>2, <3>3, <3>4 DEF ItemsThere
    <3>6. doc'[a] \in DocumentsThere' \cup {None}
      BY <1>2, <3>1, <3>2, <3>3, <3>4 DEF DocumentsThere
    <3> QED BY <3>5, <3>6
  <2> QED BY <2>1, <2>2
<1>4. ASSUME NEW a \in Attachments, file'[a] = None
      PROVE item'[a] = None /\ doc'[a] = None
  BY <1>1, <1>2, <1>4 DEF References
<1>5. References'
  BY <1>3, <1>4 DEF References
<1> QED BY <1>1, <1>2, <1>5 DEF FileNames

(* An import adds rows with files of their own and leaves the others.      *)
Imported(N, row, key, i, d) ==
  /\ item' \in [Attachments -> Items \cup {None}]
  /\ doc' \in [Attachments -> Documents \cup {None}]
  /\ dated' \in [Attachments -> Years \cup {None}]
  /\ file' \in [Attachments -> FileNames]
  /\ stored' \subseteq Files /\ stored \subseteq stored'
  /\ \A a \in Attachments :
       \/ file'[a] = file[a] /\ item'[a] = item[a] /\ doc'[a] = doc[a]
       \/ \E n \in N : /\ row[n] = a
                       /\ file'[a] = <<key[n], Kept[n]>>
                       /\ item'[a] = i[n] /\ doc'[a] = d[n]
  /\ \A n \in N : file[row[n]] = None /\ FreeFile(key[n]) /\ key[n] \in stored'
  /\ \A m, n \in N : m # n => row[m] # row[n] /\ key[m] # key[n]

LEMMA ImportGives ==
  ASSUME TypeOK, NEW N \in SUBSET Names,
         NEW row \in [N -> Attachments], NEW key \in [N -> Files],
         NEW i \in [N -> Items \cup {None}], NEW d \in [N -> Documents \cup {None}],
         Import(row, key, i, d)
  PROVE  Imported(N, row, key, i, d)
<1>1. /\ item \in [Attachments -> Items \cup {None}]
      /\ doc \in [Attachments -> Documents \cup {None}]
      /\ dated \in [Attachments -> Years \cup {None}]
      /\ file \in [Attachments -> FileNames]
      /\ stored \subseteq Files
  BY DEF TypeOK
<1>2. DOMAIN row = N
  OBVIOUS
<1>3. /\ \A n \in N : FreeRow(row[n]) /\ FreeFile(key[n])
      /\ \A m, n \in N : m # n => row[m] # row[n] /\ key[m] # key[n]
      /\ stored' = stored \cup {key[n] : n \in N}
      /\ item' = WithNew(item, row, i)
      /\ doc' = WithNew(doc, row, d)
      /\ dated' = WithNew(dated, row, [n \in N |-> DateIn[Kept[n]]])
      /\ file' = WithNew(file, row, [n \in N |-> <<key[n], Kept[n]>>])
  BY <1>2 DEF Import, NewKeys
<1>4. ASSUME NEW n \in N PROVE NameOf(row, row[n]) = n
  <2>1. NameOf(row, row[n]) \in N /\ row[NameOf(row, row[n])] = row[n]
    BY <1>2 DEF NameOf
  <2> QED BY <1>3, <2>1
<1>5. ASSUME NEW column, NEW value
      PROVE /\ WithNew(column, row, value) =
                 [a \in Attachments |-> IF \E n \in N : row[n] = a
                                        THEN value[NameOf(row, a)] ELSE column[a]]
            /\ \A n \in N : WithNew(column, row, value)[row[n]] = value[n]
            /\ \A a \in Attachments : (~\E n \in N : row[n] = a) =>
                 WithNew(column, row, value)[a] = column[a]
  BY <1>2, <1>4 DEF WithNew
<1>6. ASSUME NEW a \in Attachments, ~\E n \in N : row[n] = a
      PROVE /\ file'[a] = file[a] /\ item'[a] = item[a]
            /\ doc'[a] = doc[a] /\ dated'[a] = dated[a]
  BY <1>3, <1>5, <1>6
<1>7. ASSUME NEW n \in N
      PROVE /\ file'[row[n]] = <<key[n], Kept[n]>> /\ item'[row[n]] = i[n]
            /\ doc'[row[n]] = d[n] /\ dated'[row[n]] = DateIn[Kept[n]]
  BY <1>3, <1>5
<1>8. /\ DOMAIN item' = Attachments /\ DOMAIN doc' = Attachments
      /\ DOMAIN dated' = Attachments /\ DOMAIN file' = Attachments
      /\ item' = [a \in Attachments |-> item'[a]] /\ doc' = [a \in Attachments |-> doc'[a]]
      /\ dated' = [a \in Attachments |-> dated'[a]] /\ file' = [a \in Attachments |-> file'[a]]
  BY <1>3 DEF WithNew
<1>9. ASSUME NEW a \in Attachments
      PROVE /\ item'[a] \in Items \cup {None} /\ doc'[a] \in Documents \cup {None}
            /\ dated'[a] \in Years \cup {None} /\ file'[a] \in FileNames
  <2>1. CASE \E n \in N : row[n] = a
    <3>1. PICK n \in N : row[n] = a
      BY <2>1
    <3>2. n \in Names /\ key[n] \in Files /\ Kept[n] \in Names /\ DateIn[Kept[n]] \in Years \cup {None}
      BY AttachmentAssumption
    <3>3. /\ file'[a] = <<key[n], Kept[n]>> /\ item'[a] = i[n]
          /\ doc'[a] = d[n] /\ dated'[a] = DateIn[Kept[n]]
      BY <1>7, <3>1
    <3> QED BY <3>2, <3>3 DEF FileNames
  <2>2. CASE ~\E n \in N : row[n] = a
    BY <1>1, <1>6, <2>2
  <2> QED BY <2>1, <2>2
<1>10. /\ item' \in [Attachments -> Items \cup {None}]
       /\ doc' \in [Attachments -> Documents \cup {None}]
       /\ dated' \in [Attachments -> Years \cup {None}]
       /\ file' \in [Attachments -> FileNames]
  BY <1>8, <1>9
<1>11. ASSUME NEW a \in Attachments
       PROVE \/ file'[a] = file[a] /\ item'[a] = item[a] /\ doc'[a] = doc[a]
             \/ \E n \in N : /\ row[n] = a
                             /\ file'[a] = <<key[n], Kept[n]>>
                             /\ item'[a] = i[n] /\ doc'[a] = d[n]
  BY <1>6, <1>7
<1>12. stored' \subseteq Files /\ stored \subseteq stored'
  BY <1>1, <1>3
<1>13. \A n \in N : file[row[n]] = None /\ FreeFile(key[n]) /\ key[n] \in stored'
  BY <1>3 DEF FreeRow
<1> QED BY <1>3, <1>10, <1>11, <1>12, <1>13 DEF Imported

-----------------------------------------------------------------------------
(* Types.                                                                  *)

LEMMA PageTypes ==
  ASSUME TypeOK, Pages
  PROVE  TypeOK'
<1>1. ASSUME NEW i \in Items, NEW y \in Years, AddItem(i, y) \/ ChangeItem(i, y) PROVE TypeOK'
  <2>1. /\ itemYear' = [itemYear EXCEPT ![i] = y]
        /\ UNCHANGED <<docYear, item, doc, dated, file, stored,
                       doomed, doomedOf, target, loaded, into, lacking>>
    BY <1>1 DEF AddItem, ChangeItem, rows, deletions, moves, imports
  <2>2. itemYear' \in [Items -> Years \cup {None}] /\ ItemsThere \subseteq ItemsThere'
    BY <2>1, AttachmentAssumption DEF TypeOK, ItemsThere
  <2>3. References'
    BY <2>1, <2>2 DEF TypeOK, References, DocumentsThere
  <2> QED BY <2>1, <2>2, <2>3 DEF TypeOK
<1>2. ASSUME NEW d \in Documents, NEW y \in Years, AddDocument(d, y) PROVE TypeOK'
  <2>1. /\ docYear' = [docYear EXCEPT ![d] = y]
        /\ UNCHANGED <<itemYear, item, doc, dated, file, stored,
                       doomed, doomedOf, target, loaded, into, lacking>>
    BY <1>2 DEF AddDocument, rows, deletions, moves, imports
  <2>2. docYear' \in [Documents -> Years \cup {None}] /\ DocumentsThere \subseteq DocumentsThere'
    BY <2>1, AttachmentAssumption DEF TypeOK, DocumentsThere
  <2>3. References'
    BY <2>1, <2>2 DEF TypeOK, References, ItemsThere
  <2> QED BY <2>1, <2>2, <2>3 DEF TypeOK
<1>3. ASSUME NEW a \in Attachments, NEW i \in ItemsThere \cup {None},
             NEW d \in DocumentsThere \cup {None}, NEW y \in Years \cup {None},
             NEW f \in Files \X Names, SaveRow(a, i, d, y, f),
             stored' \subseteq Files, UNCHANGED <<parents, deletions, moves, imports>>
      PROVE TypeOK'
  <2>1. UNCHANGED parents
    BY <1>3
  <2>2. UNCHANGED <<itemYear, docYear, doomed, doomedOf, target, loaded, into, lacking>>
    BY <1>3 DEF parents, deletions, moves, imports
  <2> QED BY <1>3, <2>1, <2>2, SaveRowTypes DEF TypeOK
<1>4. ASSUME NEW a \in Attachments, NEW i \in Items \cup {None}, NEW d \in Documents \cup {None},
             NEW y \in Years \cup {None}, NEW f \in Files, NEW n \in Names,
             AddAttachment(a, i, d, y, f, n)
      PROVE TypeOK'
  <2>1. stored' \subseteq Files /\ <<f, Kept[n]>> \in Files \X Names
    BY <1>4, AttachmentAssumption DEF AddAttachment, TypeOK
  <2> QED BY <1>3, <1>4, <2>1 DEF AddAttachment
<1>5. ASSUME NEW a \in Attachments, NEW i \in Items \cup {None}, NEW d \in Documents \cup {None},
             NEW y \in Years \cup {None}, ChangeAttachment(a, i, d, y)
      PROVE TypeOK'
  <2>1. stored' \subseteq Files /\ file[a] \in Files \X Names
    BY <1>5 DEF ChangeAttachment, TypeOK, Existing, FileNames
  <2> QED BY <1>3, <1>5, <2>1 DEF ChangeAttachment
<1>6. ASSUME NEW a \in Attachments, NEW f \in Files, NEW n \in Names, ReplaceFile(a, f, n)
      PROVE TypeOK'
  <2>1. /\ stored' \subseteq Files /\ <<f, Kept[n]>> \in Files \X Names
        /\ item[a] \in ItemsThere \cup {None} /\ doc[a] \in DocumentsThere \cup {None}
        /\ dated[a] \in Years \cup {None}
    BY <1>6, AttachmentAssumption DEF ReplaceFile, TypeOK, References
  <2> QED BY <1>3, <1>6, <2>1 DEF ReplaceFile
<1>7. ASSUME NEW P, NEW A \in SUBSET Existing, ~LeavesDangling(P, FilesOf(A)),
             DeleteFrom(P, FilesOf(A)), UNCHANGED <<deletions, moves, imports>>
      PROVE TypeOK'
  <2>1. UNCHANGED <<doomed, doomedOf, target, loaded, into, lacking>>
    BY <1>7 DEF deletions, moves, imports
  <2>2. FilesOf(A) \in [Attachments -> FileNames]
    BY FilesOfHas
  <2> QED BY <1>7, <2>1, <2>2, DeleteFromTypes DEF TypeOK
<1>8. ASSUME NEW p \in Items \cup Documents, DeleteParent(p) PROVE TypeOK'
  <2>1. AttachedTo({p}) \in SUBSET Existing
    BY DEF AttachedTo
  <2>2. ~LeavesDangling({p}, FilesOf(AttachedTo({p})))
    BY <2>1, FilesOfHas DEF LeavesDangling
  <2> QED BY <1>7, <1>8, <2>1, <2>2 DEF DeleteParent
<1>9. ASSUME NEW a \in Attachments, DeleteAttachment(a) PROVE TypeOK'
  <2>1. {a} \in SUBSET Existing /\ AttachedTo({}) = {}
    BY <1>9 DEF AttachedTo, DeleteAttachment
  <2>2. ~LeavesDangling({}, FilesOf({a}))
    BY <2>1 DEF LeavesDangling
  <2> QED BY <1>7, <1>9, <2>1, <2>2 DEF DeleteAttachment
<1>10. ASSUME NEW N \in SUBSET Names, ImportDocuments(N) PROVE TypeOK'
  <2> DEFINE M == NewNames(N)
  <2>1. PICK row \in [M -> Attachments], key \in [M -> Files], new \in [M -> Documents] :
          /\ \A n \in M : docYear[new[n]] = None
          /\ \A m, n \in M : m # n => new[m] # new[n]
          /\ docYear' = [d \in Documents |->
               IF \E n \in M : new[n] = d
               THEN YearIn[CHOOSE n \in M : new[n] = d] ELSE docYear[d]]
          /\ Import(row, key, [n \in M |-> None], new)
    BY <1>10 DEF ImportDocuments
  <2>2. UNCHANGED <<itemYear, doomed, doomedOf, target, loaded, into, lacking>>
    BY <1>10 DEF ImportDocuments, deletions, moves, imports
  <2>3. M \in SUBSET Names /\ \A n \in M : YearIn[n] \in Years
    BY AttachmentAssumption DEF NewNames
  <2> HIDE DEF M
  <2>4. docYear' \in [Documents -> Years \cup {None}]
    BY <2>1, <2>3 DEF TypeOK
  <2>5. \A n \in M : new[n] \in DocumentsThere'
    BY <2>1, <2>3, AttachmentAssumption DEF DocumentsThere
  <2>6. DocumentsThere \subseteq DocumentsThere'
    <3>1. ASSUME NEW d \in DocumentsThere PROVE d \in Documents /\ docYear'[d] # None
      <4>1. ~\E n \in M : new[n] = d
        BY <2>1 DEF DocumentsThere
      <4> QED BY <2>1, <4>1 DEF DocumentsThere
    <3> QED BY <3>1 DEF DocumentsThere
  <2> DEFINE I == [n \in M |-> None]
  <2>7. /\ I \in [M -> Items \cup {None}] /\ new \in [M -> Documents \cup {None}]
        /\ \A n \in M : I[n] = None
        /\ Import(row, key, I, new)
    BY <2>1
  <2> HIDE DEF I
  <2>8. /\ item' \in [Attachments -> Items \cup {None}]
        /\ doc' \in [Attachments -> Documents \cup {None}]
        /\ dated' \in [Attachments -> Years \cup {None}]
        /\ file' \in [Attachments -> FileNames]
        /\ stored' \subseteq Files
        /\ \A a \in Attachments :
              \/ file'[a] = file[a] /\ item'[a] = item[a] /\ doc'[a] = doc[a]
              \/ \E n \in M : file'[a] = <<key[n], Kept[n]>> /\ item'[a] = None /\ doc'[a] = new[n]
    <3>1. Imported(M, row, key, I, new)
      BY <2>3, <2>7, ImportGives
    <3> QED BY <3>1, <2>7 DEF Imported
  <2>9. ItemsThere' = ItemsThere
    BY <2>2 DEF ItemsThere
  <2>10. \A n \in M : <<key[n], Kept[n]>> # None
    BY <2>3, AttachmentAssumption
  <2>11. References'
    BY <2>5, <2>6, <2>8, <2>9, <2>10 DEF TypeOK, References
  <2> QED BY <2>2, <2>4, <2>8, <2>11 DEF TypeOK
<1> QED BY <1>1, <1>2, <1>4, <1>5, <1>6, <1>8, <1>9, <1>10 DEF Pages

LEMMA DeleterTypes ==
  ASSUME TypeOK, NEW r \in Deleters, DeleteSelected(r)
  PROVE  TypeOK'
<1>1. ASSUME NEW P \in SUBSET (Items \cup Documents), NEW A \in SUBSET Attachments, Collect(r, P, A)
      PROVE TypeOK'
  <2>1. /\ doomedOf' = [doomedOf EXCEPT ![r] = P]
        /\ doomed' = [doomed EXCEPT ![r] = FilesOf(A \cup AttachedTo(P))]
        /\ UNCHANGED <<itemYear, docYear, item, doc, dated, file, stored, target, loaded, into, lacking>>
    BY <1>1 DEF Collect, parents, rows, moves, imports
  <2>2. A \cup AttachedTo(P) \in SUBSET Existing
    BY <1>1 DEF Collect, AttachedTo
  <2>3. FilesOf(A \cup AttachedTo(P)) \in [Attachments -> FileNames]
    BY <2>2, FilesOfHas
  <2>4. References'
    BY <2>1 DEF TypeOK, References, ItemsThere, DocumentsThere
  <2> QED BY <2>1, <2>3, <2>4 DEF TypeOK
<1>2. ASSUME DeletionOver(r) PROVE /\ doomed' \in [Deleters -> [Attachments -> FileNames]]
                                   /\ doomedOf' \in [Deleters -> SUBSET (Items \cup Documents)]
  BY <1>2, NoFileIs DEF DeletionOver, TypeOK, FileNames
<1>3. ASSUME DeleteCollected(r) PROVE TypeOK'
  <2>1. UNCHANGED <<target, loaded, into, lacking>>
    BY <1>3 DEF DeleteCollected, moves, imports
  <2>2. doomed[r] \in [Attachments -> FileNames]
    BY DEF TypeOK
  <2>3. DeletionOver(r) /\ DeleteFrom(doomedOf[r], doomed[r]) /\ ~LeavesDangling(doomedOf[r], doomed[r])
    BY <1>3 DEF DeleteCollected
  <2> QED BY <1>2, <2>1, <2>2, <2>3, DeleteFromTypes DEF TypeOK
<1>4. ASSUME DeletionRefused(r) PROVE TypeOK'
  <2>1. UNCHANGED <<itemYear, docYear, item, doc, dated, file, stored, target, loaded, into, lacking>>
    BY <1>4 DEF DeletionRefused, parents, rows, moves, imports
  <2>2. References'
    BY <2>1 DEF TypeOK, References, ItemsThere, DocumentsThere
  <2> QED BY <1>2, <1>4, <2>1, <2>2 DEF DeletionRefused, TypeOK
<1> QED BY <1>1, <1>3, <1>4 DEF DeleteSelected

(* Moving rows leaves their files alone, and the other rows.               *)
LEMMA ReassignGives ==
  ASSUME TypeOK, NEW r \in Movers, Reassign(r)
  PROVE  /\ file' = file
         /\ UNCHANGED <<itemYear, docYear, doc, dated, stored, doomed, doomedOf, into, lacking>>
         /\ item' \in [Attachments -> Items \cup {None}]
         /\ \A a \in Attachments :
              \/ item'[a] = item[a]
              \/ /\ a \in Existing /\ item'[a] \in ItemsThere
                 /\ OneParent(item'[a], doc[a])
<1>1. /\ item' = [a \in Attachments |-> IF a \in Moving(r) THEN target[r][a] ELSE item[a]]
      /\ file' = [a \in Attachments |-> IF a \in Moving(r) THEN file[a] ELSE file[a]]
      /\ \A a \in Moving(r) : a \in Existing /\ target[r][a] \in ItemsThere /\ OneParent(target[r][a], doc[a])
      /\ UNCHANGED <<itemYear, docYear, doc, dated, stored, doomed, doomedOf, into, lacking>>
  BY DEF Reassign, Fits, FileSaved, parents, deletions, imports
<1>2. file \in [Attachments -> FileNames] /\ item \in [Attachments -> Items \cup {None}]
  BY DEF TypeOK
<1>3. file' = file
  BY <1>1, <1>2
<1>4. item' \in [Attachments -> Items \cup {None}]
  BY <1>1, <1>2 DEF ItemsThere
<1> QED BY <1>1, <1>3, <1>4

LEMMA MoverTypes ==
  ASSUME TypeOK, NEW r \in Movers, ReassignAttachments(r)
  PROVE  TypeOK'
<1>1. ASSUME NEW i \in Items, NEW A \in SUBSET Attachments, OpenReassign(r, i, A) PROVE TypeOK'
  <2> DEFINE Where == [a \in Attachments |->
          IF a \in A THEN CHOOSE j \in Items : Equivalents(dated[a]) = {j} ELSE None]
  <2>1. /\ target' = [target EXCEPT ![r] = Where]
        /\ loaded' = [loaded EXCEPT ![r] = FilesOf(A)]
        /\ UNCHANGED <<itemYear, docYear, item, doc, dated, file, stored, doomed, doomedOf, into, lacking>>
        /\ \A a \in A : Movable(a, i)
    BY <1>1 DEF OpenReassign, parents, rows, deletions, imports
  <2>2. Where \in [Attachments -> Items \cup {None}]
    BY <2>1 DEF Movable
  <2> HIDE DEF Where
  <2>3. FilesOf(A) \in [Attachments -> FileNames]
    BY DEF FilesOf, TypeOK, FileNames
  <2>4. References'
    BY <2>1 DEF TypeOK, References, ItemsThere, DocumentsThere
  <2> QED BY <2>1, <2>2, <2>3, <2>4 DEF TypeOK
<1>2. ASSUME ReassignOver(r) PROVE /\ target' \in [Movers -> [Attachments -> Items \cup {None}]]
                                   /\ loaded' \in [Movers -> [Attachments -> FileNames]]
  BY <1>2, NoFileIs DEF ReassignOver, TypeOK, FileNames
<1>3. ASSUME Reassign(r) PROVE TypeOK'
  <2>1. /\ file' = file
        /\ UNCHANGED <<itemYear, docYear, doc, dated, stored, doomed, doomedOf, into, lacking>>
        /\ item' \in [Attachments -> Items \cup {None}]
        /\ \A a \in Attachments :
             item'[a] = item[a] \/ (a \in Existing /\ item'[a] \in ItemsThere)
    BY <1>3, ReassignGives
  <2>2. References'
    BY <2>1 DEF TypeOK, References, ItemsThere, DocumentsThere, Existing
  <2>3. ReassignOver(r)
    BY <1>3 DEF Reassign
  <2> QED BY <1>2, <2>1, <2>2, <2>3 DEF TypeOK
<1>4. ASSUME ReassignRefused(r) PROVE TypeOK'
  <2>1. UNCHANGED <<itemYear, docYear, item, doc, dated, file, stored, doomed, doomedOf, into, lacking>>
    BY <1>4 DEF ReassignRefused, parents, rows, deletions, imports
  <2>2. References'
    BY <2>1 DEF TypeOK, References, ItemsThere, DocumentsThere
  <2> QED BY <1>2, <1>4, <2>1, <2>2 DEF ReassignRefused, TypeOK
<1> QED BY <1>1, <1>3, <1>4 DEF ReassignAttachments

LEMMA ImporterTypes ==
  ASSUME TypeOK, NEW r \in Importers, ImportArchive(r)
  PROVE  TypeOK'
<1>1. ASSUME NEW i \in Items, NEW N \in SUBSET Names, OpenImport(r, i, N) PROVE TypeOK'
  <2>1. /\ into' = [into EXCEPT ![r] = i]
        /\ lacking' = [lacking EXCEPT ![r] = N \ NamesIn(AttachedTo({i}))]
        /\ UNCHANGED <<itemYear, docYear, item, doc, dated, file, stored, doomed, doomedOf, target, loaded>>
    BY <1>1 DEF OpenImport, parents, rows, deletions, moves
  <2>2. N \ NamesIn(AttachedTo({i})) \in SUBSET Names
    OBVIOUS
  <2>3. References'
    BY <2>1 DEF TypeOK, References, ItemsThere, DocumentsThere
  <2> QED BY <2>1, <2>2, <2>3 DEF TypeOK
<1>2. ASSUME ImportOver(r) PROVE /\ into' \in [Importers -> Items \cup {None}]
                                 /\ lacking' \in [Importers -> SUBSET Names]
  BY <1>2 DEF ImportOver, TypeOK
<1>3. ASSUME ImportIntoItem(r) PROVE TypeOK'
  <2> DEFINE M == lacking[r]
  <2>1. PICK row \in [M -> Attachments], key \in [M -> Files] :
          Import(row, key, [n \in M |-> into[r]], [n \in M |-> None])
    BY <1>3 DEF ImportIntoItem
  <2>2. /\ UNCHANGED <<itemYear, docYear, doomed, doomedOf, target, loaded>>
        /\ ImportOver(r) /\ (M # {} => into[r] \in ItemsThere)
    BY <1>3 DEF ImportIntoItem, parents, deletions, moves
  <2>3. M \in SUBSET Names
    BY DEF TypeOK
  <2> HIDE DEF M
  <2> DEFINE I == [n \in M |-> into[r]]
             D == [n \in M |-> None]
  <2>4. /\ I \in [M -> Items \cup {None}] /\ D \in [M -> Documents \cup {None}]
        /\ \A n \in M : I[n] = into[r] /\ D[n] = None
        /\ Import(row, key, I, D)
    BY <1>3, <2>1 DEF ImportIntoItem, NotImporting, TypeOK
  <2> HIDE DEF I, D
  <2>5. /\ item' \in [Attachments -> Items \cup {None}]
        /\ doc' \in [Attachments -> Documents \cup {None}]
        /\ dated' \in [Attachments -> Years \cup {None}]
        /\ file' \in [Attachments -> FileNames]
        /\ stored' \subseteq Files
        /\ \A a \in Attachments :
              \/ file'[a] = file[a] /\ item'[a] = item[a] /\ doc'[a] = doc[a]
              \/ \E n \in M : file'[a] = <<key[n], Kept[n]>> /\ item'[a] = into[r] /\ doc'[a] = None
    <3>1. Imported(M, row, key, I, D)
      BY <2>3, <2>4, ImportGives
    <3> QED BY <3>1, <2>4 DEF Imported
  <2>6. \A n \in M : <<key[n], Kept[n]>> # None
    BY <2>3, AttachmentAssumption
  <2>7. References'
    BY <2>2, <2>5, <2>6 DEF TypeOK, References, ItemsThere, DocumentsThere
  <2> QED BY <1>2, <2>2, <2>5, <2>7 DEF TypeOK
<1>4. ASSUME ImportRefused(r) PROVE TypeOK'
  <2>1. UNCHANGED <<itemYear, docYear, item, doc, dated, file, stored, doomed, doomedOf, target, loaded>>
    BY <1>4 DEF ImportRefused, parents, rows, deletions, moves
  <2>2. References'
    BY <2>1 DEF TypeOK, References, ItemsThere, DocumentsThere
  <2> QED BY <1>2, <1>4, <2>1, <2>2 DEF ImportRefused, TypeOK
<1> QED BY <1>1, <1>3, <1>4 DEF ImportArchive

(* Every value has its type, and an attachment's item and received         *)
(* document are there whatever is deleted (on_delete=CASCADE and SQLite's  *)
(* foreign keys).                                                          *)
THEOREM TypeCorrect == Spec => []TypeOK
<1>1. Init => TypeOK
  BY NoFileIs DEF Init, TypeOK, References, FileNames
<1>2. TypeOK /\ [Next]_vars => TypeOK'
  <2> SUFFICES ASSUME TypeOK, [Next]_vars PROVE TypeOK'
    OBVIOUS
  <2>1. CASE UNCHANGED vars
    BY <2>1 DEF vars, TypeOK, References, ItemsThere, DocumentsThere
  <2>2. CASE PurgeOrphanedFiles
    <3>1. /\ UNCHANGED <<itemYear, docYear, item, doc, dated, file, doomed, doomedOf,
                         target, loaded, into, lacking>>
          /\ stored' \subseteq stored
      BY <2>2 DEF PurgeOrphanedFiles, parents, rows, deletions, moves, imports
    <3> QED BY <3>1 DEF TypeOK, References, ItemsThere, DocumentsThere
  <2> QED BY <2>1, <2>2, PageTypes, DeleterTypes, MoverTypes, ImporterTypes DEF Next
<1> QED BY <1>1, <1>2, PTL DEF Spec

-----------------------------------------------------------------------------
(* Files.                                                                  *)

(* A step that adds rows, or gives rows other files, under fresh keys.     *)
LEMMA FreshFilesKeep ==
  ASSUME TypeOK, FilesInv, doomed' = doomed, stored \subseteq stored',
         \A b \in Existing' :
           \/ b \in Existing /\ file'[b] = file[b]
           \/ /\ FreeFile(file'[b][1])
              /\ file'[b][1] \in stored'
              /\ \A c \in Existing' : file'[c][1] = file'[b][1] => c = b
  PROVE  FilesInv'
<1>1. ASSUME NEW b \in Existing' PROVE file'[b][1] \in stored'
  BY DEF FilesInv, FilesPresent
<1>2. ASSUME NEW b \in Existing', NEW c \in Existing', file'[c][1] = file'[b][1] PROVE c = b
  BY <1>2 DEF FilesInv, FilesPresent
<1>3. ASSUME NEW r \in Deleters, NEW a \in Attachments, doomed[r][a] # None,
             NEW b \in Existing', file'[b][1] = doomed[r][a][1]
      PROVE b = a
  <2>1. CASE b \in Existing /\ file'[b] = file[b]
    BY <1>3, <2>1 DEF FilesInv, DoomedOwn, Own
  <2>2. CASE FreeFile(file'[b][1])
    BY <1>3, <2>2 DEF FreeFile, Refers
  <2> QED BY <2>1, <2>2
<1> QED BY <1>1, <1>2, <1>3 DEF FilesInv, FilesPresent, DoomedOwn, Own

(* A step that leaves the rows' files and the deletions alone.             *)
LEMMA SameFilesKeep ==
  ASSUME FilesInv, file' = file, stored' = stored, doomed' = doomed
  PROVE  FilesInv'
BY DEF FilesInv, FilesPresent, DoomedOwn, Own, Existing

(* What is deleted takes only its own files.                               *)
LEMMA DeleteKeeps ==
  ASSUME TypeOK, FilesInv, NEW P, NEW fs \in [Attachments -> FileNames],
         ~LeavesDangling(P, fs), DeleteFrom(P, fs), Own(fs),
         \A r \in Deleters : doomed'[r] = doomed[r] \/ doomed'[r] = NoFile
  PROVE  FilesInv'
<1>1. /\ stored' = {f \in stored : ~Refers(fs, f)}
      /\ \A a \in Attachments : IF fs[a] # None THEN file'[a] = None ELSE file'[a] = file[a]
  BY DeleteFromTypes
<1>2. ASSUME NEW b \in Existing' PROVE b \in Existing /\ file'[b] = file[b] /\ fs[b] = None
  BY <1>1 DEF Existing
<1>3. ASSUME NEW b \in Existing' PROVE file'[b][1] \in stored'
  <2>1. file[b][1] \in stored
    BY <1>2 DEF FilesInv, FilesPresent
  <2>2. ~Refers(fs, file[b][1])
    BY <1>2 DEF Refers, Own
  <2> QED BY <1>1, <1>2, <2>1, <2>2
<1>4. ASSUME NEW b \in Existing', NEW c \in Existing', file'[c][1] = file'[b][1] PROVE c = b
  BY <1>2, <1>4 DEF FilesInv, FilesPresent
<1>5. ASSUME NEW r \in Deleters PROVE Own(doomed[r])'
  <2>1. CASE doomed'[r] = doomed[r]
    BY <1>2, <2>1 DEF FilesInv, DoomedOwn, Own
  <2>2. CASE doomed'[r] = NoFile
    BY <2>2, NoFileIs DEF Own
  <2> QED BY <2>1, <2>2
<1>6. FilesPresent'
  BY <1>3, <1>4 DEF FilesPresent
<1> QED BY <1>5, <1>6 DEF FilesInv, DoomedOwn

LEMMA FilesOfOwn ==
  ASSUME TypeOK, FilesPresent, NEW A \in SUBSET Existing
  PROVE  Own(FilesOf(A))
BY FilesOfHas DEF Own, FilesPresent

LEMMA ImportKeeps ==
  ASSUME TypeOK, FilesInv, doomed' = doomed, NEW N \in SUBSET Names,
         NEW row \in [N -> Attachments], NEW key \in [N -> Files],
         NEW i \in [N -> Items \cup {None}], NEW d \in [N -> Documents \cup {None}],
         Import(row, key, i, d)
  PROVE  FilesInv'
<1>1. Imported(N, row, key, i, d)
  BY ImportGives
<1>2. /\ stored \subseteq stored'
      /\ \A a \in Attachments :
           file'[a] = file[a] \/ \E n \in N : row[n] = a /\ file'[a] = <<key[n], Kept[n]>>
      /\ \A n \in N : FreeFile(key[n]) /\ key[n] \in stored'
      /\ \A m, n \in N : m # n => key[m] # key[n]
  BY <1>1 DEF Imported
<1>3. ASSUME NEW b \in Existing', file'[b] # file[b]
      PROVE /\ FreeFile(file'[b][1])
            /\ file'[b][1] \in stored'
            /\ \A c \in Existing' : file'[c][1] = file'[b][1] => c = b
  <2>1. PICK n \in N : row[n] = b /\ file'[b] = <<key[n], Kept[n]>>
    BY <1>2, <1>3 DEF Existing
  <2>2. file'[b][1] = key[n]
    BY <2>1
  <2>3. ASSUME NEW c \in Existing', file'[c][1] = key[n] PROVE c = b
    <3>1. c \in Attachments /\ file'[c] # None
      BY DEF Existing
    <3>2. CASE file'[c] = file[c]
      BY <1>2, <2>3, <3>1, <3>2 DEF FreeFile, Refers
    <3>3. CASE \E m \in N : row[m] = c /\ file'[c] = <<key[m], Kept[m]>>
      BY <1>2, <2>1, <2>3, <3>3
    <3> QED BY <1>2, <3>1, <3>2, <3>3
  <2> QED BY <1>2, <2>2, <2>3
<1>4. \A b \in Existing' : file'[b] = file[b] => b \in Existing
  BY DEF Existing
<1> QED BY <1>2, <1>3, <1>4, FreshFilesKeep

LEMMA PagesKeep ==
  ASSUME TypeOK, FilesInv, Pages
  PROVE  FilesInv'
<1>1. ASSUME NEW i \in Items, NEW y \in Years, AddItem(i, y) \/ ChangeItem(i, y) PROVE FilesInv'
  BY <1>1, SameFilesKeep DEF AddItem, ChangeItem, rows, deletions
<1>2. ASSUME NEW d \in Documents, NEW y \in Years, AddDocument(d, y) PROVE FilesInv'
  BY <1>2, SameFilesKeep DEF AddDocument, rows, deletions
<1>3. ASSUME NEW a \in Attachments, NEW f \in Files, NEW n \in Names, FreeFile(f),
             stored' = stored \cup {f}, file' = [file EXCEPT ![a] = <<f, Kept[n]>>],
             doomed' = doomed
      PROVE FilesInv'
  <2>1. file'[a] = <<f, Kept[n]>> /\ file'[a][1] = f /\ \A b \in Attachments \ {a} : file'[b] = file[b]
    BY <1>3 DEF TypeOK
  <2>2. ASSUME NEW c \in Existing', file'[c][1] = f PROVE c = a
    BY <1>3, <2>1, <2>2 DEF Existing, FreeFile, Refers
  <2>3. \A b \in Existing' : b # a => b \in Existing /\ file'[b] = file[b]
    BY <2>1 DEF Existing
  <2> QED BY <1>3, <2>1, <2>2, <2>3, FreshFilesKeep
<1>4. ASSUME NEW a \in Attachments, NEW i \in Items \cup {None}, NEW d \in Documents \cup {None},
             NEW y \in Years \cup {None}, NEW f \in Files, NEW n \in Names,
             AddAttachment(a, i, d, y, f, n)
      PROVE FilesInv'
  BY <1>3, <1>4 DEF AddAttachment, SaveRow, deletions
<1>5. ASSUME NEW a \in Attachments, NEW i \in Items \cup {None}, NEW d \in Documents \cup {None},
             NEW y \in Years \cup {None}, ChangeAttachment(a, i, d, y)
      PROVE FilesInv'
  <2>1. file' = file /\ stored' = stored /\ doomed' = doomed
    BY <1>5 DEF ChangeAttachment, SaveRow, deletions, TypeOK
  <2> QED BY <2>1, SameFilesKeep
<1>6. ASSUME NEW a \in Attachments, NEW f \in Files, NEW n \in Names, ReplaceFile(a, f, n)
      PROVE FilesInv'
  BY <1>3, <1>6 DEF ReplaceFile, SaveRow, deletions
<1>7. ASSUME NEW P, NEW A \in SUBSET Existing, ~LeavesDangling(P, FilesOf(A)),
             DeleteFrom(P, FilesOf(A)), doomed' = doomed
      PROVE FilesInv'
  <2>1. FilesOf(A) \in [Attachments -> FileNames] /\ Own(FilesOf(A))
    BY FilesOfHas, FilesOfOwn DEF FilesInv
  <2> QED BY <1>7, <2>1, DeleteKeeps
<1>8. ASSUME NEW p \in Items \cup Documents, DeleteParent(p) PROVE FilesInv'
  <2>1. AttachedTo({p}) \in SUBSET Existing
    BY DEF AttachedTo
  <2>2. ~LeavesDangling({p}, FilesOf(AttachedTo({p})))
    BY <2>1, FilesOfHas DEF LeavesDangling
  <2> QED BY <1>7, <1>8, <2>1, <2>2 DEF DeleteParent, deletions
<1>9. ASSUME NEW a \in Attachments, DeleteAttachment(a) PROVE FilesInv'
  <2>1. {a} \in SUBSET Existing /\ AttachedTo({}) = {}
    BY <1>9 DEF AttachedTo, DeleteAttachment
  <2>2. ~LeavesDangling({}, FilesOf({a}))
    BY <2>1 DEF LeavesDangling
  <2> QED BY <1>7, <1>9, <2>1, <2>2 DEF DeleteAttachment, deletions
<1>10. ASSUME NEW N \in SUBSET Names, ImportDocuments(N) PROVE FilesInv'
  <2> DEFINE M == NewNames(N)
             I == [n \in M |-> None]
  <2>1. PICK row \in [M -> Attachments], key \in [M -> Files], new \in [M -> Documents] :
          Import(row, key, I, new)
    BY <1>10 DEF ImportDocuments
  <2>2. M \in SUBSET Names /\ doomed' = doomed
    BY <1>10 DEF NewNames, ImportDocuments, deletions
  <2>3. I \in [M -> Items \cup {None}] /\ new \in [M -> Documents \cup {None}]
    OBVIOUS
  <2> HIDE DEF M, I
  <2> QED BY <2>1, <2>2, <2>3, ImportKeeps
<1> QED BY <1>1, <1>2, <1>4, <1>5, <1>6, <1>8, <1>9, <1>10 DEF Pages

LEMMA RequestsKeep ==
  ASSUME TypeOK, FilesInv
  PROVE  /\ \A r \in Deleters : DeleteSelected(r) => FilesInv'
         /\ \A r \in Movers : ReassignAttachments(r) => FilesInv'
         /\ \A r \in Importers : ImportArchive(r) => FilesInv'
<1>1. ASSUME NEW r \in Deleters, NEW P \in SUBSET (Items \cup Documents),
             NEW A \in SUBSET Attachments, Collect(r, P, A)
      PROVE FilesInv'
  <2>1. /\ file' = file /\ stored' = stored
        /\ doomed' = [doomed EXCEPT ![r] = FilesOf(A \cup AttachedTo(P))]
        /\ A \cup AttachedTo(P) \in SUBSET Existing
    BY <1>1 DEF Collect, rows, AttachedTo
  <2>2. Own(FilesOf(A \cup AttachedTo(P)))
    BY <2>1, FilesOfOwn DEF FilesInv
  <2>3. ASSUME NEW s \in Deleters PROVE Own(doomed'[s])
    <3>1. doomed'[s] = IF s = r THEN FilesOf(A \cup AttachedTo(P)) ELSE doomed[s]
      BY <2>1 DEF TypeOK
    <3> QED BY <2>2, <3>1 DEF FilesInv, DoomedOwn
  <2>4. DoomedOwn' /\ FilesPresent'
    <3>1. Existing' = Existing
      BY <2>1 DEF Existing
    <3>2. \A s \in Deleters : Own(doomed[s])'
      BY <2>1, <2>3, <3>1 DEF Own
    <3> QED BY <2>1, <3>1, <3>2 DEF FilesInv, FilesPresent, DoomedOwn
  <2> QED BY <2>4 DEF FilesInv
<1>2. ASSUME NEW r \in Deleters, DeletionOver(r)
      PROVE \A s \in Deleters : doomed'[s] = doomed[s] \/ doomed'[s] = NoFile
  BY <1>2 DEF DeletionOver, TypeOK
<1>3. ASSUME NEW r \in Deleters, DeleteCollected(r) PROVE FilesInv'
  <2>1. /\ DeletionOver(r) /\ DeleteFrom(doomedOf[r], doomed[r])
        /\ ~LeavesDangling(doomedOf[r], doomed[r])
    BY <1>3 DEF DeleteCollected
  <2>2. doomed[r] \in [Attachments -> FileNames] /\ Own(doomed[r])
    BY DEF TypeOK, FilesInv, DoomedOwn
  <2> QED BY <1>2, <2>1, <2>2, DeleteKeeps
<1>4. ASSUME NEW r \in Deleters, DeletionRefused(r) PROVE FilesInv'
  <2>1. file' = file /\ stored' = stored /\ \A s \in Deleters : doomed'[s] = doomed[s] \/ doomed'[s] = NoFile
    BY <1>2, <1>4 DEF DeletionRefused, rows
  <2>2. \A s \in Deleters : Own(doomed'[s])
    BY <2>1, NoFileIs DEF FilesInv, DoomedOwn, Own
  <2> QED BY <2>1, <2>2 DEF FilesInv, FilesPresent, DoomedOwn, Own, Existing
<1>5. ASSUME NEW r \in Movers, ReassignAttachments(r) PROVE FilesInv'
  <2>1. CASE Reassign(r)
    BY <2>1, ReassignGives, SameFilesKeep
  <2>2. CASE ~Reassign(r)
    BY <1>5, <2>2, SameFilesKeep DEF ReassignAttachments, OpenReassign, ReassignRefused, rows, deletions
  <2> QED BY <2>1, <2>2
<1>6. ASSUME NEW r \in Importers, ImportArchive(r) PROVE FilesInv'
  <2>1. CASE ImportIntoItem(r)
    <3> DEFINE M == lacking[r]
               I == [n \in M |-> into[r]]
               D == [n \in M |-> None]
    <3>1. PICK row \in [M -> Attachments], key \in [M -> Files] : Import(row, key, I, D)
      BY <2>1 DEF ImportIntoItem
    <3>2. M \in SUBSET Names /\ doomed' = doomed
      BY <2>1 DEF ImportIntoItem, TypeOK, deletions
    <3>3. I \in [M -> Items \cup {None}] /\ D \in [M -> Documents \cup {None}]
      BY <2>1 DEF ImportIntoItem, NotImporting, TypeOK
    <3> HIDE DEF M, I, D
    <3> QED BY <3>1, <3>2, <3>3, ImportKeeps
  <2>2. CASE ~ImportIntoItem(r)
    BY <1>6, <2>2, SameFilesKeep DEF ImportArchive, OpenImport, ImportRefused, rows, deletions
  <2> QED BY <2>1, <2>2
<1>7. ASSUME NEW r \in Deleters, DeleteSelected(r) PROVE FilesInv'
  BY <1>1, <1>3, <1>4, <1>7 DEF DeleteSelected
<1> QED BY <1>5, <1>6, <1>7

(* No file is taken from an attachment that has it: not by the purge, nor  *)
(* by "Delete selected" with names collected earlier, nor by reassigning   *)
(* rows loaded earlier (delete_stored_files, orphaned_stored_file_pks).    *)
THEOREM FilesStay == Spec => []FilesPresent
<1>1. Init => FilesInv
  BY NoFileIs DEF Init, FilesInv, FilesPresent, DoomedOwn, Own, Existing
<1>2. TypeOK /\ FilesInv /\ [Next]_vars => FilesInv'
  <2> SUFFICES ASSUME TypeOK, FilesInv, [Next]_vars PROVE FilesInv'
    OBVIOUS
  <2>1. CASE UNCHANGED vars
    BY <2>1, SameFilesKeep DEF vars
  <2>2. CASE PurgeOrphanedFiles
    <3>1. file' = file /\ doomed' = doomed /\ stored' = {f \in stored : Refers(file, f)}
      BY <2>2 DEF PurgeOrphanedFiles, Orphans, rows, deletions
    <3>2. \A b \in Existing : file[b][1] \in stored'
      BY <3>1 DEF FilesInv, FilesPresent, Refers, Existing
    <3> QED BY <3>1, <3>2 DEF FilesInv, FilesPresent, DoomedOwn, Own, Existing
  <2> QED BY <2>1, <2>2, PagesKeep, RequestsKeep DEF Next
<1>3. FilesInv => FilesPresent
  BY DEF FilesInv
<1> QED BY <1>1, <1>2, <1>3, TypeCorrect, PTL DEF Spec

-----------------------------------------------------------------------------
(* Parents.                                                                *)

(* A step that leaves each row's parents alone or gives it a new pair.     *)
LEMMA ParentsKeep ==
  ASSUME OneParentEach,
         \A a \in Existing' :
           \/ a \in Existing /\ item'[a] = item[a] /\ doc'[a] = doc[a]
           \/ OneParent(item'[a], doc'[a])
  PROVE  OneParentEach'
BY DEF OneParentEach

(* An attachment always has exactly one of an item and a received document *)
(* (Attachment.clean() and attachment_exactly_one_parent), also when one   *)
(* request reassigns what another has given to a received document.        *)
THEOREM OneParentAlways == Spec => []OneParentEach
<1>1. Init => OneParentEach
  BY NoFileIs DEF Init, OneParentEach, Existing
<1>2. TypeOK /\ OneParentEach /\ [Next]_vars => OneParentEach'
  <2> SUFFICES ASSUME TypeOK, OneParentEach, [Next]_vars PROVE OneParentEach'
    OBVIOUS
  <2>1. ASSUME file' = file, item' = item, doc' = doc PROVE OneParentEach'
    BY <2>1 DEF OneParentEach, Existing
  <2>2. ASSUME NEW a \in Attachments, NEW i \in ItemsThere \cup {None},
               NEW d \in DocumentsThere \cup {None}, NEW y \in Years \cup {None},
               NEW f \in Files \X Names, SaveRow(a, i, d, y, f), UNCHANGED parents, OneParent(i, d)
        PROVE OneParentEach'
    <3>1. /\ item'[a] = i /\ doc'[a] = d
          /\ \A b \in Attachments \ {a} :
               file'[b] = file[b] /\ item'[b] = item[b] /\ doc'[b] = doc[b]
      <4>1. DOMAIN item = Attachments /\ DOMAIN doc = Attachments /\ DOMAIN file = Attachments
        BY DEF TypeOK
      <4>2. /\ item' = [item EXCEPT ![a] = i] /\ doc' = [doc EXCEPT ![a] = d]
            /\ file' = [file EXCEPT ![a] = f]
        BY <2>2 DEF SaveRow
      <4> QED BY <4>1, <4>2
    <3>2. ASSUME NEW b \in Existing'
          PROVE  \/ b \in Existing /\ item'[b] = item[b] /\ doc'[b] = doc[b]
                 \/ OneParent(item'[b], doc'[b])
      <4>1. CASE b = a
        BY <2>2, <3>1, <4>1
      <4>2. CASE b # a
        BY <3>1, <4>2 DEF Existing
      <4> QED BY <4>1, <4>2
    <3> QED BY <3>2, ParentsKeep
  <2>3. ASSUME NEW P, NEW fs \in [Attachments -> FileNames],
               ~LeavesDangling(P, fs), DeleteFrom(P, fs)
        PROVE OneParentEach'
    <3>1. \A a \in Attachments :
            IF fs[a] # None THEN file'[a] = None
            ELSE file'[a] = file[a] /\ item'[a] = item[a] /\ doc'[a] = doc[a]
      BY <2>3, DeleteFromTypes
    <3> QED BY <3>1, ParentsKeep DEF Existing
  <2>4. ASSUME NEW N \in SUBSET Names, NEW row \in [N -> Attachments], NEW key \in [N -> Files],
               NEW i \in [N -> Items \cup {None}], NEW d \in [N -> Documents \cup {None}],
               Import(row, key, i, d), \A n \in N : OneParent(i[n], d[n])
        PROVE OneParentEach'
    <3>1. Imported(N, row, key, i, d)
      BY <2>4, ImportGives
    <3>2. \A a \in Attachments :
            \/ file'[a] = file[a] /\ item'[a] = item[a] /\ doc'[a] = doc[a]
            \/ \E n \in N : item'[a] = i[n] /\ doc'[a] = d[n]
      BY <3>1 DEF Imported
    <3> QED BY <2>4, <3>2, ParentsKeep DEF Existing
  <2>5. CASE Pages
    <3>1. ASSUME NEW a \in Attachments, NEW i \in Items \cup {None}, NEW d \in Documents \cup {None},
                 NEW y \in Years \cup {None}, NEW f \in Files, NEW n \in Names,
                 AddAttachment(a, i, d, y, f, n)
          PROVE OneParentEach'
      <4>1. <<f, Kept[n]>> \in Files \X Names
        BY AttachmentAssumption
      <4> QED BY <2>2, <3>1, <4>1 DEF AddAttachment
    <3>2. ASSUME NEW a \in Attachments, NEW i \in Items \cup {None}, NEW d \in Documents \cup {None},
                 NEW y \in Years \cup {None}, ChangeAttachment(a, i, d, y)
          PROVE OneParentEach'
      <4>1. file[a] \in Files \X Names
        BY <3>2 DEF ChangeAttachment, TypeOK, Existing, FileNames
      <4> QED BY <2>2, <3>2, <4>1 DEF ChangeAttachment
    <3>3. ASSUME NEW a \in Attachments, NEW f \in Files, NEW n \in Names, ReplaceFile(a, f, n)
          PROVE OneParentEach'
      <4>1. /\ item[a] \in ItemsThere \cup {None} /\ doc[a] \in DocumentsThere \cup {None}
            /\ dated[a] \in Years \cup {None} /\ OneParent(item[a], doc[a])
            /\ <<f, Kept[n]>> \in Files \X Names
        BY <3>3, AttachmentAssumption DEF ReplaceFile, TypeOK, References, OneParentEach
      <4> QED BY <2>2, <3>3, <4>1 DEF ReplaceFile
    <3>4. ASSUME NEW p \in Items \cup Documents, DeleteParent(p) PROVE OneParentEach'
      <4>1. AttachedTo({p}) \in SUBSET Existing
        BY DEF AttachedTo
      <4>2. ~LeavesDangling({p}, FilesOf(AttachedTo({p})))
        BY <4>1, FilesOfHas DEF LeavesDangling
      <4> QED BY <2>3, <3>4, <4>1, <4>2, FilesOfHas DEF DeleteParent
    <3>5. ASSUME NEW a \in Attachments, DeleteAttachment(a) PROVE OneParentEach'
      <4>1. {a} \in SUBSET Existing /\ AttachedTo({}) = {}
        BY <3>5 DEF AttachedTo, DeleteAttachment
      <4>2. ~LeavesDangling({}, FilesOf({a}))
        BY <4>1 DEF LeavesDangling
      <4> QED BY <2>3, <3>5, <4>1, <4>2, FilesOfHas DEF DeleteAttachment
    <3>6. ASSUME NEW N \in SUBSET Names, ImportDocuments(N) PROVE OneParentEach'
      <4> DEFINE M == NewNames(N)
                 I == [n \in M |-> None]
      <4>1. PICK row \in [M -> Attachments], key \in [M -> Files], new \in [M -> Documents] :
              Import(row, key, I, new)
        BY <3>6 DEF ImportDocuments
      <4>2. M \in SUBSET Names
        BY DEF NewNames
      <4>3. /\ I \in [M -> Items \cup {None}] /\ new \in [M -> Documents \cup {None}]
            /\ \A n \in M : OneParent(I[n], new[n])
        BY AttachmentAssumption DEF OneParent
      <4> HIDE DEF M, I
      <4> QED BY <2>4, <4>1, <4>2, <4>3
    <3>7. ASSUME NEW i \in Items, NEW y \in Years, AddItem(i, y) \/ ChangeItem(i, y)
          PROVE OneParentEach'
      BY <2>1, <3>7 DEF AddItem, ChangeItem, rows
    <3>8. ASSUME NEW d \in Documents, NEW y \in Years, AddDocument(d, y) PROVE OneParentEach'
      BY <2>1, <3>8 DEF AddDocument, rows
    <3> QED BY <2>5, <3>1, <3>2, <3>3, <3>4, <3>5, <3>6, <3>7, <3>8 DEF Pages
  <2>6. ASSUME NEW r \in Deleters, DeleteSelected(r) PROVE OneParentEach'
    <3>1. CASE DeleteCollected(r)
      <4>1. doomed[r] \in [Attachments -> FileNames]
        BY DEF TypeOK
      <4> QED BY <2>3, <3>1, <4>1 DEF DeleteCollected
    <3> QED BY <2>1, <2>6, <3>1 DEF DeleteSelected, Collect, DeletionRefused, rows
  <2>7. ASSUME NEW r \in Movers, ReassignAttachments(r) PROVE OneParentEach'
    <3>1. CASE Reassign(r)
      <4>1. /\ file' = file /\ doc' = doc
            /\ \A a \in Attachments :
                 item'[a] = item[a] \/ OneParent(item'[a], doc[a])
        BY <3>1, ReassignGives
      <4> QED BY <4>1, ParentsKeep DEF Existing
    <3> QED BY <2>1, <2>7, <3>1 DEF ReassignAttachments, OpenReassign, ReassignRefused, rows
  <2>8. ASSUME NEW r \in Importers, ImportArchive(r) PROVE OneParentEach'
    <3>1. CASE ImportIntoItem(r)
      <4> DEFINE M == lacking[r]
                 I == [n \in M |-> into[r]]
                 D == [n \in M |-> None]
      <4>1. PICK row \in [M -> Attachments], key \in [M -> Files] : Import(row, key, I, D)
        BY <3>1 DEF ImportIntoItem
      <4>2. M \in SUBSET Names
        BY DEF TypeOK
      <4>3. into[r] \in Items /\ into[r] # None
        BY <3>1, AttachmentAssumption DEF ImportIntoItem, NotImporting, TypeOK
      <4>4. /\ I \in [M -> Items \cup {None}] /\ D \in [M -> Documents \cup {None}]
            /\ \A n \in M : OneParent(I[n], D[n])
        BY <4>3 DEF OneParent
      <4> HIDE DEF M, I, D
      <4> QED BY <2>4, <4>1, <4>2, <4>4
    <3> QED BY <2>1, <2>8, <3>1 DEF ImportArchive, OpenImport, ImportRefused, rows
  <2> QED BY <2>1, <2>5, <2>6, <2>7, <2>8 DEF Next, PurgeOrphanedFiles, rows, vars
<1> QED BY <1>1, <1>2, TypeCorrect, PTL DEF Spec
=============================================================================
