---------------------------- MODULE Attachments ----------------------------
(***************************************************************************)
(* Attachments and the files stored for them: Attachment, ReceivedDocument *)
(* (taxtracker/models.py), DatabaseStorage and DBStoredFile                *)
(* (core/models.py), core/attachments.py, purge_orphaned_files, and the    *)
(* admin's pages that import archives and reassign attachments.            *)
(*                                                                         *)
(* A row and its file are different rows of the database that nothing but  *)
(* this code keeps together: no foreign key leads from one to the other.   *)
(* A page that adds, changes or deletes one object, the import of received *)
(* documents and the purge are transactions that lock out other writers    *)
(* from their start, and are one step.  The other pages read first and     *)
(* write in a transaction later, with anything in between.                 *)
(*                                                                         *)
(* The items here all have one title and order and no parent, so each is   *)
(* the others' equivalent in another year (the tree is in ItemTree).       *)
(***************************************************************************)
CONSTANTS
  Attachments, Files, Items, Documents,  \* primary keys
  Names,      \* names files are uploaded under
  Kept,       \* what get_available_name() keeps of a name, if it is long
  Years,      \* the financial years, all there
  DateIn,     \* the financial year of the date in a name (None: no date)
  YearIn,     \* the financial year a name begins with (None: no such year)
  Deleters,   \* requests to delete what is selected
  Movers,     \* requests to reassign attachments
  Importers,  \* requests to import an archive into an item
  None

ASSUME AttachmentAssumption ==
  /\ None \notin Items \cup Documents \cup Years \cup (Files \X Names)
  /\ Kept \in [Names -> Names]
  /\ DateIn \in [Names -> Years \cup {None}]
  /\ YearIn \in [Names -> Years \cup {None}]

VARIABLES
  itemYear,  \* each item's year (None: there is no such item)
  docYear,   \* each received document's year
  item,      \* each attachment's item
  doc,       \* or received document
  dated,     \* the financial year of its date
  file,      \* its file, a key and a name (None: there is no such attachment)
  stored,    \* the keys of the stored files
  doomed,    \* the attachments each deleter is to delete, with their files
  doomedOf,  \* and the items and received documents
  target,    \* where each mover is to move each attachment
  loaded,    \* and the file it was loaded with
  into,      \* the item each importer imports into
  lacking    \* the names of the archive that were not attached to it

parents == <<itemYear, docYear>>
rows == <<item, doc, dated, file>>
deletions == <<doomed, doomedOf>>
moves == <<target, loaded>>
imports == <<into, lacking>>
vars == <<itemYear, docYear, item, doc, dated, file, stored,
          doomed, doomedOf, target, loaded, into, lacking>>

Existing == {a \in Attachments : file[a] # None}
ItemsThere == {i \in Items : itemYear[i] # None}
DocumentsThere == {d \in Documents : docYear[d] # None}

FileNames == (Files \X Names) \cup {None}

(* Foreign keys refer to rows that are there.                              *)
References ==
  \A a \in Attachments :
    /\ item[a] \in ItemsThere \cup {None}
    /\ doc[a] \in DocumentsThere \cup {None}
    /\ file[a] = None => item[a] = None /\ doc[a] = None

TypeOK ==
  /\ itemYear \in [Items -> Years \cup {None}]
  /\ docYear \in [Documents -> Years \cup {None}]
  /\ item \in [Attachments -> Items \cup {None}]
  /\ doc \in [Attachments -> Documents \cup {None}]
  /\ dated \in [Attachments -> Years \cup {None}]
  /\ file \in [Attachments -> FileNames]
  /\ References
  /\ stored \subseteq Files
  /\ doomed \in [Deleters -> [Attachments -> FileNames]]
  /\ doomedOf \in [Deleters -> SUBSET (Items \cup Documents)]
  /\ target \in [Movers -> [Attachments -> Items \cup {None}]]
  /\ loaded \in [Movers -> [Attachments -> FileNames]]
  /\ into \in [Importers -> Items \cup {None}]
  /\ lacking \in [Importers -> SUBSET Names]

NoFile == [a \in Attachments |-> None]

Init ==
  /\ itemYear = [i \in Items |-> None]
  /\ docYear = [d \in Documents |-> None]
  /\ item = NoFile
  /\ doc = NoFile
  /\ dated = NoFile
  /\ file = NoFile
  /\ stored = {}
  /\ doomed = [r \in Deleters |-> NoFile]
  /\ doomedOf = [r \in Deleters |-> {}]
  /\ target = [r \in Movers |-> NoFile]
  /\ loaded = [r \in Movers |-> NoFile]
  /\ into = [r \in Importers |-> None]
  /\ lacking = [r \in Importers |-> {}]

-----------------------------------------------------------------------------
(* Keys that nothing refers to, so as good as never used: SQLite gives none *)
(* out twice.                                                              *)

Refers(fs, f) == \E a \in Attachments : fs[a] # None /\ fs[a][1] = f

FreeFile(f) ==
  /\ f \notin stored
  /\ ~Refers(file, f)
  /\ \A r \in Deleters : ~Refers(doomed[r], f)
  /\ \A r \in Movers : ~Refers(loaded[r], f)

FreeRow(a) ==
  /\ file[a] = None
  /\ \A r \in Deleters : doomed[r][a] = None
  /\ \A r \in Movers : target[r][a] = None

FreeParent(p) ==
  /\ \A r \in Deleters : p \notin doomedOf[r]
  /\ \A r \in Movers, a \in Attachments : target[r][a] # p
  /\ \A r \in Importers : into[r] # p

-----------------------------------------------------------------------------
(* The admin's pages for one object.                                       *)

AddItem(i, y) ==
  /\ itemYear[i] = None
  /\ FreeParent(i)
  /\ itemYear' = [itemYear EXCEPT ![i] = y]
  /\ UNCHANGED <<docYear, rows, stored, deletions, moves, imports>>

ChangeItem(i, y) ==
  /\ itemYear[i] # None
  /\ itemYear' = [itemYear EXCEPT ![i] = y]
  /\ UNCHANGED <<docYear, rows, stored, deletions, moves, imports>>

AddDocument(d, y) ==
  /\ docYear[d] = None
  /\ FreeParent(d)
  /\ docYear' = [docYear EXCEPT ![d] = y]
  /\ UNCHANGED <<itemYear, rows, stored, deletions, moves, imports>>

(* Attachment.save(): a blank date is taken from the file's name.          *)
Filled(y, n) == IF y = None THEN DateIn[n] ELSE y

(* Exactly one of an item and a received document (Attachment.clean(), and *)
(* the constraint attachment_exactly_one_parent).                          *)
OneParent(i, d) == (i = None) # (d = None)

SaveRow(a, i, d, y, f) ==
  /\ item' = [item EXCEPT ![a] = i]
  /\ doc' = [doc EXCEPT ![a] = d]
  /\ dated' = [dated EXCEPT ![a] = Filled(y, f[2])]
  /\ file' = [file EXCEPT ![a] = f]

AddAttachment(a, i, d, y, f, n) ==
  /\ FreeRow(a)
  /\ FreeFile(f)
  /\ i \in ItemsThere \cup {None}
  /\ d \in DocumentsThere \cup {None}
  /\ OneParent(i, d)
  /\ stored' = stored \cup {f}
  /\ SaveRow(a, i, d, y, <<f, Kept[n]>>)
  /\ UNCHANGED <<parents, deletions, moves, imports>>

ChangeAttachment(a, i, d, y) ==
  /\ a \in Existing
  /\ i \in ItemsThere \cup {None}
  /\ d \in DocumentsThere \cup {None}
  /\ OneParent(i, d)
  /\ SaveRow(a, i, d, y, file[a])
  /\ UNCHANGED <<parents, stored, deletions, moves, imports>>

(* The form uploads another file: the one it had stays where it is.        *)
ReplaceFile(a, f, n) ==
  /\ a \in Existing
  /\ FreeFile(f)
  /\ stored' = stored \cup {f}
  /\ SaveRow(a, item[a], doc[a], dated[a], <<f, Kept[n]>>)
  /\ UNCHANGED <<parents, deletions, moves, imports>>

-----------------------------------------------------------------------------
(* Deletion.  Collector finds the rows to delete, the attachments of items *)
(* and documents (on_delete=CASCADE) among them, with their files' names,  *)
(* and delete_stored_files() deletes those files.                          *)

(* Mutant: a received document goes without its attachments.               *)
AttachedToItems(P) == {a \in Existing : item[a] \in P}

AttachedTo(P) == {a \in Existing : item[a] \in P \/ doc[a] \in P}

FilesOf(A) == [a \in Attachments |-> IF a \in A THEN file[a] ELSE None]

DeleteFrom(P, fs) ==
  LET A == {a \in Attachments : fs[a] # None}
      Left(column) == [a \in Attachments |-> IF a \in A THEN None ELSE column[a]]
  IN  /\ itemYear' = [i \in Items |-> IF i \in P THEN None ELSE itemYear[i]]
      /\ docYear' = [d \in Documents |-> IF d \in P THEN None ELSE docYear[d]]
      /\ item' = Left(item)
      /\ doc' = Left(doc)
      /\ dated' = Left(dated)
      /\ file' = Left(file)
      /\ stored' = {f \in stored : ~Refers(fs, f)}

DeleteParent(p) ==
  /\ p \in ItemsThere \cup DocumentsThere
  /\ DeleteFrom({p}, FilesOf(AttachedTo({p})))
  /\ UNCHANGED <<deletions, moves, imports>>

DeleteAttachment(a) ==
  /\ a \in Existing
  /\ DeleteFrom({}, FilesOf({a}))
  /\ UNCHANGED <<deletions, moves, imports>>

(* "Delete selected" collects before its transaction begins.               *)
Idle(r) == doomedOf[r] = {} /\ doomed[r] = NoFile

Collect(r, P, A) ==
  /\ Idle(r)
  /\ P \subseteq ItemsThere \cup DocumentsThere
  /\ A \subseteq Existing
  /\ doomedOf' = [doomedOf EXCEPT ![r] = P]
  /\ doomed' = [doomed EXCEPT ![r] = FilesOf(A \cup AttachedTo(P))]
  /\ UNCHANGED <<parents, rows, stored, moves, imports>>

DeletionOver(r) ==
  /\ doomedOf' = [doomedOf EXCEPT ![r] = {}]
  /\ doomed' = [doomed EXCEPT ![r] = NoFile]

LeavesDangling(P, fs) == \E a \in AttachedTo(P) : fs[a] = None

DeleteCollected(r) ==
  /\ ~Idle(r)
  /\ ~LeavesDangling(doomedOf[r], doomed[r])
  /\ DeleteFrom(doomedOf[r], doomed[r])
  /\ DeletionOver(r)
  /\ UNCHANGED <<moves, imports>>

(* IntegrityError at the end of the transaction.                           *)
DeletionRefused(r) ==
  /\ LeavesDangling(doomedOf[r], doomed[r])
  /\ DeletionOver(r)
  /\ UNCHANGED <<parents, rows, stored, moves, imports>>

(* orphaned_stored_file_pks()                                              *)
Orphans == {f \in stored : ~Refers(file, f)}

PurgeOrphanedFiles ==
  /\ stored' = stored \ Orphans
  /\ UNCHANGED <<parents, rows, deletions, moves, imports>>

-----------------------------------------------------------------------------
(* "Reassign attachments": what is out of its year goes to the item in its *)
(* place in that year, if there is exactly one.  Here the page's reads are *)
(* of one moment.                                                          *)

Equivalents(y) == {i \in Items : itemYear[i] = y}

Movable(a, i) ==
  /\ item[a] = i
  /\ dated[a] \notin {None, itemYear[i]}
  /\ \E j \in Items : Equivalents(dated[a]) = {j}

NothingToMove(r) == target[r] = NoFile

OpenReassign(r, i, A) ==
  /\ NothingToMove(r)
  /\ i \in ItemsThere
  /\ A # {} /\ \A a \in A : Movable(a, i)
  /\ target' = [target EXCEPT ![r] =
       [a \in Attachments |->
          IF a \in A THEN CHOOSE j \in Items : Equivalents(dated[a]) = {j} ELSE None]]
  /\ loaded' = [loaded EXCEPT ![r] = FilesOf(A)]
  /\ UNCHANGED <<parents, rows, stored, deletions, imports>>

ReassignOver(r) ==
  /\ target' = [target EXCEPT ![r] = NoFile]
  /\ loaded' = [loaded EXCEPT ![r] = NoFile]

Moving(r) == {a \in Attachments : target[r][a] # None}

(* Mutant: the database does not check that there is just one parent.      *)
FitsUnconstrained(r, a) == a \in Existing /\ target[r][a] \in ItemsThere

(* The row is still there, as is the item, and it has no other parent.     *)
Fits(r, a) == a \in Existing /\ target[r][a] \in ItemsThere /\ OneParent(target[r][a], doc[a])

(* Mutant: the whole row is saved as it was loaded.                        *)
FileSavedWhole(r, a) == loaded[r][a]

(* save(update_fields=["item"]) leaves the file as it is now.              *)
FileSaved(r, a) == file[a]

Reassign(r) ==
  /\ ~NothingToMove(r)
  /\ \A a \in Moving(r) : Fits(r, a)
  /\ item' = [a \in Attachments |-> IF a \in Moving(r) THEN target[r][a] ELSE item[a]]
  /\ file' = [a \in Attachments |-> IF a \in Moving(r) THEN FileSaved(r, a) ELSE file[a]]
  /\ ReassignOver(r)
  /\ UNCHANGED <<parents, doc, dated, stored, deletions, imports>>

ReassignRefused(r) ==
  /\ \E a \in Moving(r) : ~Fits(r, a)
  /\ ReassignOver(r)
  /\ UNCHANGED <<parents, rows, stored, deletions, imports>>

-----------------------------------------------------------------------------
(* "Import archive".                                                       *)

NamesIn(A) == {file[a][2] : a \in A}

(* A new row, with a new file, for each of the names: _save_imported_-     *)
(* attachment().                                                           *)
NewKeys(row, key) ==
  /\ \A n \in DOMAIN row : FreeRow(row[n]) /\ FreeFile(key[n])
  /\ \A m, n \in DOMAIN row : m # n => row[m] # row[n] /\ key[m] # key[n]

NameOf(row, a) == CHOOSE n \in DOMAIN row : row[n] = a

(* The columns of the new rows: a value for each name.                     *)
WithNew(column, row, value) ==
  [a \in Attachments |->
     IF \E n \in DOMAIN row : row[n] = a THEN value[NameOf(row, a)] ELSE column[a]]

Import(row, key, i, d) ==
  /\ NewKeys(row, key)
  /\ item' = WithNew(item, row, i)
  /\ doc' = WithNew(doc, row, d)
  /\ dated' = WithNew(dated, row, [n \in DOMAIN row |-> DateIn[Kept[n]]])
  /\ file' = WithNew(file, row, [n \in DOMAIN row |-> <<key[n], Kept[n]>>])
  /\ stored' = stored \cup {key[n] : n \in DOMAIN row}

NotImporting(r) == into[r] = None

OpenImport(r, i, N) ==
  /\ NotImporting(r)
  /\ i \in ItemsThere
  /\ into' = [into EXCEPT ![r] = i]
  /\ lacking' = [lacking EXCEPT ![r] = N \ NamesIn(AttachedTo({i}))]
  /\ UNCHANGED <<parents, rows, stored, deletions, moves>>

ImportOver(r) ==
  /\ into' = [into EXCEPT ![r] = None]
  /\ lacking' = [lacking EXCEPT ![r] = {}]

ImportIntoItem(r) ==
  /\ ~NotImporting(r)
  /\ lacking[r] # {} => into[r] \in ItemsThere
  /\ \E row \in [lacking[r] -> Attachments], key \in [lacking[r] -> Files] :
       Import(row, key, [n \in lacking[r] |-> into[r]], [n \in lacking[r] |-> None])
  /\ ImportOver(r)
  /\ UNCHANGED <<parents, deletions, moves>>

(* IntegrityError at the end of the transaction: the item is gone.         *)
ImportRefused(r) ==
  /\ ~NotImporting(r)
  /\ lacking[r] # {} /\ into[r] \notin ItemsThere
  /\ ImportOver(r)
  /\ UNCHANGED <<parents, rows, stored, deletions, moves>>

(* _import_received_documents()                                            *)
NewNames(N) ==
  {n \in N : YearIn[n] # None /\
     n \notin NamesIn(AttachedTo({d \in Documents : docYear[d] = YearIn[n]}))}

ImportDocuments(N) ==
  /\ \E row \in [NewNames(N) -> Attachments], key \in [NewNames(N) -> Files],
        new \in [NewNames(N) -> Documents] :
       /\ \A n \in NewNames(N) : docYear[new[n]] = None /\ FreeParent(new[n])
       /\ \A m, n \in NewNames(N) : m # n => new[m] # new[n]
       /\ docYear' = [d \in Documents |->
            IF \E n \in NewNames(N) : new[n] = d
            THEN YearIn[CHOOSE n \in NewNames(N) : new[n] = d] ELSE docYear[d]]
       /\ Import(row, key, [n \in NewNames(N) |-> None], new)
  /\ UNCHANGED <<itemYear, deletions, moves, imports>>

-----------------------------------------------------------------------------
Pages ==
  \/ \E i \in Items, y \in Years : AddItem(i, y) \/ ChangeItem(i, y)
  \/ \E d \in Documents, y \in Years : AddDocument(d, y)
  \/ \E a \in Attachments, i \in Items \cup {None}, d \in Documents \cup {None}, y \in Years \cup {None} :
       \/ \E f \in Files, n \in Names : AddAttachment(a, i, d, y, f, n)
       \/ ChangeAttachment(a, i, d, y)
  \/ \E a \in Attachments, f \in Files, n \in Names : ReplaceFile(a, f, n)
  \/ \E p \in Items \cup Documents : DeleteParent(p)
  \/ \E a \in Attachments : DeleteAttachment(a)
  \/ \E N \in SUBSET Names : ImportDocuments(N)

DeleteSelected(r) ==
  \/ \E P \in (SUBSET Items) \cup (SUBSET Documents) : Collect(r, P, {})
  \/ \E A \in SUBSET Attachments : Collect(r, {}, A)
  \/ DeleteCollected(r)
  \/ DeletionRefused(r)

ReassignAttachments(r) ==
  \/ \E i \in Items, A \in SUBSET Attachments : OpenReassign(r, i, A)
  \/ Reassign(r)
  \/ ReassignRefused(r)

ImportArchive(r) ==
  \/ \E i \in Items, N \in SUBSET Names : OpenImport(r, i, N)
  \/ ImportIntoItem(r)
  \/ ImportRefused(r)

Next ==
  \/ Pages
  \/ \E r \in Deleters : DeleteSelected(r)
  \/ \E r \in Movers : ReassignAttachments(r)
  \/ \E r \in Importers : ImportArchive(r)
  \/ PurgeOrphanedFiles

Spec == Init /\ [][Next]_vars

-----------------------------------------------------------------------------
(* INVARIANT.  Every attachment's file is stored, and no other attachment  *)
(* has the same one: neither the purge, nor the deletion of rows collected *)
(* earlier, nor a row saved after it was loaded takes a file from a row    *)
(* that needs it.                                                          *)
FilesPresent ==
  \A a \in Existing :
    /\ file[a][1] \in stored
    /\ \A b \in Existing : file[b][1] = file[a][1] => b = a

(* INVARIANT.  An attachment belongs to an item or to a received document, *)
(* never to both or neither, even if one request moves it to another item  *)
(* while another gives it to a document (the constraint of Attachment).    *)
OneParentEach == \A a \in Existing : OneParent(item[a], doc[a])
=============================================================================
