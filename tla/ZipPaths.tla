------------------------------- MODULE ZipPaths -------------------------------
(***************************************************************************)
(* The ZIP of a financial year (taxtracker/admin.py): each item's folder   *)
(* is named for its title within its parent's, and holds its attachments.  *)
(* No two may get the same path, though titles may be alike, differ only   *)
(* in case, or be what a name with a suffix, the index or the mark of a    *)
(* cycle of parents is called.                                             *)
(*                                                                         *)
(* Items are numbered in the order of the query (order, title, pk).  The   *)
(* titles and the names of files are those _safe_component() leaves, which *)
(* have no spaces, so that none of them has a suffix such as " (2)"; that  *)
(* a file's suffix goes before its extension is left out.                  *)
(***************************************************************************)
EXTENDS Integers, Sequences, FiniteSetsExt, SequencesExt

CONSTANTS
  Exports,       \* the years: parent, title and attachments of each item
  Titles, Fold,  \* names, and each one's in lower case
  Marker, Index  \* those of CYCLE_MARKER and index.md

ASSUME ZipAssumption ==
  /\ {Marker, Index} \subseteq Titles /\ Fold \in [Titles -> Titles]
  /\ \A x \in Exports :
       /\ x.parent \in Seq(0 .. Len(x.parent))  \* 0 for a root
       /\ x.title \in [DOMAIN x.parent -> Titles]
       /\ x.files \in [DOMAIN x.parent -> Seq(Titles)]

VARIABLES
  fy,       \* the year
  folders,  \* the folder of each item named so far
  used,     \* the names, folded, taken in each folder
  written,  \* how many of each item's attachments are seen to
  entries   \* the files in the ZIP

zipVars == <<fy, folders, used, written, entries>>

Rows == DOMAIN fy.parent

ZipInit ==
  /\ fy \in Exports
  /\ folders = <<>> /\ used = {<< <<>>, <<Fold[Index], 1>> >>}
  /\ written = [item \in Rows |-> 0] /\ entries = <<>>

------------------------------------------------------------------------------
(* A name is a title and the number of its suffix, 1 for none; a path is a *)
(* sequence of names.                                                      *)
Name(title, number) == <<title, number>>
Folded(name) == <<Fold[name[1]], name[2]>>
FoldedPath(path) == [k \in DOMAIN path |-> Folded(path[k])]

Untaken(name, folder) == <<folder, Folded(name)>> \notin used
\* _dedupe_name()
Deduped(title, folder) ==
  Name(title, Min({k \in 1 .. Cardinality(used) + 1 : Untaken(Name(title, k), folder)}))
\* Mutant of Takes: the name is noted with its capitals.
TakesAsIs(name, folder) == used' = used \cup {<<folder, name>>}
Takes(name, folder) == used' = used \cup {<<folder, Folded(name)>>}

\* An item's line of parents, up to 0 or as often as there are items.
Ancestor(item) ==
  LET up[k \in 0 .. Len(fy.parent)] ==
        IF k = 0 THEN item ELSE IF up[k - 1] = 0 THEN 0 ELSE fy.parent[up[k - 1]]
  IN up
InTree(item) == \E k \in DOMAIN Ancestor(item) : Ancestor(item)[k] = 0

Named == DOMAIN folders
Names(item, folder) ==
  LET name == Deduped(fy.title[item], folder)
  IN /\ Takes(name, folder)
     /\ folders' = [i \in Named \cup {item} |->
                      IF i = item THEN Append(folder, name) ELSE folders[i]]
     /\ UNCHANGED <<fy, written, entries>>

\* The walk down from the roots, siblings in order.
NameFolder(item) ==
  LET above == fy.parent[item]
  IN /\ item \notin Named /\ above \in Named \cup {0}
     /\ \A i \in 1 .. item - 1 : fy.parent[i] = above => i \in Named
     /\ Names(item, IF above = 0 THEN <<>> ELSE folders[above])

\* _folder_path(): up to the first item met twice, whose place the mark takes.
MarkedFolder(item) ==
  LET up == Ancestor(item)
      again == Min({k \in DOMAIN up : \E j \in 0 .. k - 1 : up[j] = up[k]})
  IN <<Name(Marker, 1)>> \o [k \in 1 .. again - 1 |-> Name(fy.title[up[again - k]], 1)]
NameUnreachable(item) ==
  /\ item \notin Named /\ ~InTree(item)
  /\ \A i \in Rows : InTree(i) \/ i < item => i \in Named
  /\ Names(item, MarkedFolder(item))

------------------------------------------------------------------------------
\* The items are sorted by their folders; which is first doesn't matter here.
\* A file that is missing has a name all the same.
WriteAttachment(item) ==
  /\ Named = Rows /\ written[item] < Len(fy.files[item])
  /\ \A i \in 1 .. item - 1 : written[i] = Len(fy.files[i])
  /\ written' = [written EXCEPT ![item] = @ + 1]
  /\ LET name == Deduped(fy.files[item][written[item] + 1], folders[item])
     IN /\ Takes(name, folders[item])
        /\ entries' \in {entries, Append(entries, Append(folders[item], name))}
  /\ UNCHANGED <<fy, folders>>

IndexPath == <<Name(Index, 1)>>
WriteIndex ==
  /\ Named = Rows /\ \A item \in Rows : written[item] = Len(fy.files[item])
  /\ ~Contains(entries, IndexPath)
  /\ entries' = Append(entries, IndexPath)
  /\ UNCHANGED <<fy, folders, used, written>>

ZipNext ==
  \/ \E item \in Rows : NameFolder(item) \/ NameUnreachable(item) \/ WriteAttachment(item)
  \/ WriteIndex
ZipSpec == ZipInit /\ [][ZipNext]_zipVars

------------------------------------------------------------------------------
\* No two items share a folder and no two attachments a path.  In a year
\* without cycles they don't where case is ignored either, no file is where a
\* folder is to be, and each item's folder is in its parent's.
PathsApart ==
  /\ IsInjective(folders) /\ IsInjective(entries)
  /\ (\A item \in Rows : InTree(item)) =>
       /\ \A i, j \in Named : FoldedPath(folders[i]) = FoldedPath(folders[j]) => i = j
       /\ \A j, k \in DOMAIN entries :
            FoldedPath(entries[j]) = FoldedPath(entries[k]) => j = k
       /\ \A i \in Named, k \in DOMAIN entries :
            ~IsPrefix(FoldedPath(entries[k]), FoldedPath(folders[i]))
       /\ \A i \in Named : Front(folders[i]) =
            IF fy.parent[i] = 0 THEN <<>> ELSE folders[fy.parent[i]]
=============================================================================
