------------------------------ MODULE ItemTree ------------------------------
(***************************************************************************)
(* The tree of checklist items and the financial years they belong to:     *)
(* Item in taxtracker/models.py, TreeNodeMixin, the admin's pages for them *)
(* and "Copy to new year".                                                 *)
(*                                                                         *)
(* Each of the admin's pages to add, change or delete one object is one    *)
(* transaction that locks out other writers from its start (SQLite's BEGIN *)
(* IMMEDIATE), so here each is one step.  "Delete selected" decides what   *)
(* to delete before its transaction begins.  A script or a shell calls     *)
(* Item.save() directly, without clean(): its queries are steps of their   *)
(* own, and unless it opens a transaction itself others come in between.   *)
(*                                                                         *)
(* Items and Years are primary keys.  Titles, orders and the numbers of    *)
(* the years play no part.                                                 *)
(***************************************************************************)
CONSTANTS
  Items,      \* items there can be
  Years,      \* financial years there can be
  None,
  Deleters,   \* requests to delete what is selected
  Autocommit  \* whether scripts save items outside a transaction

ASSUME ItemAssumption ==
  /\ None \notin Items \cup Years
  /\ Autocommit \in BOOLEAN

VARIABLES
  fys,         \* the financial years
  year,        \* each item's year (None: there is no such item)
  parent,      \* each item's parent
  doomed,      \* the items each deleter has found it is to delete
  doomedYears, \* and the years
  at,          \* where the script is in Item.save()
  obj,         \* the instance it is saving
  old,         \* old_year_id
  level,       \* current_level
  ids          \* ids_to_update

tree == <<fys, year, parent>>
deleters == <<doomed, doomedYears>>
script == <<at, obj, old, level, ids>>
vars == <<fys, year, parent, doomed, doomedYears, at, obj, old, level, ids>>

Existing == {i \in Items : year[i] # None}

Instance == [item : Items, parent : Items \cup {None}, year : Years]
NoInstance == [item |-> None, parent |-> None, year |-> None]

(* Foreign keys refer to rows that are there.                              *)
References ==
  \A i \in Items :
    /\ year[i] \in fys \cup {None}
    /\ parent[i] \in Existing \cup {None}
    /\ year[i] = None => parent[i] = None

TypeOK ==
  /\ fys \subseteq Years
  /\ year \in [Items -> Years \cup {None}]
  /\ parent \in [Items -> Items \cup {None}]
  /\ References
  /\ doomed \in [Deleters -> SUBSET Items]
  /\ doomedYears \in [Deleters -> SUBSET Years]
  /\ at \in {"idle", "read parent", "write", "cascade"}
  /\ IF at = "idle" THEN obj = NoInstance ELSE obj \in Instance
  /\ old \in Years \cup {None}
  /\ level \subseteq Items
  /\ ids \subseteq Items

Init ==
  /\ fys = {}
  /\ year = [i \in Items |-> None]
  /\ parent = [i \in Items |-> None]
  /\ doomed = [d \in Deleters |-> {}]
  /\ doomedYears = [d \in Deleters |-> {}]
  /\ at = "idle"
  /\ obj = NoInstance
  /\ old = None
  /\ level = {}
  /\ ids = {}

-----------------------------------------------------------------------------
(* Walks of the tree.                                                      *)

UpClosed(S) == \A i \in S : parent[i] # None => parent[i] \in S
DownClosed(S) == \A i \in Items : parent[i] \in S => i \in S

(* The item, its parent, its parent's parent, ...                          *)
Line(i) == {j \in Items : \A S \in SUBSET Items : i \in S /\ UpClosed(S) => j \in S}

(* The items and all their descendants.                                    *)
Below(I) == {j \in Items : \A S \in SUBSET Items : I \subseteq S /\ DownClosed(S) => j \in S}

(* The item's line comes to an end: it is not in or below a cycle.         *)
Rooted(i) == \E j \in Line(i) : parent[j] = None

OnCycle == {i \in Items : parent[i] # None /\ i \in Line(parent[i])}

(* The items the walk down from a year's roots meets: the rows of the      *)
(* summary page, the folders of the ZIP, the items that are copied.        *)
Reached(y) ==
  {j \in Items : \A S \in SUBSET Items :
     (\A i \in Items : year[i] = y /\ parent[i] \in S \cup {None} => i \in S) => j \in S}

-----------------------------------------------------------------------------
(* The admin.                                                              *)

(* Nobody else holds the database's write lock.                            *)
Unlocked == Autocommit \/ at = "idle"

(* A primary key nothing refers to, so as good as one never used before:   *)
(* SQLite gives none out twice.                                            *)
Free(i) ==
  /\ year[i] = None
  /\ \A d \in Deleters : i \notin doomed[d]
  /\ i \notin {obj.item, obj.parent}

AddYear(y) ==
  /\ Unlocked
  /\ y \notin fys
  /\ \A d \in Deleters : y \notin doomedYears[d]
  /\ fys' = fys \cup {y}
  /\ UNCHANGED <<year, parent, deleters, script>>

(* Mutant: only a parent of itself is a cycle.                             *)
CleanOfItself(i, p) == p # i

(* Item.clean(): check_parent_cycle() lets an unchanged parent be, and     *)
(* otherwise follows the new parent's line to its end.                     *)
Clean(i, p) == p = None \/ p = parent[i] \/ (Rooted(p) /\ i \notin Line(p))

(* Mutant: a child has the year the form says.                             *)
YearAsGiven(p, y) == y

(* A child has its parent's year, whatever the form says.                  *)
YearFor(p, y) == IF p = None THEN y ELSE year[p]

AddItem(i, p, y) ==
  /\ Unlocked
  /\ Free(i)
  /\ p \in Existing \cup {None}
  /\ y \in fys
  /\ year' = [year EXCEPT ![i] = YearFor(p, y)]
  /\ parent' = [parent EXCEPT ![i] = p]
  /\ UNCHANGED <<fys, deleters, script>>

(* Only a root's form has the year.                                        *)
FormYear(i, y) == IF parent[i] = None THEN y ELSE year[i]

(* Mutant: the children get it, but not their children.                    *)
FollowOneLevel(i, new) == {i} \cup {j \in Items : new # year[i] /\ parent[j] = i}

(* Who gets i's new year when i is saved with it.                          *)
Follow(i, new) == IF new = year[i] THEN {i} ELSE Below({i})

ChangeItem(i, p, y) ==
  /\ Unlocked
  /\ i \in Existing
  /\ p \in Existing \cup {None}
  /\ y \in fys
  /\ Clean(i, p)
  /\ LET new == YearFor(p, FormYear(i, y))
     IN  year' = [j \in Items |-> IF j \in Follow(i, new) THEN new ELSE year[j]]
  /\ parent' = [parent EXCEPT ![i] = p]
  /\ UNCHANGED <<fys, deleters, script>>

(* Mutant: an item's children go with it, but not their children.          *)
CascadeOneLevel(I, Y) == I \cup {i \in Items : parent[i] \in I \/ year[i] \in Y}

(* What deleting items and years deletes with them (on_delete=CASCADE).    *)
Cascade(I, Y) == Below(I \cup {i \in Existing : year[i] \in Y})

Delete(I, Y) ==
  /\ fys' = fys \ Y
  /\ year' = [i \in Items |-> IF i \in I THEN None ELSE year[i]]
  /\ parent' = [i \in Items |-> IF i \in I THEN None ELSE parent[i]]

DeleteItem(i) ==
  /\ Unlocked
  /\ i \in Existing
  /\ Delete(Cascade({i}, {}), {})
  /\ UNCHANGED <<deleters, script>>

DeleteYear(y) ==
  /\ Unlocked
  /\ y \in fys
  /\ Delete(Cascade({}, {y}), {y})
  /\ UNCHANGED <<deleters, script>>

-----------------------------------------------------------------------------
(* "Delete selected": QuerySet.delete() collects the rows, and then        *)
(* deletes them in a transaction.                                          *)

Idle(d) == doomed[d] = {} /\ doomedYears[d] = {}

Collect(d, I, Y) ==
  /\ Unlocked
  /\ Idle(d)
  /\ I \subseteq Existing
  /\ Y \subseteq fys
  /\ doomed' = [doomed EXCEPT ![d] = Cascade(I, Y)]
  /\ doomedYears' = [doomedYears EXCEPT ![d] = Y]
  /\ UNCHANGED <<tree, script>>

Done(d) ==
  /\ doomed' = [doomed EXCEPT ![d] = {}]
  /\ doomedYears' = [doomedYears EXCEPT ![d] = {}]

(* A row that would be left refers to one that would go.                   *)
LeavesDangling(I, Y) ==
  \E i \in Existing \ I : parent[i] \in I \/ year[i] \in Y

DeleteCollected(d) ==
  /\ Unlocked
  /\ ~Idle(d)
  /\ ~LeavesDangling(doomed[d], doomedYears[d])
  /\ Delete(doomed[d], doomedYears[d])
  /\ Done(d)
  /\ UNCHANGED script

(* IntegrityError: the transaction is rolled back.                         *)
DeletionRefused(d) ==
  /\ Unlocked
  /\ LeavesDangling(doomed[d], doomedYears[d])
  /\ Done(d)
  /\ UNCHANGED <<tree, script>>

-----------------------------------------------------------------------------
(* "Copy to new year": the page has read the source year before, which may *)
(* be gone by the time it writes.                                          *)

Original(copy, j) == CHOOSE i \in DOMAIN copy : copy[i] = j

Copied(copy) == {copy[i] : i \in DOMAIN copy}

(* _copy_items(): old_to_new as a function of the rows.                    *)
CopyItems(copy, y) ==
  /\ year' = [j \in Items |-> IF j \in Copied(copy) THEN y ELSE year[j]]
  /\ parent' =
       [j \in Items |->
          IF j \notin Copied(copy) THEN parent[j]
          ELSE LET p == parent[Original(copy, j)] IN IF p = None THEN None ELSE copy[p]]

CopyToNewYear(f, y) ==
  /\ Unlocked
  /\ y \notin fys
  /\ \A d \in Deleters : y \notin doomedYears[d]
  /\ fys' = fys \cup {y}
  /\ \E copy \in [Reached(f) -> {i \in Items : Free(i)}] :
       /\ \A i, j \in Reached(f) : copy[i] = copy[j] => i = j
       /\ CopyItems(copy, y)
  /\ UNCHANGED <<deleters, script>>

-----------------------------------------------------------------------------
(* Item.save(), called by a script on an item new, loaded or long gone.    *)

BeginSave(i, p, y) ==
  /\ at = "idle"
  /\ at' = "read parent"
  /\ obj' = [item |-> i, parent |-> p, year |-> y]
  /\ old' = year[i]
  /\ UNCHANGED <<tree, deleters, level, ids>>

ReadParentYear ==
  /\ at = "read parent"
  /\ at' = "write"
  /\ obj' = IF obj.parent \in Existing THEN [obj EXCEPT !.year = year[obj.parent]] ELSE obj
  /\ UNCHANGED <<tree, deleters, old, level, ids>>

SaveOver ==
  /\ at' = "idle"
  /\ obj' = NoInstance
  /\ old' = None
  /\ level' = {}
  /\ ids' = {}

(* The row can be written: what it refers to is there, or is itself.       *)
RowFits == obj.year \in fys /\ obj.parent \in Existing \cup {None, obj.item}

(* Mutant: save() looks for descendants whether the year changes or not.   *)
CascadesAlways == old # None

(* Whether the descendants' years have to change too.                      *)
Cascades == old # None /\ obj.year # old

(* UPDATE, or INSERT if there is no such row (any more).                   *)
WriteRow ==
  /\ at = "write"
  /\ RowFits
  /\ year' = [year EXCEPT ![obj.item] = obj.year]
  /\ parent' = [parent EXCEPT ![obj.item] = obj.parent]
  /\ IF Cascades
     THEN at' = "cascade" /\ level' = {obj.item} /\ UNCHANGED <<obj, old, ids>>
     ELSE SaveOver
  /\ UNCHANGED <<fys, deleters>>

Children(I) == {i \in Items : parent[i] \in I}

NextLevel ==
  /\ at = "cascade"
  /\ level # {}
  /\ level' = Children(level)
  /\ ids' = ids \cup Children(level)
  /\ UNCHANGED <<tree, deleters, at, obj, old>>

UpdateDescendants ==
  /\ at = "cascade"
  /\ level = {}
  /\ obj.year \in fys
  /\ year' = [i \in Items |-> IF i \in ids \cap Existing THEN obj.year ELSE year[i]]
  /\ SaveOver
  /\ UNCHANGED <<fys, parent, deleters>>

(* save() raises, or the script is killed.  In a transaction, what was     *)
(* written is rolled back: as if save() had stopped before it wrote.       *)
SaveFails ==
  /\ at # "idle"
  /\ Autocommit \/ at # "cascade"
  /\ SaveOver
  /\ UNCHANGED <<tree, deleters>>

-----------------------------------------------------------------------------
Admin ==
  \/ \E y \in Years : AddYear(y) \/ DeleteYear(y)
  \/ \E i \in Items, p \in Items \cup {None}, y \in Years : AddItem(i, p, y) \/ ChangeItem(i, p, y)
  \/ \E i \in Items : DeleteItem(i)
  \/ \E f, y \in Years : CopyToNewYear(f, y)

DeleteSelected ==
  \E d \in Deleters :
    \/ \E I \in SUBSET Items : Collect(d, I, {})
    \/ \E Y \in SUBSET Years : Collect(d, {}, Y)
    \/ DeleteCollected(d)
    \/ DeletionRefused(d)

SaveStep == ReadParentYear \/ WriteRow \/ NextLevel \/ UpdateDescendants

Script ==
  \/ \E i \in Items, p \in Items \cup {None}, y \in Years : BeginSave(i, p, y)
  \/ SaveStep
  \/ SaveFails

Next == Admin \/ DeleteSelected \/ Script

Spec == Init /\ [][Next]_vars

-----------------------------------------------------------------------------
(* INVARIANT.  "Child items always share their parent's year": clean(),    *)
(* save() and its cascade keep it so through changes of a root's year,     *)
(* moves between years, deletions and copies, whatever is saved.           *)
YearsAgree ==
  at = "idle" => \A i \in Existing : parent[i] # None => year[i] = year[parent[i]]

(* INVARIANT.  The walk down from a year's roots misses an item only if    *)
(* the item is in or below a cycle (the comment at line 737 of admin.py):  *)
(* nothing else is left out of a ZIP or of a copy.                         *)
WalkMissesOnlyCycles ==
  at = "idle" => \A i \in Existing : i \in Reached(year[i]) <=> Rooted(i)

(* PROPERTY.  Whatever cycles a script has left behind, the admin adds     *)
(* nothing to them and makes no other, with requests in any order          *)
(* (check_parent_cycle, which passes an unchanged parent unchecked).       *)
AdminMakesNoCycles == [][~WriteRow => OnCycle' \subseteq OnCycle]_vars

(* PROPERTY.  save()'s walk down from an item whose year has changed meets *)
(* no item twice, so it ends, whatever cycles there are: an item can only  *)
(* leave its year for one where it has no descendants.                     *)
CascadeMeetsItemsOnce ==
  [][NextLevel => Children(level) \cap (ids \cup {obj.item}) = {}]_vars
=============================================================================
