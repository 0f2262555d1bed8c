--------------------------- MODULE ItemTreeProofs ---------------------------
(***************************************************************************)
(* That items stay in their parents' years, and what follows from it, for  *)
(* any number of items, years and requests; and that the paths in a year's *)
(* ZIP are apart, for any items, titles and attachments.                   *)
(***************************************************************************)
EXTENDS YearPages, FiniteSetTheorems, SequenceTheorems, WellFoundedInduction, TLAPS

USE ItemAssumption

-----------------------------------------------------------------------------
(* Walks of the tree: lines, subtrees and what a walk from the roots meets *)
(* are the least sets closed under parents or children.                    *)

(* An item's line has the item and is closed under parents.                *)
LEMMA LineHas ==
  ASSUME TypeOK, NEW i \in Items
  PROVE  i \in Line(i) /\ UpClosed(Line(i))
BY DEF TypeOK, Line, UpClosed

(* It is the least such set.                                               *)
LEMMA LineLeast ==
  ASSUME NEW i \in Items, NEW S \in SUBSET Items, i \in S, UpClosed(S)
  PROVE  Line(i) \subseteq S
BY DEF Line

(* So an ancestor's line is part of an item's.                             *)
LEMMA LineOfAncestor ==
  ASSUME TypeOK, NEW i \in Items, NEW j \in Line(i)
  PROVE  j \in Items /\ Line(j) \subseteq Line(i)
<1>1. j \in Items /\ Line(i) \in SUBSET Items
  BY DEF Line
<1>2. UpClosed(Line(i))
  BY LineHas
<1> QED BY <1>1, <1>2, LineLeast

(* What is below some items has them and is closed under children.         *)
LEMMA BelowHas ==
  ASSUME NEW I \in SUBSET Items
  PROVE  /\ I \subseteq Below(I)
         /\ Below(I) \subseteq Items
         /\ DownClosed(Below(I))
BY DEF Below, DownClosed

(* Nothing is below them but themselves and children of what is.           *)
LEMMA BelowOnly ==
  ASSUME NEW I \in SUBSET Items, NEW j \in Below(I), j \notin I
  PROVE  parent[j] \in Below(I)
<1> SUFFICES ASSUME parent[j] \notin Below(I) PROVE FALSE
  OBVIOUS
<1> DEFINE S == Below(I) \ {j}
<1>1. S \in SUBSET Items /\ I \subseteq S
  BY BelowHas
<1>2. DownClosed(S)
  BY BelowHas DEF DownClosed
<1>3. Below(I) \subseteq S
  BY <1>1, <1>2 DEF Below
<1> QED BY <1>3

(* A year's roots are met, and then the children of what is.               *)
LEMMA ReachedHas ==
  ASSUME NEW y, NEW i \in Items, year[i] = y, parent[i] \in Reached(y) \cup {None}
  PROVE  i \in Reached(y)
BY DEF Reached

(* Nothing else is.                                                        *)
LEMMA ReachedOnly ==
  ASSUME NEW y, NEW i \in Reached(y)
  PROVE  i \in Items /\ year[i] = y /\ parent[i] \in Reached(y) \cup {None}
<1>1. Reached(y) \in SUBSET Items
  BY DEF Reached
<1> SUFFICES ASSUME ~(year[i] = y /\ parent[i] \in Reached(y) \cup {None}) PROVE FALSE
  BY <1>1
<1> DEFINE S == Reached(y) \ {i}
<1>2. \A k \in Items : year[k] = y /\ parent[k] \in S \cup {None} => k \in S
  BY ReachedHas
<1>3. Reached(y) \subseteq S
  BY <1>1, <1>2 DEF Reached
<1> QED BY <1>3

(* A cycle goes on through the parents of the items on it.                 *)
LEMMA CycleGoesOn ==
  ASSUME TypeOK, NEW i \in OnCycle
  PROVE  parent[i] \in OnCycle
<1> DEFINE p == parent[i]
<1>1. i \in Items /\ p \in Items /\ p # None /\ i \in Line(p)
  BY DEF OnCycle, TypeOK
<1>2. parent[p] # None
  <2> SUFFICES ASSUME parent[p] = None PROVE FALSE
    OBVIOUS
  <2>1. UpClosed({p})
    BY DEF UpClosed
  <2>2. i = p
    BY <1>1, <2>1, LineLeast
  <2> QED BY <1>1, <2>2
<1>3. parent[p] \in Items /\ UpClosed(Line(parent[p])) /\ parent[p] \in Line(parent[p])
  BY <1>1, <1>2, LineHas DEF TypeOK
<1>4. Line(p) \subseteq {p} \cup Line(parent[p])
  <2>1. Line(parent[p]) \subseteq Items
    BY DEF Line
  <2>2. UpClosed({p} \cup Line(parent[p]))
    BY <1>3 DEF UpClosed
  <2> HIDE DEF p
  <2> QED BY <1>1, <2>1, <2>2, LineLeast
<1>5. p \in Line(parent[p])
  <2>1. CASE i = p
    BY <1>1, <2>1
  <2>2. CASE i # p
    BY <1>1, <1>3, <1>4, <2>2 DEF UpClosed
  <2> QED BY <2>1, <2>2
<1> QED BY <1>1, <1>2, <1>5 DEF OnCycle

(* So the walk from the roots never meets one.                             *)
LEMMA ReachedOffCycle ==
  ASSUME TypeOK, NEW y
  PROVE  Reached(y) \cap OnCycle = {}
<1> DEFINE S == Reached(y) \ OnCycle
<1>1. \A k \in Items : year[k] = y /\ parent[k] \in S \cup {None} => k \in S
  <2> SUFFICES ASSUME NEW k \in Items, year[k] = y, parent[k] \in S \cup {None}
               PROVE  k \in S
    OBVIOUS
  <2>1. k \in Reached(y)
    BY ReachedHas
  <2>2. k \notin OnCycle
    BY CycleGoesOn DEF OnCycle
  <2> QED BY <2>1, <2>2
<1>2. S \in SUBSET Items
  BY ReachedOnly
<1>3. Reached(y) \subseteq S
  BY <1>1, <1>2 DEF Reached
<1> QED BY <1>3

-----------------------------------------------------------------------------
(* Types, and foreign keys.                                                *)

(* An item that has a parent exists, as does its parent.                   *)
LEMMA ParentsExist ==
  ASSUME TypeOK
  PROVE  \A i \in Items : parent[i] # None => /\ i \in Existing
                                               /\ parent[i] \in Existing
                                               /\ parent[i] \in Items
BY DEF TypeOK, References, Existing

(* Below existing items are existing items.                                *)
LEMMA BelowExisting ==
  ASSUME TypeOK, NEW I \in SUBSET Existing
  PROVE  I \in SUBSET Items /\ Below(I) \in SUBSET Existing
<1>1. I \in SUBSET Items
  BY DEF Existing
<1>2. \A j \in Below(I) : j \in Existing
  <2> SUFFICES ASSUME NEW j \in Below(I), j \notin I PROVE j \in Existing
    OBVIOUS
  <2>1. j \in Items /\ parent[j] \in Items
    BY <1>1, BelowHas, BelowOnly
  <2> QED BY <2>1 DEF TypeOK, References, Existing
<1> QED BY <1>1, <1>2

(* What is deleted with items and years leaves nothing that refers to it.  *)
LEMMA CascadeIsWhole ==
  ASSUME TypeOK, NEW I \in SUBSET Existing, NEW Y \in SUBSET fys
  PROVE  /\ Cascade(I, Y) \in SUBSET Items
         /\ ~LeavesDangling(Cascade(I, Y), Y)
<1> DEFINE J == I \cup {i \in Existing : year[i] \in Y}
<1>1. J \in SUBSET Items
  BY DEF Existing
<1>2. Cascade(I, Y) = Below(J)
  BY DEF Cascade
<1> HIDE DEF J
<1>3. J \subseteq Below(J) /\ Below(J) \subseteq Items /\ DownClosed(Below(J))
  BY <1>1, BelowHas
<1> QED BY <1>2, <1>3 DEF LeavesDangling, DownClosed, Existing, J

(* A deletion that leaves nothing dangling keeps the foreign keys.         *)
LEMMA DeleteTypes ==
  ASSUME TypeOK, NEW I \in SUBSET Items, NEW Y \in SUBSET Years,
         ~LeavesDangling(I, Y), Delete(I, Y)
  PROVE  /\ fys' \subseteq Years
         /\ year' \in [Items -> Years \cup {None}]
         /\ parent' \in [Items -> Items \cup {None}]
         /\ References'
<1>1. /\ \A i \in Items : /\ year'[i] = IF i \in I THEN None ELSE year[i]
                          /\ parent'[i] = IF i \in I THEN None ELSE parent[i]
      /\ fys' = fys \ Y
  BY DEF Delete
<1>2. /\ fys' \subseteq Years
      /\ year' \in [Items -> Years \cup {None}]
      /\ parent' \in [Items -> Items \cup {None}]
  BY DEF Delete, TypeOK
<1>3. References'
  <2> SUFFICES ASSUME NEW i \in Items, i \notin I, year[i] # None
               PROVE  year[i] \in fys \ Y /\ parent[i] \in {j \in Items \ I : year[j] # None} \cup {None}
    BY <1>1 DEF References, Existing, TypeOK
  <2>1. i \in Existing \ I /\ year[i] \in fys /\ parent[i] \in Existing \cup {None}
    BY DEF TypeOK, References, Existing
  <2> QED BY <2>1 DEF LeavesDangling, Existing
<1> QED BY <1>2, <1>3

(* What stays as it is when only the tree changes.                         *)
LEMMA RestTypes ==
  ASSUME TypeOK, UNCHANGED deleters, UNCHANGED script,
         /\ fys' \subseteq Years
         /\ year' \in [Items -> Years \cup {None}]
         /\ parent' \in [Items -> Items \cup {None}]
         /\ References'
  PROVE  TypeOK'
BY DEF TypeOK, deleters, script

(* Where the copy of an item hangs.                                        *)
LEMMA CopyGives ==
  ASSUME TypeOK, NEW f \in Years, NEW y \in Years,
         NEW copy \in [Reached(f) -> {i \in Items : Free(i)}],
         \A i, j \in Reached(f) : copy[i] = copy[j] => i = j,
         CopyItems(copy, y)
  PROVE  /\ \A i \in Reached(f) :
              /\ copy[i] \in Items /\ year[copy[i]] = None
              /\ year'[copy[i]] = y
              /\ parent'[copy[i]] = IF parent[i] = None THEN None ELSE copy[parent[i]]
         /\ \A j \in Items \ Copied(copy) : year'[j] = year[j] /\ parent'[j] = parent[j]
         /\ Copied(copy) \subseteq Items
<1>1. Copied(copy) \subseteq Items /\ \A i \in Reached(f) : copy[i] \in Copied(copy) /\ Free(copy[i])
  BY DEF Copied
<1>2. \A i \in Reached(f) : Original(copy, copy[i]) = i
  <2> SUFFICES ASSUME NEW i \in Reached(f) PROVE Original(copy, copy[i]) = i
    OBVIOUS
  <2>1. DOMAIN copy = Reached(f)
    OBVIOUS
  <2>2. \E k \in DOMAIN copy : copy[k] = copy[i]
    BY <2>1
  <2> QED BY <2>1, <2>2 DEF Original
<1>3. \A j \in Items :
        /\ year'[j] = IF j \in Copied(copy) THEN y ELSE year[j]
        /\ parent'[j] = IF j \notin Copied(copy) THEN parent[j]
                        ELSE IF parent[Original(copy, j)] = None THEN None
                             ELSE copy[parent[Original(copy, j)]]
  BY DEF CopyItems
<1> QED BY <1>1, <1>2, <1>3 DEF Free

(* The admin's transactions keep the types and the foreign keys.           *)
LEMMA AdminTypes ==
  ASSUME TypeOK, Admin
  PROVE  TypeOK'
<1>1. ASSUME NEW y \in Years, AddYear(y) PROVE TypeOK'
  <2>1. /\ fys' \subseteq Years
        /\ year' \in [Items -> Years \cup {None}]
        /\ parent' \in [Items -> Items \cup {None}]
        /\ References'
    BY <1>1 DEF AddYear, TypeOK, References, Existing
  <2> QED BY <1>1, <2>1, RestTypes DEF AddYear
<1>2. ASSUME NEW y \in Years, DeleteYear(y) PROVE TypeOK'
  <2>1. {y} \in SUBSET fys /\ {y} \in SUBSET Years /\ Delete(Cascade({}, {y}), {y})
    BY <1>2 DEF DeleteYear
  <2>2. Cascade({}, {y}) \in SUBSET Items /\ ~LeavesDangling(Cascade({}, {y}), {y})
    BY <2>1, CascadeIsWhole
  <2> QED BY <1>2, <2>1, <2>2, DeleteTypes, RestTypes DEF DeleteYear
<1>3. ASSUME NEW i \in Items, DeleteItem(i) PROVE TypeOK'
  <2>1. {i} \in SUBSET Existing /\ Delete(Cascade({i}, {}), {})
    BY <1>3 DEF DeleteItem
  <2>2. Cascade({i}, {}) \in SUBSET Items /\ ~LeavesDangling(Cascade({i}, {}), {})
    BY <2>1, CascadeIsWhole
  <2> QED BY <1>3, <2>1, <2>2, DeleteTypes, RestTypes DEF DeleteItem
<1>4. ASSUME NEW i \in Items, NEW p \in Items \cup {None}, NEW y \in Years, AddItem(i, p, y)
      PROVE  TypeOK'
  <2>1. YearFor(p, y) \in fys
    BY <1>4 DEF AddItem, YearFor, Existing, TypeOK, References
  <2>2. /\ \A j \in Items : /\ year'[j] = IF j = i THEN YearFor(p, y) ELSE year[j]
                            /\ parent'[j] = IF j = i THEN p ELSE parent[j]
        /\ fys' = fys
    BY <1>4 DEF AddItem, TypeOK
  <2>3. /\ fys' \subseteq Years
        /\ year' \in [Items -> Years \cup {None}]
        /\ parent' \in [Items -> Items \cup {None}]
    BY <1>4, <2>1 DEF AddItem, TypeOK
  <2>4. References'
    <3>1. year[i] = None /\ p \in Existing \cup {None} /\ None \notin fys
      BY <1>4 DEF AddItem, Free, TypeOK
    <3>2. Existing' = Existing \cup {i}
      BY <2>1, <2>2, <3>1 DEF Existing
    <3>3. References
      BY DEF TypeOK
    <3>4. ASSUME NEW j \in Items
          PROVE  /\ year'[j] \in fys' \cup {None}
                 /\ parent'[j] \in Existing' \cup {None}
                 /\ year'[j] = None => parent'[j] = None
      BY <2>1, <2>2, <3>1, <3>2, <3>3 DEF References
    <3> QED BY <3>4 DEF References
  <2> QED BY <1>4, <2>3, <2>4, RestTypes DEF AddItem
<1>5. ASSUME NEW i \in Items, NEW p \in Items \cup {None}, NEW y \in Years, ChangeItem(i, p, y)
      PROVE  TypeOK'
  <2> DEFINE new == YearFor(p, FormYear(i, y))
  <2>1. new \in fys
    BY <1>5 DEF ChangeItem, YearFor, FormYear, Existing, TypeOK, References
  <2>2. Follow(i, new) \in SUBSET Existing
    <3>1. {i} \in SUBSET Existing
      BY <1>5 DEF ChangeItem
    <3> QED BY <3>1, BelowExisting DEF Follow
  <2>3. /\ year' = [j \in Items |-> IF j \in Follow(i, new) THEN new ELSE year[j]]
        /\ parent' = [parent EXCEPT ![i] = p]
        /\ fys' = fys
        /\ i \in Existing /\ p \in Existing \cup {None}
        /\ UNCHANGED deleters /\ UNCHANGED script
    BY <1>5 DEF ChangeItem
  <2> HIDE DEF new
  <2>4. /\ fys' \subseteq Years
        /\ year' \in [Items -> Years \cup {None}]
        /\ parent' \in [Items -> Items \cup {None}]
    BY <2>1, <2>3 DEF TypeOK
  <2>5. Existing' = Existing
    BY <2>1, <2>2, <2>3 DEF Existing, TypeOK
  <2>6. References'
    BY <2>1, <2>2, <2>3, <2>5 DEF References, TypeOK, Existing
  <2> QED BY <2>3, <2>4, <2>6, RestTypes
<1>6. ASSUME NEW f \in Years, NEW y \in Years, CopyToNewYear(f, y) PROVE TypeOK'
  <2>1. PICK copy \in [Reached(f) -> {i \in Items : Free(i)}] :
          /\ \A i, j \in Reached(f) : copy[i] = copy[j] => i = j
          /\ CopyItems(copy, y)
    BY <1>6 DEF CopyToNewYear
  <2>2. /\ \A i \in Reached(f) :
             /\ copy[i] \in Items /\ year[copy[i]] = None
             /\ year'[copy[i]] = y
             /\ parent'[copy[i]] = IF parent[i] = None THEN None ELSE copy[parent[i]]
        /\ \A j \in Items \ Copied(copy) : year'[j] = year[j] /\ parent'[j] = parent[j]
        /\ Copied(copy) \subseteq Items
    BY <2>1, CopyGives
  <2>3. \A j \in Copied(copy) : \E i \in Reached(f) : j = copy[i]
    BY DEF Copied
  <2>4. \A i \in Reached(f) : copy[i] \in Copied(copy) /\ parent[i] \in Reached(f) \cup {None}
    BY ReachedOnly DEF Copied
  <2>5. \A j \in Copied(copy) : year'[j] = y /\ parent'[j] \in Copied(copy) \cup {None}
    BY <2>2, <2>3, <2>4
  <2>6. fys' = fys \cup {y}
    BY <1>6 DEF CopyToNewYear
  <2>7. fys' \subseteq Years
    BY <2>6 DEF TypeOK
  <2>8. \A j \in Items : year'[j] \in Years \cup {None} /\ parent'[j] \in Items \cup {None}
    <3>1. \A j \in Items \ Copied(copy) : year'[j] \in Years \cup {None} /\ parent'[j] \in Items \cup {None}
      <4>1. \A j \in Items : year[j] \in Years \cup {None} /\ parent[j] \in Items \cup {None}
        BY DEF TypeOK
      <4> QED BY <2>2, <4>1
    <3>2. \A j \in Copied(copy) : year'[j] \in Years /\ parent'[j] \in Items \cup {None}
      BY <2>2, <2>5
    <3> QED BY <3>1, <3>2
  <2>9. year' \in [Items -> Years \cup {None}] /\ parent' \in [Items -> Items \cup {None}]
    BY <2>1, <2>8 DEF CopyItems
  <2>10. References'
    <3>1. \A j \in Items : year[j] # None => j \in Items \ Copied(copy)
      BY <2>2, <2>3
    <3>2. \A j \in Items \ Copied(copy) :
            /\ year'[j] \in fys' \cup {None}
            /\ parent'[j] \in Existing' \cup {None}
            /\ year'[j] = None => parent'[j] = None
      BY <2>2, <2>6, <3>1 DEF TypeOK, References, Existing
    <3>3. \A j \in Copied(copy) :
            year'[j] \in fys' /\ parent'[j] \in Existing' \cup {None} /\ year'[j] # None
      BY <2>2, <2>5, <2>6 DEF Existing
    <3> QED BY <3>2, <3>3 DEF References
  <2>11. UNCHANGED deleters /\ UNCHANGED script
    BY <1>6 DEF CopyToNewYear
  <2> QED BY <2>7, <2>9, <2>10, <2>11, RestTypes
<1> QED BY <1>1, <1>2, <1>3, <1>4, <1>5, <1>6 DEF Admin

(* So do the requests to delete what is selected.                          *)
LEMMA DeleteSelectedTypes ==
  ASSUME TypeOK, DeleteSelected
  PROVE  TypeOK'
<1> PICK d \in Deleters : \/ \E I \in SUBSET Items : Collect(d, I, {})
                          \/ \E Y \in SUBSET Years : Collect(d, {}, Y)
                          \/ DeleteCollected(d)
                          \/ DeletionRefused(d)
  BY DEF DeleteSelected
<1>1. ASSUME NEW I \in SUBSET Items, NEW Y \in SUBSET Years, Collect(d, I, Y) PROVE TypeOK'
  <2>1. Cascade(I, Y) \in SUBSET Items
    BY <1>1, CascadeIsWhole DEF Collect
  <2> QED BY <1>1, <2>1 DEF Collect, TypeOK, References, Existing, tree, script
<1>2. CASE DeleteCollected(d)
  <2>1. doomed[d] \in SUBSET Items /\ doomedYears[d] \in SUBSET Years
    BY DEF TypeOK
  <2>2. /\ fys' \subseteq Years
        /\ year' \in [Items -> Years \cup {None}]
        /\ parent' \in [Items -> Items \cup {None}]
        /\ References'
    BY <1>2, <2>1, DeleteTypes DEF DeleteCollected
  <2> QED BY <1>2, <2>2 DEF DeleteCollected, Done, TypeOK, script
<1>3. CASE DeletionRefused(d)
  BY <1>3 DEF DeletionRefused, Done, TypeOK, References, Existing, tree, script
<1> QED BY <1>1, <1>2, <1>3

(* And so does a script's save.                                            *)
LEMMA ScriptTypes ==
  ASSUME TypeOK, Script
  PROVE  TypeOK'
<1> USE DEF Instance, NoInstance
<1>1. ASSUME NEW i \in Items, NEW p \in Items \cup {None}, NEW y \in Years, BeginSave(i, p, y)
      PROVE  TypeOK'
  BY <1>1 DEF BeginSave, TypeOK, References, Existing, tree, deleters
<1>2. CASE ReadParentYear
  <2>1. obj' \in Instance
    BY <1>2 DEF ReadParentYear, TypeOK, Existing
  <2> QED BY <1>2, <2>1 DEF ReadParentYear, TypeOK, References, Existing, tree, deleters
<1>3. CASE WriteRow
  <2>1. obj \in Instance /\ obj.year \in fys /\ obj.parent \in Existing \cup {None, obj.item}
    BY <1>3 DEF WriteRow, RowFits, TypeOK
  <2>2. /\ fys' = fys
        /\ \A j \in Items : /\ year'[j] = IF j = obj.item THEN obj.year ELSE year[j]
                            /\ parent'[j] = IF j = obj.item THEN obj.parent ELSE parent[j]
    BY <1>3 DEF WriteRow, TypeOK
  <2>3. year' \in [Items -> Years \cup {None}] /\ parent' \in [Items -> Items \cup {None}]
    BY <1>3, <2>1 DEF WriteRow, TypeOK
  <2>4. References'
    BY <2>1, <2>2 DEF TypeOK, References, Existing
  <2>5. CASE Cascades
    BY <1>3, <2>1, <2>2, <2>3, <2>4, <2>5 DEF WriteRow, TypeOK, deleters
  <2>6. CASE ~Cascades
    BY <1>3, <2>1, <2>2, <2>3, <2>4, <2>6 DEF WriteRow, SaveOver, TypeOK, deleters
  <2> QED BY <2>5, <2>6
<1>4. CASE NextLevel
  BY <1>4 DEF NextLevel, Children, TypeOK, References, Existing, tree, deleters
<1>5. CASE UpdateDescendants
  <2>1. obj.year \in fys
    BY <1>5 DEF UpdateDescendants
  <2>2. \A j \in Items : year'[j] = IF j \in ids \cap Existing THEN obj.year ELSE year[j]
    BY <1>5 DEF UpdateDescendants
  <2>3. year' \in [Items -> Years \cup {None}] /\ parent' = parent /\ fys' = fys
    BY <1>5, <2>1 DEF UpdateDescendants, TypeOK
  <2>4. Existing' = Existing
    BY <2>1, <2>2 DEF Existing, TypeOK
  <2>5. References'
    BY <2>1, <2>2, <2>3, <2>4 DEF TypeOK, References, Existing
  <2> QED BY <1>5, <2>3, <2>5 DEF UpdateDescendants, SaveOver, TypeOK, deleters
<1>6. CASE SaveFails
  BY <1>6 DEF SaveFails, SaveOver, TypeOK, References, Existing, tree, deleters
<1> QED BY <1>1, <1>2, <1>3, <1>4, <1>5, <1>6 DEF Script, SaveStep

(* Every value has its type, and whatever requests and scripts do, each    *)
(* item's year and parent are there (on_delete=CASCADE, SQLite's foreign   *)
(* keys, and the rows Collector found before its transaction began).       *)
THEOREM TypeCorrect == Spec => []TypeOK
<1>1. Init => TypeOK
  BY DEF Init, TypeOK, References, Existing, NoInstance
<1>2. TypeOK /\ [Next]_vars => TypeOK'
  <2> SUFFICES ASSUME TypeOK, [Next]_vars PROVE TypeOK'
    OBVIOUS
  <2>1. CASE UNCHANGED vars
    BY <2>1 DEF vars, TypeOK, References, Existing
  <2>2. CASE Next
    BY <2>2, AdminTypes, DeleteSelectedTypes, ScriptTypes DEF Next
  <2> QED BY <2>1, <2>2
<1> QED BY <1>1, <1>2, PTL DEF Spec

-----------------------------------------------------------------------------
(* Years.  In the cascade only the saved item's children may be in another *)
(* year than their parent, the one the item has left; that year's items    *)
(* met so far are the item's descendants down to the current level.        *)

Agree == \A i \in Existing : parent[i] # None => year[i] = year[parent[i]]

(* Before the row is written, the tree is as it was when save() began.     *)
BeforeWrite ==
  /\ at # "cascade" => Agree /\ ids = {}
  /\ at \in {"read parent", "write"} => old = year[obj.item]
  /\ at = "write" /\ obj.parent \in Existing => obj.year = year[obj.parent]

(* The items whose children the cascade has looked for.                    *)
Expanded == (ids \cup {obj.item}) \ level

(* Afterwards, the item has left the year its descendants are in.          *)
ItemMoved ==
  /\ obj.item \in Existing
  /\ year[obj.item] = obj.year
  /\ parent[obj.item] = obj.parent
  /\ obj.year # old
  /\ obj.parent # obj.item
  /\ obj.parent # None => year[obj.parent] = obj.year
  /\ \A i \in Existing :
       parent[i] # None => year[i] = IF parent[i] = obj.item THEN old ELSE year[parent[i]]

(* The walk has them level by level.                                       *)
WalkHas ==
  /\ level \subseteq ids \cup {obj.item}
  /\ \A i \in ids : i \in Existing /\ year[i] = old /\ parent[i] \in Expanded
  /\ \A i \in Items : parent[i] \in Expanded => i \in ids \cup {obj.item}

YearInv == BeforeWrite /\ (at = "cascade" => ItemMoved /\ WalkHas)

(* Nothing the walk has met is a child of the current level.               *)
LEMMA ChildrenAreNew ==
  ASSUME TypeOK, YearInv, at = "cascade"
  PROVE  Children(level) \cap (ids \cup {obj.item}) = {}
<1> USE DEF YearInv
<1>1. \A i \in ids : parent[i] \notin level
  BY DEF WalkHas, Expanded
<1>2. parent[obj.item] \notin level
  BY <1>1 DEF ItemMoved, WalkHas, TypeOK, References, Instance
<1> QED BY <1>1, <1>2 DEF Children

(* The admin's transactions keep years in agreement.                       *)
LEMMA AdminAgree ==
  ASSUME TypeOK, Agree, Admin
  PROVE  Agree'
<1>1. ASSUME NEW y \in Years, AddYear(y) PROVE Agree'
  BY <1>1 DEF AddYear, Agree, Existing
<1>2. ASSUME NEW I, NEW Y, Delete(I, Y), ~LeavesDangling(I, Y) PROVE Agree'
  <2>1. \A i \in Items : /\ year'[i] = IF i \in I THEN None ELSE year[i]
                         /\ parent'[i] = IF i \in I THEN None ELSE parent[i]
    BY <1>2 DEF Delete
  <2> QED BY <1>2, <2>1 DEF LeavesDangling, Agree, Existing, TypeOK, References
<1>3. ASSUME NEW y \in Years, DeleteYear(y) PROVE Agree'
  <2>1. {y} \in SUBSET fys /\ {} \in SUBSET Existing
    BY <1>3 DEF DeleteYear
  <2> QED BY <1>2, <1>3, <2>1, CascadeIsWhole DEF DeleteYear
<1>4. ASSUME NEW i \in Items, DeleteItem(i) PROVE Agree'
  <2>1. {i} \in SUBSET Existing /\ {} \in SUBSET fys
    BY <1>4 DEF DeleteItem
  <2> QED BY <1>2, <1>4, <2>1, CascadeIsWhole DEF DeleteItem
<1>5. ASSUME NEW i \in Items, NEW p \in Items \cup {None}, NEW y \in Years, AddItem(i, p, y)
      PROVE  Agree'
  <2>1. \A j \in Items : /\ year'[j] = IF j = i THEN YearFor(p, y) ELSE year[j]
                         /\ parent'[j] = IF j = i THEN p ELSE parent[j]
    BY <1>5 DEF AddItem, TypeOK
  <2>2. year[i] = None /\ p \in Existing \cup {None}
    BY <1>5 DEF AddItem, Free
  <2> QED BY <2>1, <2>2 DEF YearFor, Agree, Existing, TypeOK, References
<1>6. ASSUME NEW i \in Items, NEW p \in Items \cup {None}, NEW y \in Years, ChangeItem(i, p, y)
      PROVE  Agree'
  <2> DEFINE new == YearFor(p, FormYear(i, y))
             F == Follow(i, new)
  <2>1. /\ \A j \in Items : year'[j] = IF j \in F THEN new ELSE year[j]
        /\ \A j \in Items : parent'[j] = IF j = i THEN p ELSE parent[j]
        /\ {i} \in SUBSET Existing /\ p \in Existing \cup {None}
    BY <1>6 DEF ChangeItem, TypeOK
  <2>2. p # None => new = year[p]
    BY DEF YearFor
  <2> HIDE DEF new
  <2>3. CASE new = year[i]
    <3>1. \A j \in Items : year'[j] = year[j]
      BY <2>1, <2>3 DEF Follow
    <3> HIDE DEF F
    <3>2. \A j \in Existing : parent[j] # None => year[j] = year[parent[j]] /\ parent[j] \in Items
      BY ParentsExist DEF Agree, Existing
    <3>3. p # None => p \in Items /\ year[i] = year[p]
      BY <2>1, <2>2, <2>3 DEF Existing
    <3> SUFFICES ASSUME NEW j \in Items, year'[j] # None, parent'[j] # None
                 PROVE  year'[j] = year'[parent'[j]]
      BY DEF Agree, Existing
    <3>4. parent'[j] = IF j = i THEN p ELSE parent[j]
      BY <2>1
    <3>5. j \in Existing
      BY <3>1 DEF Existing
    <3>6. CASE j = i
      BY <3>1, <3>3, <3>4, <3>6
    <3>7. CASE j # i
      BY <3>1, <3>2, <3>4, <3>5, <3>7
    <3> QED BY <3>6, <3>7
  <2>4. CASE new # year[i]
    <3>1. F = Below({i}) /\ {i} \in SUBSET Items /\ F \in SUBSET Existing
      BY <2>1, <2>4, BelowExisting DEF Follow
    <3>2. i \in F /\ DownClosed(F) /\ \A j \in F : j # i => parent[j] \in F
      BY <3>1, BelowHas, BelowOnly
    <3> HIDE DEF F
    <3>3. \A j \in Items : year'[j] # None => year[j] # None
      BY <2>1, <3>1 DEF Existing
    <3> SUFFICES ASSUME NEW j \in Items, year'[j] # None, parent'[j] # None
                 PROVE  year'[j] = year'[parent'[j]]
      BY DEF Agree, Existing
    <3>4. CASE j = i
      <4>1. p \in Items /\ parent'[j] = p /\ year'[j] = new
        BY <2>1, <3>2, <3>4 DEF Existing
      <4> QED BY <2>1, <2>2, <4>1
    <3>5. CASE j # i
      <4>1. parent'[j] = parent[j] /\ parent[j] \in Items /\ year[j] = year[parent[j]]
        BY <2>1, <3>3, <3>5 DEF Agree, Existing, TypeOK
      <4>2. j \in F <=> parent[j] \in F
        BY <3>2, <3>5 DEF DownClosed
      <4> QED BY <2>1, <4>1, <4>2
    <3> QED BY <3>4, <3>5
  <2> QED BY <2>3, <2>4
<1>7. ASSUME NEW f \in Years, NEW y \in Years, CopyToNewYear(f, y) PROVE Agree'
  <2>1. PICK copy \in [Reached(f) -> {i \in Items : Free(i)}] :
          /\ \A i, j \in Reached(f) : copy[i] = copy[j] => i = j
          /\ CopyItems(copy, y)
    BY <1>7 DEF CopyToNewYear
  <2>2. /\ \A i \in Reached(f) :
             /\ copy[i] \in Items /\ year[copy[i]] = None
             /\ year'[copy[i]] = y
             /\ parent'[copy[i]] = IF parent[i] = None THEN None ELSE copy[parent[i]]
        /\ \A j \in Items \ Copied(copy) : year'[j] = year[j] /\ parent'[j] = parent[j]
        /\ Copied(copy) \subseteq Items
    BY <2>1, CopyGives
  <2>3. \A j \in Copied(copy) : \E i \in Reached(f) : j = copy[i]
    BY DEF Copied
  <2>4. \A i \in Reached(f) : copy[i] \in Copied(copy) /\ parent[i] \in Reached(f) \cup {None}
    BY ReachedOnly DEF Copied
  <2>5. \A j \in Copied(copy) :
          year'[j] = y /\ (parent'[j] # None => parent'[j] \in Copied(copy))
    BY <2>2, <2>3, <2>4
  <2>6. \A j \in Existing : parent[j] # None => /\ j \in Items \ Copied(copy)
                                                /\ parent[j] \in Items \ Copied(copy)
    <3>1. \A j \in Existing : j \in Items \ Copied(copy)
      BY <2>2, <2>3 DEF Existing
    <3> QED BY <3>1, ParentsExist DEF Existing
  <2> QED BY <2>2, <2>5, <2>6 DEF Agree, Existing
<1> QED BY <1>1, <1>3, <1>4, <1>5, <1>6, <1>7 DEF Admin

(* So do the deletions of what was selected, stale as they may be.         *)
LEMMA DeleteSelectedAgree ==
  ASSUME TypeOK, Agree, DeleteSelected
  PROVE  Agree'
<1>1. ASSUME NEW d \in Deleters, DeleteCollected(d) PROVE Agree'
  <2>1. \A i \in Items : /\ year'[i] = IF i \in doomed[d] THEN None ELSE year[i]
                         /\ parent'[i] = IF i \in doomed[d] THEN None ELSE parent[i]
    BY <1>1 DEF DeleteCollected, Delete
  <2>2. ~LeavesDangling(doomed[d], doomedYears[d])
    BY <1>1 DEF DeleteCollected
  <2> QED BY <2>1, <2>2 DEF LeavesDangling, Agree, Existing, TypeOK, References
<1>2. CASE UNCHANGED tree
  BY <1>2 DEF tree, Agree, Existing
<1> QED BY <1>1, <1>2 DEF DeleteSelected, Collect, DeletionRefused

(* What a script's save does to years, step by step.                       *)
LEMMA ScriptYears ==
  ASSUME TypeOK, YearInv, ~Autocommit, Script
  PROVE  YearInv'
<1> USE DEF YearInv
<1>1. ASSUME NEW i \in Items, NEW p \in Items \cup {None}, NEW y \in Years, BeginSave(i, p, y)
      PROVE  YearInv'
  BY <1>1 DEF BeginSave, BeforeWrite, Agree, Existing, tree
<1>2. CASE ReadParentYear
  BY <1>2 DEF ReadParentYear, BeforeWrite, Agree, Existing, tree, TypeOK, Instance
<1>3. CASE WriteRow
  <2> DEFINE i == obj.item
  <2>1. /\ obj \in Instance /\ at = "write" /\ obj.parent \in Existing \cup {None, i}
        /\ Agree /\ ids = {} /\ old = year[i]
        /\ obj.parent \in Existing => obj.year = year[obj.parent]
    BY <1>3 DEF WriteRow, RowFits, BeforeWrite, TypeOK
  <2>2. /\ \A j \in Items : /\ year'[j] = IF j = i THEN obj.year ELSE year[j]
                            /\ parent'[j] = IF j = i THEN obj.parent ELSE parent[j]
        /\ i \in Items /\ obj.year \in Years /\ obj.parent \in Items \cup {None}
    BY <1>3, <2>1 DEF WriteRow, TypeOK, Instance
  <2>3. CASE Cascades
    <3>1. at' = "cascade" /\ level' = {i} /\ obj' = obj /\ old' = old /\ ids' = {}
      BY <1>3, <2>1, <2>3 DEF WriteRow
    <3>2. old # None /\ obj.year # old /\ obj.parent # i
      BY <2>1, <2>2, <2>3 DEF Cascades, Existing
    <3>3. ItemMoved'
      BY <2>1, <2>2, <3>1, <3>2 DEF ItemMoved, Agree, Existing, TypeOK, References
    <3>4. WalkHas'
      BY <3>1 DEF WalkHas, Expanded
    <3> QED BY <3>1, <3>3, <3>4 DEF BeforeWrite
  <2>4. CASE ~Cascades
    <3>1. at' = "idle" /\ ids' = {}
      BY <1>3, <2>4 DEF WriteRow, SaveOver
    <3>2. \A j \in Existing : j = i => obj.year = year[j]
      BY <2>1, <2>4 DEF Cascades, Existing
    <3>3. \A j \in Items : parent[j] = i => i \in Existing
      BY <2>2, ParentsExist
    <3>4. Agree'
      BY <2>1, <2>2, <3>2, <3>3 DEF Agree, Existing, TypeOK
    <3> QED BY <3>1, <3>4 DEF BeforeWrite
  <2> QED BY <2>3, <2>4
<1>4. CASE NextLevel
  <2>1. /\ at = "cascade" /\ at' = "cascade" /\ obj' = obj /\ old' = old
        /\ UNCHANGED <<fys, year, parent>>
        /\ level' = Children(level) /\ ids' = ids \cup Children(level)
    BY <1>4 DEF NextLevel, tree
  <2>2. ItemMoved'
    BY <2>1 DEF ItemMoved, Existing
  <2>3. Children(level) \cap (ids \cup {obj.item}) = {}
    BY <2>1, ChildrenAreNew
  <2>4. Expanded' = ids \cup {obj.item}
    BY <2>1, <2>3 DEF Expanded
  <2>5. \A j \in Children(level) : j \in Existing /\ year[j] = old /\ parent[j] \in ids \cup {obj.item}
    <3> SUFFICES ASSUME NEW j \in Items, parent[j] \in level
                 PROVE  j \in Existing /\ year[j] = old /\ parent[j] \in ids \cup {obj.item}
      BY DEF Children
    <3>1. parent[j] \in ids \cup {obj.item}
      BY <2>1 DEF WalkHas
    <3>2. j \in Existing /\ parent[j] # None
      BY DEF TypeOK, References, Existing
    <3>3. parent[j] = obj.item \/ year[parent[j]] = old
      BY <2>1, <3>1 DEF WalkHas
    <3> QED BY <2>1, <3>1, <3>2, <3>3 DEF ItemMoved
  <2>6. \A j \in Items : parent[j] \in ids \cup {obj.item} => j \in ids' \cup {obj.item}
    BY <2>1 DEF WalkHas, Expanded, Children
  <2>7. WalkHas'
    <3>1. \A j \in ids : j \in Existing /\ year[j] = old /\ parent[j] \in ids \cup {obj.item}
      BY <2>1 DEF WalkHas, Expanded
    <3>2. Existing' = Existing
      BY <2>1 DEF Existing
    <3> HIDE DEF Expanded
    <3> QED BY <2>1, <2>4, <2>5, <2>6, <3>1, <3>2 DEF WalkHas
  <2> QED BY <2>1, <2>2, <2>7 DEF BeforeWrite
<1>5. CASE UpdateDescendants
  <2>1. /\ at = "cascade" /\ level = {} /\ parent' = parent /\ at' = "idle" /\ ids' = {}
        /\ obj.year \in fys
    BY <1>5 DEF UpdateDescendants, SaveOver
  <2>2. ItemMoved /\ WalkHas
    BY <2>1
  <2>3. \A j \in Items : year'[j] = IF j \in ids THEN obj.year ELSE year[j]
    BY <1>5, <2>2 DEF UpdateDescendants, WalkHas
  <2>4. /\ \A j \in ids : parent[j] \in ids \cup {obj.item}
        /\ \A j \in Items : parent[j] \in ids \cup {obj.item} => j \in ids \cup {obj.item}
    BY <2>1, <2>2 DEF WalkHas, Expanded
  <2>5. year'[obj.item] = obj.year
    BY <2>2, <2>3 DEF ItemMoved, Existing
  <2>6. Agree'
    <3> SUFFICES ASSUME NEW j \in Items, year'[j] # None, parent[j] # None
                 PROVE  year'[j] = year'[parent[j]]
      BY <2>1 DEF Agree, Existing
    <3>1. parent[j] \in Items /\ j \in Existing
      BY DEF TypeOK, References, Existing
    <3>2. CASE parent[j] \in ids \cup {obj.item}
      BY <2>3, <2>4, <2>5, <3>1, <3>2
    <3>3. CASE parent[j] \notin ids \cup {obj.item}
      <4>1. year[j] = year[parent[j]]
        BY <2>2, <3>1, <3>3 DEF ItemMoved
      <4>2. j \notin ids
        BY <2>4, <3>3
      <4> QED BY <2>3, <3>1, <3>3, <4>1, <4>2
    <3> QED BY <3>2, <3>3
  <2> QED BY <2>1, <2>6 DEF BeforeWrite
<1>6. CASE SaveFails
  BY <1>6 DEF SaveFails, SaveOver, BeforeWrite, Agree, Existing, tree
<1> QED BY <1>1, <1>2, <1>3, <1>4, <1>5, <1>6 DEF Script, SaveStep

(* The invariant behind the years, where scripts save in transactions.     *)
LEMMA YearsInvariant ==
  ASSUME ~Autocommit
  PROVE  Spec => [](TypeOK /\ YearInv)
<1>1. Init => YearInv
  BY DEF Init, YearInv, BeforeWrite, Agree, Existing
<1>2. TypeOK /\ YearInv /\ [Next]_vars => YearInv'
  <2> SUFFICES ASSUME TypeOK, YearInv, [Next]_vars PROVE YearInv'
    OBVIOUS
  <2>1. CASE UNCHANGED vars
    BY <2>1 DEF vars, YearInv, BeforeWrite, ItemMoved, WalkHas, Expanded, Agree, Existing
  <2>2. CASE Admin \/ DeleteSelected
    <3>1. at = "idle" /\ UNCHANGED script
      BY <2>2 DEF Admin, AddYear, DeleteYear, AddItem, ChangeItem, DeleteItem, CopyToNewYear,
                  DeleteSelected, Collect, DeleteCollected, DeletionRefused, Unlocked
    <3>2. Agree /\ ids = {}
      BY <3>1 DEF YearInv, BeforeWrite
    <3>3. Agree'
      BY <2>2, <3>2, AdminAgree, DeleteSelectedAgree
    <3> QED BY <3>1, <3>2, <3>3 DEF script, YearInv, BeforeWrite
  <2>3. CASE Script
    BY <2>3, ScriptYears
  <2> QED BY <2>1, <2>2, <2>3 DEF Next
<1> QED BY <1>1, <1>2, TypeCorrect, PTL DEF Spec

(* "Child items always share their parent's year" (clean() and save() of   *)
(* Item, _copy_items and the deletions), if every save is in a transaction.*)
THEOREM ChildrenShareYears ==
  ASSUME ~Autocommit
  PROVE  Spec => []YearsAgree
<1>1. YearInv => YearsAgree
  BY DEF YearInv, BeforeWrite, Agree, YearsAgree
<1> QED BY <1>1, YearsInvariant, PTL

(* The walk through the descendants in Item.save() meets no item twice, so *)
(* it ends, even where a script has made cycles.                           *)
THEOREM CascadeMeetsNoItemTwice ==
  ASSUME ~Autocommit
  PROVE  Spec => CascadeMeetsItemsOnce
<1>1. TypeOK /\ YearInv /\ [Next]_vars =>
        [NextLevel => Children(level) \cap (ids \cup {obj.item}) = {}]_vars
  BY ChildrenAreNew DEF NextLevel
<1> QED BY <1>1, YearsInvariant, PTL DEF Spec, CascadeMeetsItemsOnce

-----------------------------------------------------------------------------
(* What the walk from the roots misses.                                    *)

(* A rooted line makes the lines that join it rooted.                      *)
LEMMA RootedBelow ==
  ASSUME TypeOK, NEW i \in Items, parent[i] # None, Rooted(parent[i])
  PROVE  Rooted(i)
<1>1. i \in Line(i) /\ UpClosed(Line(i))
  BY LineHas
<1>2. parent[i] \in Line(i)
  BY <1>1 DEF UpClosed
<1>3. Line(parent[i]) \subseteq Line(i)
  BY <1>2, LineOfAncestor
<1> QED BY <1>3 DEF Rooted

(* With the years in agreement, the walk from a year's roots meets just    *)
(* the items of the year whose lines have a root.                          *)
LEMMA WalkMeetsRooted ==
  ASSUME TypeOK, Agree, NEW i \in Existing
  PROVE  i \in Reached(year[i]) <=> Rooted(i)
<1> DEFINE y == year[i]
<1>0. i \in Items
  BY DEF Existing
<1>1. ASSUME i \in Reached(y) PROVE Rooted(i)
  <2> DEFINE S == {j \in Items : Rooted(j)}
  <2>1. ASSUME NEW k \in Items, parent[k] \in S \cup {None} PROVE k \in S
    <3>1. CASE parent[k] = None
      BY <3>1, LineHas DEF Rooted
    <3>2. CASE parent[k] # None
      BY <2>1, <3>2, RootedBelow
    <3> QED BY <3>1, <3>2
  <2> HIDE DEF S
  <2>2. S \in SUBSET Items
    BY DEF S
  <2>3. Reached(y) \subseteq S
    BY <2>1, <2>2 DEF Reached
  <2> QED BY <1>1, <2>3 DEF S
<1>2. ASSUME i \notin Reached(y) PROVE ~Rooted(i)
  <2> DEFINE S == {j \in Existing : year[j] = y /\ j \notin Reached(y)}
  <2>1. S \in SUBSET Items /\ i \in S
    BY <1>2 DEF Existing
  <2>2. ASSUME NEW k \in S PROVE parent[k] \in S
    <3>1. k \in Existing /\ k \in Items /\ year[k] = y /\ k \notin Reached(y)
      BY DEF Existing
    <3>2. parent[k] # None /\ parent[k] \notin Reached(y)
      BY <3>1, ReachedHas
    <3>3. parent[k] \in Existing /\ year[parent[k]] = y
      BY <3>1, <3>2, ParentsExist DEF Agree
    <3> QED BY <3>2, <3>3
  <2>3. \A k \in S : parent[k] # None
    BY <2>1, <2>2
  <2> HIDE DEF S
  <2>4. Line(i) \subseteq S
    BY <2>1, <2>2, LineLeast DEF UpClosed
  <2> QED BY <2>3, <2>4 DEF Rooted
<1> QED BY <1>1, <1>2

(* The rows of the summary, the folders of a ZIP and the items copied to a *)
(* new year (_tree_rows_and_unreachable_items) leave out an item only if   *)
(* it is in or below a cycle.                                              *)
THEOREM OnlyCyclesAreMissed ==
  ASSUME ~Autocommit
  PROVE  Spec => []WalkMissesOnlyCycles
<1>1. TypeOK /\ YearInv => WalkMissesOnlyCycles
  BY WalkMeetsRooted DEF YearInv, BeforeWrite, WalkMissesOnlyCycles
<1> QED BY <1>1, YearsInvariant, PTL

-----------------------------------------------------------------------------
(* Cycles.                                                                 *)

(* An item is on a cycle in the next state only if every set that is then  *)
(* closed under parents and has its parent has it.                         *)
LEMMA NextCycle ==
  ASSUME NEW j \in OnCycle'
  PROVE  /\ j \in Items /\ parent'[j] # None
         /\ \A S \in SUBSET Items :
              parent'[j] \in S /\ (\A k \in S : parent'[k] # None => parent'[k] \in S) => j \in S
BY DEF OnCycle, Line, UpClosed

(* And it is on one now if every set that is closed now and has its parent *)
(* has it.                                                                 *)
LEMMA ThisCycle ==
  ASSUME NEW j \in Items, parent[j] # None,
         \A S \in SUBSET Items : parent[j] \in S /\ UpClosed(S) => j \in S
  PROVE  j \in OnCycle
BY DEF OnCycle, Line

(* Taking items away makes no cycle.                                       *)
LEMMA DeleteMakesNone ==
  ASSUME TypeOK, NEW I, NEW Y, Delete(I, Y)
  PROVE  OnCycle' \subseteq OnCycle
<1> SUFFICES ASSUME NEW j \in OnCycle' PROVE j \in OnCycle
  OBVIOUS
<1>1. \A k \in Items : parent'[k] = IF k \in I THEN None ELSE parent[k]
  BY DEF Delete
<1>2. j \in Items /\ parent[j] # None /\ parent'[j] = parent[j]
  BY <1>1, NextCycle
<1>3. ASSUME NEW S \in SUBSET Items, parent[j] \in S, UpClosed(S) PROVE j \in S
  <2>1. \A k \in S : parent'[k] # None => parent'[k] \in S
    BY <1>1, <1>3 DEF UpClosed
  <2> QED BY <1>2, <1>3, <2>1, NextCycle
<1> QED BY <1>2, <1>3, ThisCycle

(* Nor does a new item, which has no children.                             *)
LEMMA AddMakesNone ==
  ASSUME TypeOK, NEW i \in Items, NEW p \in Items \cup {None}, NEW y \in Years, AddItem(i, p, y)
  PROVE  OnCycle' \subseteq OnCycle
<1> SUFFICES ASSUME NEW j \in OnCycle' PROVE j \in OnCycle
  OBVIOUS
<1>1. /\ \A k \in Items : parent'[k] = IF k = i THEN p ELSE parent[k]
      /\ p # i
      /\ \A k \in Items : parent[k] # i
  BY ParentsExist DEF AddItem, Free, Existing, TypeOK
<1>2. \A S \in SUBSET Items :
        UpClosed(S) => \A k \in S \ {i} : parent'[k] # None => parent'[k] \in S \ {i}
  BY <1>1 DEF UpClosed
<1>3. j # i
  <2> SUFFICES ASSUME j = i PROVE FALSE
    OBVIOUS
  <2>1. p \in Items /\ parent'[i] = p
    BY <1>1, NextCycle
  <2>2. Line(p) \in SUBSET Items /\ p \in Line(p) /\ UpClosed(Line(p))
    BY <2>1, LineHas DEF Line
  <2>3. Line(p) \ {i} \in SUBSET Items /\ p \in Line(p) \ {i}
    BY <1>1, <2>2
  <2> QED BY <1>2, <2>1, <2>2, <2>3, NextCycle
<1>4. j \in Items /\ parent'[j] = parent[j] /\ parent[j] # None
  BY <1>1, <1>3, NextCycle
<1>5. ASSUME NEW S \in SUBSET Items, parent[j] \in S, UpClosed(S) PROVE j \in S
  <2>1. S \ {i} \in SUBSET Items /\ parent'[j] \in S \ {i}
    BY <1>1, <1>4, <1>5
  <2> QED BY <1>2, <1>5, <2>1, NextCycle
<1> QED BY <1>4, <1>5, ThisCycle

(* A new parent that passes check_parent_cycle() makes none: the item is   *)
(* not on its line, which stays as it is.                                  *)
LEMMA ChangeMakesNone ==
  ASSUME TypeOK, NEW i \in Items, NEW p \in Items \cup {None}, NEW y \in Years, ChangeItem(i, p, y)
  PROVE  OnCycle' \subseteq OnCycle
<1> SUFFICES ASSUME NEW j \in OnCycle' PROVE j \in OnCycle
  OBVIOUS
<1>1. /\ \A k \in Items : parent'[k] = IF k = i THEN p ELSE parent[k]
      /\ Clean(i, p)
  BY DEF ChangeItem, TypeOK
<1>2. j \in Items /\ parent'[j] # None
  BY NextCycle
<1>3. \A S \in SUBSET Items :
        UpClosed(S) /\ (i \in S => p \in S \cup {None})
          => \A k \in S : parent'[k] # None => parent'[k] \in S
  BY <1>1 DEF UpClosed
<1>4. ASSUME p = None \/ p = parent[i] PROVE j \in OnCycle
  <2>1. parent'[j] = parent[j]
    BY <1>1, <1>2, <1>4
  <2>2. ASSUME NEW S \in SUBSET Items, parent[j] \in S, UpClosed(S) PROVE j \in S
    <3>1. i \in S => p \in S \cup {None}
      BY <1>4, <2>2 DEF UpClosed
    <3> QED BY <1>3, <2>1, <2>2, <3>1, NextCycle
  <2> QED BY <1>2, <2>1, <2>2, ThisCycle
<1>5. ASSUME p # None, i \notin Line(p) PROVE j \in OnCycle
  <2>1. /\ p \in Items /\ Line(p) \in SUBSET Items
        /\ p \in Line(p) /\ UpClosed(Line(p))
    BY <1>5, LineHas DEF Line
  <2>2. j # i
    <3> SUFFICES ASSUME j = i PROVE FALSE
      OBVIOUS
    <3>1. \A k \in Line(p) : parent'[k] # None => parent'[k] \in Line(p)
      BY <1>3, <1>5, <2>1
    <3> QED BY <1>1, <1>5, <2>1, <3>1, NextCycle
  <2>3. parent'[j] = parent[j] /\ parent[j] \in Items
    BY <1>1, <1>2, <2>2 DEF TypeOK
  <2>4. ASSUME j \in Line(p) PROVE j \in OnCycle
    <3>1. parent[j] \in Line(p)
      BY <1>2, <2>1, <2>3, <2>4 DEF UpClosed
    <3>2. Line(parent[j]) \subseteq Line(p)
      BY <2>1, <3>1, LineOfAncestor
    <3>3. /\ Line(parent[j]) \in SUBSET Items
          /\ parent[j] \in Line(parent[j]) /\ UpClosed(Line(parent[j]))
      BY <2>3, LineHas DEF Line
    <3>4. i \notin Line(parent[j])
      BY <1>5, <3>2
    <3>5. \A k \in Line(parent[j]) : parent'[k] # None => parent'[k] \in Line(parent[j])
      BY <1>3, <3>3, <3>4
    <3>6. j \in Line(parent[j])
      BY <2>3, <3>3, <3>5, NextCycle
    <3> QED BY <1>2, <2>3, <3>6 DEF OnCycle
  <2>5. ASSUME j \notin Line(p) PROVE j \in OnCycle
    <3>1. ASSUME NEW S \in SUBSET Items, parent[j] \in S, UpClosed(S) PROVE j \in S
      <4> DEFINE T == S \cup Line(p)
      <4>1. T \in SUBSET Items /\ UpClosed(T) /\ p \in T
        BY <2>1, <3>1 DEF UpClosed
      <4>2. \A k \in T : parent'[k] # None => parent'[k] \in T
        BY <1>3, <4>1
      <4>3. j \in T
        BY <2>3, <3>1, <4>1, <4>2, NextCycle
      <4> QED BY <2>5, <4>3
    <3> QED BY <1>2, <2>3, <3>1, ThisCycle
  <2> QED BY <2>4, <2>5
<1> QED BY <1>1, <1>4, <1>5 DEF Clean

(* Copies of items the walk has met are on no cycle, as those are on none. *)
LEMMA CopyMakesNone ==
  ASSUME TypeOK, NEW f \in Years, NEW y \in Years, CopyToNewYear(f, y)
  PROVE  OnCycle' \subseteq OnCycle
<1> SUFFICES ASSUME NEW j \in OnCycle' PROVE j \in OnCycle
  OBVIOUS
<1>1. PICK copy \in [Reached(f) -> {i \in Items : Free(i)}] :
        /\ \A i, k \in Reached(f) : copy[i] = copy[k] => i = k
        /\ CopyItems(copy, y)
  BY DEF CopyToNewYear
<1>2. /\ \A i \in Reached(f) :
           /\ copy[i] \in Items /\ year[copy[i]] = None
           /\ year'[copy[i]] = y
           /\ parent'[copy[i]] = IF parent[i] = None THEN None ELSE copy[parent[i]]
      /\ \A k \in Items \ Copied(copy) : year'[k] = year[k] /\ parent'[k] = parent[k]
      /\ Copied(copy) \subseteq Items
  BY <1>1, CopyGives
<1>3. \A k \in Copied(copy) : \E i \in Reached(f) : k = copy[i]
  BY DEF Copied
<1>4. j \notin Copied(copy)
  <2> SUFFICES ASSUME j \in Copied(copy) PROVE FALSE
    OBVIOUS
  <2>1. PICK i \in Reached(f) : j = copy[i]
    BY <1>3
  <2>2. i \in Items /\ parent[i] # None /\ parent'[j] = copy[parent[i]] /\ parent[i] \in Reached(f)
    BY <1>2, <2>1, NextCycle, ReachedOnly
  <2>3. /\ Line(parent[i]) \in SUBSET Items
        /\ parent[i] \in Line(parent[i]) /\ UpClosed(Line(parent[i]))
    BY <2>2, LineHas, ReachedOnly DEF Line
  <2>4. UpClosed(Reached(f)) /\ Reached(f) \in SUBSET Items
    BY ReachedOnly DEF UpClosed
  <2>5. Line(parent[i]) \subseteq Reached(f)
    BY <2>2, <2>4, LineLeast
  <2> DEFINE T == {copy[k] : k \in Line(parent[i])}
  <2>6. T \in SUBSET Items /\ parent'[j] \in T
    BY <1>2, <2>2, <2>3, <2>5
  <2>7. ASSUME NEW k \in Line(parent[i]), parent'[copy[k]] # None PROVE parent'[copy[k]] \in T
    <3>1. parent'[copy[k]] = copy[parent[k]] /\ parent[k] # None
      BY <1>2, <2>5, <2>7
    <3> QED BY <2>3, <3>1 DEF UpClosed
  <2>8. \A t \in T : parent'[t] # None => parent'[t] \in T
    BY <2>7
  <2> HIDE DEF T
  <2>9. j \in T
    BY <2>6, <2>8, NextCycle
  <2>10. i \in Line(parent[i])
    BY <1>1, <2>1, <2>5, <2>9 DEF T
  <2>11. i \in OnCycle
    BY <2>2, <2>10 DEF OnCycle
  <2> QED BY <2>11, ReachedOffCycle
<1>5. j \in Items /\ parent'[j] = parent[j] /\ parent[j] # None
  BY <1>2, <1>4, NextCycle
<1>6. ASSUME NEW S \in SUBSET Items, parent[j] \in S, UpClosed(S) PROVE j \in S
  <2>1. \A k \in Items : parent[k] # None => k \notin Copied(copy) /\ parent[k] \notin Copied(copy)
    BY <1>2, <1>3, ParentsExist DEF Existing
  <2> DEFINE T == S \ Copied(copy)
  <2>2. T \in SUBSET Items /\ parent'[j] \in T
    BY <1>5, <1>6, <2>1
  <2>3. \A k \in T : parent'[k] # None => parent'[k] \in T
    BY <1>2, <1>6, <2>1 DEF UpClosed
  <2> QED BY <2>2, <2>3, NextCycle
<1> QED BY <1>5, <1>6, ThisCycle

(* Whatever cycles scripts have made, the admin adds no item to one and    *)
(* makes no other (check_parent_cycle in Item.clean, _copy_items and the   *)
(* deletions), whatever else is going on.                                  *)
THEOREM OnlyScriptsMakeCycles == Spec => AdminMakesNoCycles
<1>1. TypeOK /\ [Next]_vars => [~WriteRow => OnCycle' \subseteq OnCycle]_vars
  <2> SUFFICES ASSUME TypeOK, Next, ~WriteRow PROVE OnCycle' \subseteq OnCycle
    OBVIOUS
  <2>1. CASE UNCHANGED parent
    BY <2>1 DEF OnCycle, Line, UpClosed
  <2>2. CASE Admin
    <3>1. CASE \E y \in Years : AddYear(y)
      BY <2>1, <3>1 DEF AddYear
    <3>2. CASE \E y \in Years : DeleteYear(y)
      BY <3>2, DeleteMakesNone DEF DeleteYear
    <3>3. CASE \E i \in Items : DeleteItem(i)
      BY <3>3, DeleteMakesNone DEF DeleteItem
    <3> QED BY <2>2, <3>1, <3>2, <3>3, AddMakesNone, ChangeMakesNone, CopyMakesNone DEF Admin
  <2>3. CASE DeleteSelected
    <3>1. CASE \E d \in Deleters : DeleteCollected(d)
      BY <3>1, DeleteMakesNone DEF DeleteCollected
    <3> QED BY <2>1, <2>3, <3>1 DEF DeleteSelected, Collect, DeletionRefused, tree
  <2>4. CASE Script
    BY <2>1, <2>4 DEF Script, SaveStep, BeginSave, ReadParentYear, NextLevel, UpdateDescendants,
                      SaveFails, tree
  <2> QED BY <2>2, <2>3, <2>4 DEF Next
<1> QED BY <1>1, TypeCorrect, PTL DEF Spec, AdminMakesNoCycles

-----------------------------------------------------------------------------
(* The paths in a year's ZIP.                                              *)

ZipNames == Titles \X Nat
Paths == Seq(ZipNames) \ {<<>>}

(* Where a path is in lower case: its folder, and its name in that.        *)
Key(path) == <<Front(path), Folded(path[Len(path)])>>
IndexKey == << <<>>, <<Fold[Index], 1>> >>

LEMMA AppendParts ==
  ASSUME NEW folder \in Seq(ZipNames), NEW name \in ZipNames
  PROVE  /\ Append(folder, name) \in Paths
         /\ Front(Append(folder, name)) = folder
         /\ Key(Append(folder, name)) = <<folder, Folded(name)>>
<1> DEFINE path == Append(folder, name)
<1>1. /\ path \in Seq(ZipNames) /\ path # <<>> /\ Len(path) = Len(folder) + 1
      /\ \A k \in 1 .. Len(folder) : path[k] = folder[k]
      /\ path[Len(folder) + 1] = name
  BY AppendProperties
<1>2. Len(folder) \in Nat
  BY LenProperties
<1> HIDE DEF path
<1>3. \A k \in 1 .. Len(path) - 1 : path[k] \in ZipNames
  <2> SUFFICES ASSUME NEW k \in 1 .. Len(path) - 1 PROVE path[k] \in ZipNames
    OBVIOUS
  <2>1. k \in 1 .. Len(path)
    BY <1>1, <1>2
  <2> QED BY <1>1, <2>1, ElementOfSeq
<1>4. /\ Front(path) \in Seq(ZipNames) /\ Len(Front(path)) = Len(folder)
      /\ \A k \in 1 .. Len(folder) : Front(path)[k] = path[k]
  <2>1. /\ SubSeq(path, 1, Len(path) - 1) \in Seq(ZipNames)
        /\ Len(SubSeq(path, 1, Len(path) - 1)) = IF 1 <= Len(path) - 1 THEN Len(path) - 1 - 1 + 1 ELSE 0
        /\ \A k \in 1 .. Len(path) - 1 - 1 + 1 : SubSeq(path, 1, Len(path) - 1)[k] = path[1 + k - 1]
    <3>1. 1 \in Int /\ Len(path) - 1 \in Int
      BY <1>1, <1>2
    <3> QED BY <1>3, <3>1, SubSeqProperties
  <2> QED BY <1>1, <1>2, <2>1 DEF Front
<1>5. Front(path) = folder
  BY <1>1, <1>4, SeqEqual
<1>6. path[Len(path)] = name
  BY <1>1, <1>2
<1> QED BY <1>1, <1>5, <1>6 DEF Paths, Key, path

(* A path is one name longer than its folder.                              *)
LEMMA PathParts ==
  ASSUME NEW path \in Paths
  PROVE  /\ path \in Seq(ZipNames) /\ Len(path) \in Nat \ {0} /\ DOMAIN path = 1 .. Len(path)
         /\ Front(path) \in Seq(ZipNames) /\ Len(Front(path)) = Len(path) - 1
         /\ DOMAIN Front(path) = 1 .. Len(path) - 1
         /\ \A k \in 1 .. Len(path) - 1 : Front(path)[k] = path[k]
         /\ path[Len(path)] \in ZipNames
         /\ path = Append(Front(path), path[Len(path)])
<1>1. PICK folder \in Seq(ZipNames), name \in ZipNames : path = Append(folder, name)
  BY SequenceEmptyOrAppend DEF Paths
<1>2. /\ path \in Seq(ZipNames) /\ Len(path) = Len(folder) + 1
      /\ \A k \in 1 .. Len(folder) : path[k] = folder[k]
      /\ path[Len(folder) + 1] = name
  BY <1>1, AppendProperties
<1>3. Front(path) = folder
  BY <1>1, AppendParts
<1>4. Len(folder) \in Nat /\ DOMAIN folder = 1 .. Len(folder) /\ DOMAIN path = 1 .. Len(path)
  BY <1>2, LenProperties
<1>5. Len(path) \in Nat \ {0} /\ Len(folder) = Len(path) - 1 /\ path[Len(path)] = name
  BY <1>2, <1>4
<1> QED BY <1>1, <1>2, <1>3, <1>4, <1>5

(* Paths alike in lower case are so in their folders and in their names.   *)
LEMMA FoldedParts ==
  ASSUME NEW p \in Paths, NEW q \in Paths, FoldedPath(p) = FoldedPath(q)
  PROVE  /\ Len(p) = Len(q)
         /\ FoldedPath(Front(p)) = FoldedPath(Front(q))
         /\ Folded(p[Len(p)]) = Folded(q[Len(q)])
<1>1. DOMAIN FoldedPath(p) = DOMAIN p /\ DOMAIN FoldedPath(q) = DOMAIN q
  BY DEF FoldedPath
<1>2. Len(p) \in Nat \ {0} /\ Len(q) \in Nat \ {0} /\ 1 .. Len(p) = 1 .. Len(q)
  BY <1>1, PathParts
<1>3. Len(p) = Len(q)
  BY <1>2
<1>4. \A k \in 1 .. Len(p) : Folded(p[k]) = Folded(q[k])
  <2> SUFFICES ASSUME NEW k \in 1 .. Len(p) PROVE Folded(p[k]) = Folded(q[k])
    OBVIOUS
  <2>1. k \in DOMAIN p /\ k \in DOMAIN q
    BY <1>3, PathParts
  <2>2. FoldedPath(p)[k] = Folded(p[k]) /\ FoldedPath(q)[k] = Folded(q[k])
    BY <2>1 DEF FoldedPath
  <2> QED BY <2>2
<1>5. FoldedPath(Front(p)) = FoldedPath(Front(q))
  <2>1. DOMAIN Front(p) = 1 .. Len(p) - 1 /\ DOMAIN Front(q) = 1 .. Len(p) - 1
    BY <1>3, PathParts
  <2>2. \A k \in 1 .. Len(p) - 1 : Folded(Front(p)[k]) = Folded(Front(q)[k])
    <3> SUFFICES ASSUME NEW k \in 1 .. Len(p) - 1
                 PROVE  Folded(Front(p)[k]) = Folded(Front(q)[k])
      OBVIOUS
    <3>1. k \in 1 .. Len(p)
      BY <1>2
    <3>2. Front(p)[k] = p[k]
      BY PathParts
    <3>3. Front(q)[k] = q[k]
      BY <1>3, PathParts
    <3> QED BY <1>4, <3>1, <3>2, <3>3
  <2> HIDE DEF Folded
  <2> QED BY <2>1, <2>2 DEF FoldedPath
<1>6. Len(p) \in 1 .. Len(p)
  BY <1>2
<1> QED BY <1>3, <1>4, <1>5, <1>6

-----------------------------------------------------------------------------
(* A name that isn't taken.                                                *)

LessThan == {pair \in Nat \X Nat : pair[1] < pair[2]}
LEMMA LessThanIsWellFounded == IsWellFoundedOn(LessThan, Nat)
BY NatLessThanWellFounded DEF OpToRel, LessThan

LEMMA MinExists ==
  ASSUME NEW V \in SUBSET Nat, V # {}
  PROVE  Min(V) \in V /\ \A k \in V : Min(V) <= k
<1>1. PICK m \in V : \A k \in V : ~ (<<k, m>> \in LessThan)
  BY LessThanIsWellFounded, WFMin
<1>2. \A k \in V : m <= k
  <2> SUFFICES ASSUME NEW k \in V PROVE ~(k < m)
    OBVIOUS
  <2>1. k \in Nat /\ m \in Nat /\ <<k, m>> \notin LessThan
    BY <1>1
  <2> QED BY <2>1 DEF LessThan
<1> QED BY <1>2 DEF Min

(* _dedupe_name() gives one that isn't: there are more suffixes to try  *)
(* than names taken.                                                       *)
LEMMA DedupedIsUntaken ==
  ASSUME IsFiniteSet(used), NEW title \in Titles, NEW folder
  PROVE  /\ Deduped(title, folder) \in ZipNames
         /\ Untaken(Deduped(title, folder), folder)
<1> DEFINE C == Cardinality(used)
           K == {k \in 1 .. C + 1 : Untaken(Name(title, k), folder)}
           taken == [k \in 1 .. C + 1 |-> <<folder, Folded(Name(title, k))>>]
<1>1. C \in Nat
  BY FS_CardinalityType
<1>2. K # {}
  <2> SUFFICES ASSUME K = {} PROVE FALSE
    OBVIOUS
  <2>1. \A k \in 1 .. C + 1 : taken[k] \in used
    BY DEF Untaken
  <2>2. \A j, k \in 1 .. C + 1 : taken[j] = taken[k] => j = k
    BY DEF Folded, Name
  <2>3. taken \in Injection(1 .. C + 1, used)
    BY <2>1, <2>2 DEF Injection, IsInjective
  <2>4. Cardinality(1 .. C + 1) <= C
    <3> HIDE DEF taken
    <3> QED BY <2>3, FS_Injection
  <2>5. Cardinality(1 .. C + 1) = C + 1
    <3>1. 1 \in Int /\ C + 1 \in Int /\ ~(1 > C + 1) /\ C + 1 - 1 + 1 = C + 1
      BY <1>1
    <3> HIDE DEF C
    <3> QED BY <1>1, <3>1, FS_Interval
  <2> QED BY <1>1, <2>4, <2>5
<1>3. K \in SUBSET Nat
  BY <1>1
<1>4. Min(K) \in K
  <2> HIDE DEF K
  <2> QED BY <1>2, <1>3, MinExists
<1>5. Deduped(title, folder) = Name(title, Min(K))
  BY DEF Deduped
<1>6. \A k \in K : k \in Nat /\ Untaken(Name(title, k), folder)
  BY <1>3
<1> HIDE DEF K
<1>7. Name(title, Min(K)) \in ZipNames
  BY <1>4, <1>6 DEF Name, ZipNames
<1> QED BY <1>4, <1>5, <1>6, <1>7

-----------------------------------------------------------------------------
(* An item's line of parents, as far as it is followed.                    *)

(* The recursion defines a function, whose values are items or 0.  (A      *)
(* counterexample to either claim would have a smallest one.)              *)
LEMMA AncestorIs ==
  ASSUME fy \in Exports, NEW item \in Rows
  PROVE  Ancestor(item) \in [0 .. Len(fy.parent) -> 0 .. Len(fy.parent)]
<1> DEFINE n == Len(fy.parent)
           Above(u) == IF u = 0 THEN 0 ELSE fy.parent[u]
           Follows(f, m) == f[0] = item /\ \A k \in 1 .. m : f[k] = Above(f[k - 1])
           Lines == {m \in 0 .. n : \E f \in [0 .. m -> 0 .. n] : Follows(f, m)}
           G(f) == [k \in 0 .. n |-> IF k = 0 THEN item
                                     ELSE IF f[k - 1] = 0 THEN 0 ELSE fy.parent[f[k - 1]]]
<1>1. n \in Nat /\ fy.parent \in Seq(0 .. n) /\ item \in 1 .. n
  <2>1. fy.parent \in Seq(0 .. n)
    BY ZipAssumption
  <2>2. n \in Nat /\ DOMAIN fy.parent = 1 .. n
    BY <2>1, LenProperties
  <2> QED BY <2>1, <2>2 DEF Rows
<1>2. \A u \in 0 .. n : Above(u) \in 0 .. n
  <2> SUFFICES ASSUME NEW u \in 0 .. n, u # 0 PROVE fy.parent[u] \in 0 .. n
    BY <1>1
  <2>1. u \in 1 .. n
    BY <1>1
  <2> QED BY <1>1, <2>1, ElementOfSeq
<1> HIDE DEF n, Above
<1>3. 0 \in Lines
  <2>1. [k \in 0 .. 0 |-> item] \in [0 .. 0 -> 0 .. n] /\ Follows([k \in 0 .. 0 |-> item], 0)
    BY <1>1
  <2>2. 0 \in 0 .. n
    BY <1>1
  <2> QED BY <2>1, <2>2
<1>4. ASSUME NEW m \in 1 .. n, m - 1 \in Lines PROVE m \in Lines
  <2>1. PICK f \in [0 .. m - 1 -> 0 .. n] : Follows(f, m - 1)
    BY <1>4
  <2> DEFINE g == [k \in 0 .. m |-> IF k = m THEN Above(f[m - 1]) ELSE f[k]]
  <2>2. m \in Nat \ {0} /\ m - 1 \in 0 .. m - 1
    BY <1>1
  <2>3. \A k \in 0 .. m : k # m => k \in 0 .. m - 1
    BY <2>2
  <2>4. g \in [0 .. m -> 0 .. n]
    BY <1>2, <2>2, <2>3
  <2>5. Follows(g, m)
    <3>1. g[0] = item
      BY <2>1, <2>2
    <3>2. ASSUME NEW k \in 1 .. m PROVE g[k] = Above(g[k - 1])
      <4>1. k - 1 \in 0 .. m - 1 /\ k \in 0 .. m /\ k - 1 \in 0 .. m /\ k - 1 # m
        BY <2>2
      <4>2. g[k - 1] = f[k - 1]
        BY <4>1
      <4>3. CASE k = m
        BY <4>1, <4>2, <4>3
      <4>4. CASE k # m
        <5>1. k \in 1 .. m - 1
          BY <2>2, <4>4
        <5> QED BY <2>1, <4>1, <4>2, <4>4, <5>1
      <4> QED BY <4>3, <4>4
    <3> HIDE DEF g
    <3> QED BY <3>1, <3>2
  <2>6. m \in 0 .. n
    BY <1>1
  <2> HIDE DEF g, Follows
  <2> QED BY <2>4, <2>5, <2>6
<1>5. n \in Lines
  <2> DEFINE Without == {m \in 0 .. n : m \notin Lines}
  <2> HIDE DEF Lines
  <2> SUFFICES ASSUME Without # {} PROVE FALSE
    BY <1>1
  <2>1. Without \in SUBSET Nat
    BY <1>1
  <2>2. Min(Without) \in Without /\ \A k \in Without : Min(Without) <= k
    <3> HIDE DEF Without
    <3> QED BY <2>1, MinExists
  <2>3. PICK m \in Without : \A k \in Without : m <= k
    BY <2>2
  <2>4. m \in 1 .. n
    BY <1>1, <1>3, <2>3
  <2>5. m - 1 \in 0 .. n /\ ~(m <= m - 1)
    BY <1>1, <2>4
  <2>6. m - 1 \in Lines
    BY <2>3, <2>5
  <2> QED BY <1>4, <2>3, <2>4, <2>6
<1>6. PICK f \in [0 .. n -> 0 .. n] : Follows(f, n)
  BY <1>5
<1>7. f = G(f)
  <2>1. \A k \in 0 .. n : k # 0 => k \in 1 .. n
    BY <1>1
  <2>2. \A k \in 0 .. n : f[k] = G(f)[k]
    BY <1>6, <2>1 DEF Above
  <2> QED BY <2>2
<1>8. Ancestor(item) = G(Ancestor(item))
  <2>1. Ancestor(item) = CHOOSE up : up = G(up)
    BY DEF Ancestor, n
  <2> HIDE DEF G
  <2> QED BY <1>7, <2>1
<1> DEFINE up == Ancestor(item)
           Off == {k \in 0 .. n : up[k] \notin 0 .. n}
<1>9. DOMAIN up = 0 .. n /\ up[0] = item /\ \A k \in 1 .. n : up[k] = Above(up[k - 1])
  <2>1. 0 \in 0 .. n /\ \A k \in 1 .. n : k \in 0 .. n /\ k # 0
    BY <1>1
  <2> HIDE DEF up
  <2>2. up = G(up)
    BY <1>8 DEF up
  <2>3. DOMAIN up = 0 .. n /\ \A k \in 0 .. n : up[k] = G(up)[k]
    BY <2>2
  <2> QED BY <2>1, <2>3 DEF Above
<1> HIDE DEF up
<1>10. Off = {}
  <2> SUFFICES ASSUME Off # {} PROVE FALSE
    OBVIOUS
  <2>1. Off \in SUBSET Nat
    BY <1>1
  <2>2. Min(Off) \in Off /\ \A k \in Off : Min(Off) <= k
    <3> HIDE DEF Off
    <3> QED BY <2>1, MinExists
  <2>3. PICK m \in Off : \A k \in Off : m <= k
    BY <2>2
  <2>4. m \in 1 .. n
    <3>1. m \in 0 .. n /\ up[m] \notin 0 .. n
      BY <2>3
    <3>2. up[0] \in 0 .. n
      BY <1>1, <1>9
    <3>3. m # 0
      BY <3>1, <3>2
    <3> QED BY <1>1, <3>1, <3>3
  <2>5. m - 1 \in 0 .. n /\ ~(m <= m - 1)
    BY <1>1, <2>4
  <2>6. up[m - 1] \in 0 .. n
    BY <2>3, <2>5
  <2> QED BY <1>2, <1>9, <2>3, <2>4, <2>6
<1>11. up = [k \in 0 .. n |-> up[k]]
  BY <1>8, <1>9 DEF up
<1> QED BY <1>10, <1>11 DEF n, up

(* A line that doesn't end meets an item twice, so the mark has a place.   *)
LEMMA MarkedFolderIs ==
  ASSUME fy \in Exports, NEW item \in Rows, ~InTree(item)
  PROVE  MarkedFolder(item) \in Seq(ZipNames)
<1> DEFINE n == Len(fy.parent)
           up == Ancestor(item)
           Again == {k \in DOMAIN up : \E j \in 0 .. k - 1 : up[j] = up[k]}
           Title(k) == Name(fy.title[up[Min(Again) - k]], 1)
<1>1. n \in Nat /\ DOMAIN fy.parent = 1 .. n
  <2>1. fy.parent \in Seq(0 .. n)
    BY ZipAssumption
  <2> QED BY <2>1, LenProperties
<1>2. up \in [0 .. n -> 1 .. n]
  <2>1. up \in [0 .. n -> 0 .. n]
    BY AncestorIs
  <2>2. \A k \in 0 .. n : up[k] # 0
    BY <2>1 DEF InTree
  <2> HIDE DEF up
  <2> QED BY <1>1, <2>1, <2>2
<1> HIDE DEF n, up
<1>3. Again # {} /\ Again \in SUBSET (0 .. n)
  <2>1. IsFiniteSet(0 .. n) /\ IsFiniteSet(1 .. n) /\ Cardinality(1 .. n) < Cardinality(0 .. n)
    <3>1. 0 \in Int /\ 1 \in Int /\ n \in Int
      BY <1>1
    <3>2. /\ IsFiniteSet(0 .. n) /\ Cardinality(0 .. n) = IF 0 > n THEN 0 ELSE n - 0 + 1
          /\ IsFiniteSet(1 .. n) /\ Cardinality(1 .. n) = IF 1 > n THEN 0 ELSE n - 1 + 1
      BY <3>1, FS_Interval
    <3> QED BY <1>1, <3>2
  <2>2. PICK x, y \in 0 .. n : x # y /\ up[x] = up[y]
    BY <1>2, <2>1, FS_PigeonHole
  <2>3. x \in Int /\ y \in Int /\ (x \in 0 .. y - 1 \/ y \in 0 .. x - 1)
    BY <1>1, <2>2
  <2>4. DOMAIN up = 0 .. n
    BY <1>2
  <2> QED BY <2>2, <2>3, <2>4
<1>4. Min(Again) \in Again
  <2>1. Again \in SUBSET Nat
    BY <1>1, <1>3
  <2> HIDE DEF Again
  <2> QED BY <1>3, <2>1, MinExists
<1>5. Min(Again) - 1 \in Nat /\ Min(Again) \in 0 .. n
  BY <1>1, <1>3, <1>4
<1> DEFINE m == Min(Again) - 1
<1>6. \A k \in 1 .. m : Title(k) \in ZipNames
  <2> SUFFICES ASSUME NEW k \in 1 .. m PROVE Title(k) \in ZipNames
    OBVIOUS
  <2>1. Min(Again) - k \in 0 .. n
    <3> HIDE DEF Again
    <3> QED BY <1>1, <1>5
  <2>2. up[Min(Again) - k] \in DOMAIN fy.parent
    <3> HIDE DEF Again
    <3> QED BY <1>1, <1>2, <2>1
  <2>3. fy.title[up[Min(Again) - k]] \in Titles
    <3> HIDE DEF Again
    <3> QED BY <2>2, ZipAssumption
  <2> QED BY <2>3 DEF Name, ZipNames
<1>7. [k \in 1 .. m |-> Title(k)] \in Seq(ZipNames)
  <2> HIDE DEF Title
  <2>1. [k \in 1 .. m |-> Title(k)] \in [1 .. m -> ZipNames]
    BY <1>6
  <2> QED BY <1>5, <2>1, SeqDef
<1>8. <<Name(Marker, 1)>> \in Seq(ZipNames)
  BY ZipAssumption DEF Name, ZipNames
<1> DEFINE above == [k \in 1 .. m |-> Title(k)]
<1>9. MarkedFolder(item) = <<Name(Marker, 1)>> \o above
  BY DEF MarkedFolder, up
<1>10. <<Name(Marker, 1)>> \o above \in Seq(ZipNames)
  <2>1. above \in Seq(ZipNames)
    BY <1>7
  <2> HIDE DEF above
  <2> QED BY <1>8, <2>1, ConcatProperties
<1> QED BY <1>9, <1>10

-----------------------------------------------------------------------------
(* What holds as paths are given.                                          *)

ZipTypes ==
  /\ fy \in Exports /\ Named \subseteq Rows /\ \A i \in Named : folders[i] \in Paths
  /\ IsFiniteSet(used)
  /\ written \in [Rows -> Nat] /\ \A i \in Rows : written[i] <= Len(fy.files[i])
  /\ entries \in Seq(Paths)

(* A folder's or a file's place is taken, and no other's.                  *)
PlacesTaken ==
  /\ IndexKey \in used
  /\ \A i \in Named : Key(folders[i]) \in used \ {IndexKey}
  /\ \A k \in DOMAIN entries :
       Key(entries[k]) \in used /\ (Key(entries[k]) = IndexKey => entries[k] = IndexPath)
PlacesDiffer ==
  /\ \A i, j \in Named : Key(folders[i]) = Key(folders[j]) => i = j
  /\ \A j, k \in DOMAIN entries : Key(entries[j]) = Key(entries[k]) => j = k
  /\ \A i \in Named, k \in DOMAIN entries : Key(folders[i]) # Key(entries[k])

(* Files are in items' folders and, where parents make no cycles, folders  *)
(* in their parents'.                                                      *)
Within(path, item) ==
  IF fy.parent[item] = 0 THEN Front(path) = <<>>
  ELSE fy.parent[item] \in Named /\ Front(path) = folders[fy.parent[item]]
FilesWithin ==
  \A k \in DOMAIN entries : entries[k] # IndexPath =>
    \E i \in Named : Front(entries[k]) = folders[i]
FoldersWithin == \A i \in Named : Within(folders[i], i)
FoldersDiffer ==
  \A i, j \in Named : FoldedPath(folders[i]) = FoldedPath(folders[j]) => i = j
(* What is above a folder is a folder too.                                 *)
IsAbove(p, q) == Len(p) <= Len(q) /\ \A m \in 1 .. Len(p) : p[m] = q[m]
AboveAreFolders ==
  \A i \in Named : \A n \in 1 .. Len(folders[i]) :
    \E j \in Named : Len(folders[j]) = n /\ IsAbove(folders[j], folders[i])
NoCycles == \A i \in Rows : InTree(i)
ZipInv ==
  /\ ZipTypes /\ PlacesTaken /\ PlacesDiffer /\ FilesWithin
  /\ NoCycles => FoldersWithin /\ FoldersDiffer /\ AboveAreFolders

LEMMA TreeKept == ASSUME fy' = fy PROVE NoCycles' <=> NoCycles
BY DEF NoCycles, InTree, Ancestor, Rows

LEMMA IndexIs == IndexPath \in Paths /\ Front(IndexPath) = <<>> /\ Key(IndexPath) = IndexKey
<1>1. <<>> \in Seq(ZipNames) /\ Name(Index, 1) \in ZipNames
  BY ZipAssumption DEF Name, ZipNames
<1>2. IndexPath = Append(<<>>, Name(Index, 1))
  BY DEF IndexPath
<1>3. Folded(Name(Index, 1)) = <<Fold[Index], 1>>
  BY DEF Folded, Name
<1> QED BY <1>1, <1>2, <1>3, AppendParts DEF IndexKey

(* Paths alike in lower case whose folders are the top or items' have the  *)
(* same place.                                                             *)
LEMMA SamePlace ==
  ASSUME ZipTypes, FoldersDiffer, NEW p \in Paths, NEW q \in Paths,
         Front(p) \in {<<>>} \cup {folders[i] : i \in Named},
         Front(q) \in {<<>>} \cup {folders[i] : i \in Named},
         FoldedPath(p) = FoldedPath(q)
  PROVE  Key(p) = Key(q)
<1>1. /\ Len(p) = Len(q) /\ FoldedPath(Front(p)) = FoldedPath(Front(q))
      /\ Folded(p[Len(p)]) = Folded(q[Len(q)])
  BY FoldedParts
<1>2. Len(Front(p)) = Len(Front(q))
  BY <1>1, PathParts
<1>3. \A i \in Named : Len(folders[i]) # 0
  BY PathParts DEF ZipTypes
<1>4. Len(<<>>) = 0
  OBVIOUS
<1>5. Front(p) = Front(q)
  <2>1. CASE Front(p) = <<>>
    BY <1>2, <1>3, <1>4, <2>1
  <2>2. CASE Front(q) = <<>>
    BY <1>2, <1>3, <1>4, <2>2
  <2>3. CASE Front(p) # <<>> /\ Front(q) # <<>>
    BY <1>1, <2>3 DEF FoldersDiffer
  <2> QED BY <2>1, <2>2, <2>3
<1> QED BY <1>1, <1>5 DEF Key

LEMMA ZipStarts == ZipInit => ZipInv
<1> SUFFICES ASSUME ZipInit PROVE ZipInv
  OBVIOUS
<1>1. Named = {} /\ DOMAIN entries = {}
  BY DEF ZipInit, Named
<1>2. ZipTypes
  <2>1. fy \in Exports /\ written = [item \in Rows |-> 0] /\ entries \in Seq(Paths)
    BY DEF ZipInit
  <2>2. IsFiniteSet(used)
    BY FS_Singleton DEF ZipInit
  <2>3. \A i \in Rows : fy.files[i] \in Seq(Titles)
    BY <2>1, ZipAssumption DEF Rows
  <2>4. \A i \in Rows : 0 <= Len(fy.files[i])
    BY <2>3, LenProperties
  <2> QED BY <1>1, <2>1, <2>2, <2>4 DEF ZipTypes
<1>3. PlacesTaken
  BY <1>1 DEF PlacesTaken, IndexKey, ZipInit
<1> QED BY <1>1, <1>2, <1>3 DEF ZipInv, PlacesDiffer, FilesWithin, FoldersWithin, FoldersDiffer, AboveAreFolders

(* A folder is named in a folder: in its parent's if there are no cycles.  *)
LEMMA NamingKeeps ==
  ASSUME ZipInv, NEW item \in Rows, item \notin Named, NEW folder \in Seq(ZipNames),
         Names(item, folder),
         NoCycles => IF fy.parent[item] = 0 THEN folder = <<>>
                     ELSE fy.parent[item] \in Named /\ folder = folders[fy.parent[item]]
  PROVE  ZipInv'
<1> DEFINE name == Deduped(fy.title[item], folder)
           path == Append(folder, name)
<1>1. ZipTypes /\ PlacesTaken /\ PlacesDiffer /\ FilesWithin
  BY DEF ZipInv
<1>2. name \in ZipNames /\ <<folder, Folded(name)>> \notin used
  <2>1. fy.title[item] \in Titles /\ IsFiniteSet(used)
    BY <1>1, ZipAssumption DEF ZipTypes, Rows
  <2> QED BY <2>1, DedupedIsUntaken DEF Untaken
<1>3. /\ used' = used \cup {<<folder, Folded(name)>>}
      /\ folders' = [i \in Named \cup {item} |-> IF i = item THEN path ELSE folders[i]]
      /\ fy' = fy /\ written' = written /\ entries' = entries
  BY DEF Names, Takes
<1> HIDE DEF name
<1>4. path \in Paths /\ Front(path) = folder /\ Key(path) = <<folder, Folded(name)>>
  BY <1>2, AppendParts
<1>5. path \in Seq(ZipNames) /\ Len(path) = Len(folder) + 1 /\ Len(folder) \in Nat
      /\ \A k \in 1 .. Len(folder) : path[k] = folder[k]
  BY <1>2, AppendProperties, LenProperties
<1> HIDE DEF path
<1>6. /\ Named' = Named \cup {item} /\ folders'[item] = path
      /\ \A i \in Named : folders'[i] = folders[i] /\ i # item
  BY <1>3 DEF Named
<1>7. Key(path) \notin used /\ used' = used \cup {Key(path)}
  BY <1>2, <1>3, <1>4
<1>8. ZipTypes'
  <2>1. fy' \in Exports /\ Rows' = Rows /\ Named' \subseteq Rows
    BY <1>1, <1>3, <1>6 DEF ZipTypes, Rows
  <2>2. \A i \in Named' : folders'[i] \in Paths
    BY <1>1, <1>4, <1>6 DEF ZipTypes
  <2>3. IsFiniteSet(used')
    BY <1>1, <1>7, FS_AddElement DEF ZipTypes
  <2> QED BY <1>1, <1>3, <2>1, <2>2, <2>3 DEF ZipTypes
<1>9. PlacesTaken'
  <2>1. IndexKey \in used' /\ Key(path) # IndexKey
    BY <1>1, <1>7 DEF PlacesTaken
  <2>2. \A i \in Named' : Key(folders'[i]) \in used' \ {IndexKey}
    BY <1>1, <1>6, <1>7, <2>1 DEF PlacesTaken
  <2> QED BY <1>1, <1>3, <1>7, <2>1, <2>2 DEF PlacesTaken
<1>10. PlacesDiffer'
  <2>1. \A i \in Named : Key(folders[i]) # Key(path)
    BY <1>1, <1>7 DEF PlacesTaken
  <2>2. \A i, j \in Named' : Key(folders'[i]) = Key(folders'[j]) => i = j
    BY <1>1, <1>6, <2>1 DEF PlacesDiffer
  <2>3. \A k \in DOMAIN entries : Key(entries[k]) # Key(path)
    BY <1>1, <1>7 DEF PlacesTaken
  <2>4. \A i \in Named', k \in DOMAIN entries : Key(folders'[i]) # Key(entries[k])
    BY <1>1, <1>6, <2>3 DEF PlacesDiffer
  <2> QED BY <1>1, <1>3, <2>2, <2>4 DEF PlacesDiffer
<1>11. FilesWithin'
  BY <1>1, <1>3, <1>6 DEF FilesWithin
<1>12. ASSUME NoCycles' PROVE FoldersWithin' /\ FoldersDiffer' /\ AboveAreFolders'
  <2>1. NoCycles
    BY <1>3, <1>12, TreeKept
  <2>2. FoldersWithin /\ FoldersDiffer /\ AboveAreFolders
    BY <2>1 DEF ZipInv
  <2>3. IF fy.parent[item] = 0 THEN folder = <<>>
        ELSE fy.parent[item] \in Named /\ folder = folders[fy.parent[item]]
    BY <2>1
  <2>4. FoldersWithin'
    BY <1>3, <1>4, <1>6, <2>2, <2>3 DEF FoldersWithin, Within
  <2>5. \A j \in Named : FoldedPath(folders[j]) # FoldedPath(path)
    <3> SUFFICES ASSUME NEW j \in Named, FoldedPath(folders[j]) = FoldedPath(path) PROVE FALSE
      OBVIOUS
    <3>1. folders[j] \in Paths
      BY <1>1 DEF ZipTypes
    <3>2. Front(folders[j]) \in {<<>>} \cup {folders[i] : i \in Named}
      BY <2>2 DEF FoldersWithin, Within
    <3>3. Front(path) \in {<<>>} \cup {folders[i] : i \in Named}
      BY <1>4, <2>3
    <3>4. Key(folders[j]) = Key(path)
      BY <1>1, <1>4, <2>2, <3>1, <3>2, <3>3, SamePlace
    <3> QED BY <1>1, <1>7, <3>4 DEF PlacesTaken
  <2>6. FoldersDiffer'
    <3>1. \A i, j \in Named' : FoldedPath(folders'[i]) = FoldedPath(folders'[j]) => i = j
      BY <1>6, <2>2, <2>5 DEF FoldersDiffer
    <3> QED BY <3>1 DEF FoldersDiffer, FoldedPath
  <2>7. AboveAreFolders'
    <3> SUFFICES ASSUME NEW i \in Named', NEW n \in 1 .. Len(folders'[i])
                 PROVE  \E j \in Named' : Len(folders'[j]) = n /\ IsAbove(folders'[j], folders'[i])
      BY DEF AboveAreFolders, IsAbove
    <3>1. CASE i \in Named
      <4>1. PICK j \in Named : Len(folders[j]) = n /\ IsAbove(folders[j], folders[i])
        BY <1>6, <2>2, <3>1 DEF AboveAreFolders
      <4> QED BY <1>6, <3>1, <4>1
    <3>2. CASE i = item /\ n = Len(path)
      <4>1. IsAbove(path, path)
        BY <1>5 DEF IsAbove
      <4> QED BY <1>6, <3>2, <4>1
    <3>3. CASE i = item /\ n # Len(path)
      <4>1. n \in 1 .. Len(folder)
        BY <1>5, <1>6, <3>3
      <4>2. fy.parent[item] \in Named /\ folder = folders[fy.parent[item]]
        BY <2>3, <4>1
      <4>3. PICK j \in Named : Len(folders[j]) = n /\ IsAbove(folders[j], folder)
        BY <2>2, <4>1, <4>2 DEF AboveAreFolders
      <4>4. IsAbove(folders[j], path)
        BY <1>5, <4>1, <4>3 DEF IsAbove
      <4> QED BY <1>6, <3>3, <4>3, <4>4
    <3> QED BY <1>6, <3>1, <3>2, <3>3
  <2> QED BY <2>4, <2>6, <2>7
<1> QED BY <1>8, <1>9, <1>10, <1>11, <1>12 DEF ZipInv

(* The ZIP gets a file: an attachment, or none of it, or the index.        *)
LEMMA AddingKeeps ==
  ASSUME ZipInv, NEW path \in Paths, UNCHANGED <<fy, folders>>,
         entries' = Append(entries, path), used \subseteq used', Key(path) \in used',
         \A i \in Named : Key(folders[i]) # Key(path),
         \A k \in DOMAIN entries : Key(entries[k]) # Key(path),
         Key(path) = IndexKey => path = IndexPath,
         path # IndexPath => \E i \in Named : Front(path) = folders[i]
  PROVE  PlacesTaken' /\ PlacesDiffer' /\ FilesWithin' /\ entries' \in Seq(Paths)
<1>1. ZipTypes /\ PlacesTaken /\ PlacesDiffer /\ FilesWithin
  BY DEF ZipInv
<1> DEFINE n == Len(entries)
<1>2. /\ entries \in Seq(Paths) /\ n \in Nat /\ DOMAIN entries = 1 .. n
  BY <1>1, LenProperties DEF ZipTypes
<1>3. /\ entries' \in Seq(Paths) /\ Len(entries') = n + 1
      /\ \A k \in 1 .. n : entries'[k] = entries[k]
      /\ entries'[n + 1] = path
  BY <1>2, AppendProperties
<1>4. DOMAIN entries' = 1 .. n + 1
  BY <1>3, LenProperties
<1>5. \A k \in DOMAIN entries' :
        \/ k \in DOMAIN entries /\ entries'[k] = entries[k]
        \/ k = n + 1 /\ entries'[k] = path
  <2> SUFFICES ASSUME NEW k \in DOMAIN entries', k # n + 1
               PROVE  k \in DOMAIN entries /\ entries'[k] = entries[k]
    BY <1>3
  <2>1. k \in 1 .. n
    BY <1>2, <1>4
  <2> QED BY <1>2, <1>3, <2>1
<1> HIDE DEF n
<1>6. Named' = Named /\ \A i \in Named : folders'[i] = folders[i]
  BY DEF Named
<1>7. PlacesTaken'
  <2>1. \A i \in Named' : Key(folders'[i]) \in used' \ {IndexKey}
    BY <1>1, <1>6 DEF PlacesTaken
  <2>2. \A k \in DOMAIN entries' :
          Key(entries'[k]) \in used' /\ (Key(entries'[k]) = IndexKey => entries'[k] = IndexPath)
    BY <1>1, <1>5 DEF PlacesTaken
  <2>3. IndexKey \in used'
    BY <1>1 DEF PlacesTaken
  <2> QED BY <2>1, <2>2, <2>3 DEF PlacesTaken
<1>8. PlacesDiffer'
  <2>1. \A i, j \in Named' : Key(folders'[i]) = Key(folders'[j]) => i = j
    BY <1>1, <1>6 DEF PlacesDiffer
  <2>2. \A j, k \in DOMAIN entries' : Key(entries'[j]) = Key(entries'[k]) => j = k
    BY <1>1, <1>5 DEF PlacesDiffer
  <2>3. \A i \in Named', k \in DOMAIN entries' : Key(folders'[i]) # Key(entries'[k])
    BY <1>1, <1>5, <1>6 DEF PlacesDiffer
  <2> QED BY <2>1, <2>2, <2>3 DEF PlacesDiffer
<1>9. FilesWithin'
  <2>1. \A k \in DOMAIN entries' : entries'[k] # IndexPath =>
          \E i \in Named' : Front(entries'[k]) = folders'[i]
    BY <1>1, <1>5, <1>6 DEF FilesWithin
  <2> QED BY <2>1 DEF FilesWithin
<1> QED BY <1>3, <1>7, <1>8, <1>9

LEMMA AttachingKeeps ==
  ASSUME ZipInv, NEW item \in Rows, WriteAttachment(item)
  PROVE  ZipInv'
<1> DEFINE title == fy.files[item][written[item] + 1]
           name == Deduped(title, folders[item])
           path == Append(folders[item], name)
<1>1. ZipTypes /\ PlacesTaken /\ PlacesDiffer /\ FilesWithin
  BY DEF ZipInv
<1>2. item \in Named /\ folders[item] \in Seq(ZipNames) /\ folders[item] # <<>>
  BY <1>1 DEF WriteAttachment, ZipTypes, Paths
<1>3. title \in Titles /\ written[item] + 1 <= Len(fy.files[item]) /\ written[item] \in Nat
  <2>1. fy.files[item] \in Seq(Titles) /\ written[item] \in Nat /\ written[item] < Len(fy.files[item])
    BY <1>1, ZipAssumption DEF ZipTypes, WriteAttachment, Rows
  <2>2. Len(fy.files[item]) \in Nat
    BY <2>1, LenProperties
  <2>3. written[item] + 1 \in 1 .. Len(fy.files[item]) /\ written[item] + 1 <= Len(fy.files[item])
    BY <2>1, <2>2
  <2> QED BY <2>1, <2>3, ElementOfSeq
<1>4. name \in ZipNames /\ <<folders[item], Folded(name)>> \notin used
  <2>1. IsFiniteSet(used)
    BY <1>1 DEF ZipTypes
  <2> HIDE DEF title
  <2> QED BY <1>3, <2>1, DedupedIsUntaken DEF Untaken
<1>5. /\ used' = used \cup {<<folders[item], Folded(name)>>}
      /\ entries' \in {entries, Append(entries, path)}
      /\ written' = [written EXCEPT ![item] = @ + 1] /\ UNCHANGED <<fy, folders>>
  BY DEF WriteAttachment, Takes
<1> HIDE DEF title, name
<1>6. path \in Paths /\ Front(path) = folders[item] /\ Key(path) = <<folders[item], Folded(name)>>
  BY <1>2, <1>4, AppendParts
<1> HIDE DEF path
<1>7. /\ used \subseteq used' /\ Key(path) \in used' /\ Key(path) \notin used /\ Key(path) # IndexKey
      /\ used' = used \cup {Key(path)}
  BY <1>1, <1>4, <1>5, <1>6 DEF PlacesTaken
<1>8. PlacesTaken' /\ PlacesDiffer' /\ FilesWithin' /\ entries' \in Seq(Paths)
  <2>1. CASE entries' = entries
    <3>1. PlacesTaken'
      BY <1>1, <1>5, <1>7, <2>1 DEF PlacesTaken, Named
    <3>2. PlacesDiffer' /\ FilesWithin' /\ entries' \in Seq(Paths)
      BY <1>1, <1>5, <2>1 DEF PlacesDiffer, FilesWithin, Named, ZipTypes
    <3> QED BY <3>1, <3>2
  <2>2. CASE entries' = Append(entries, path)
    <3>1. \A i \in Named : Key(folders[i]) # Key(path)
      BY <1>1, <1>7 DEF PlacesTaken
    <3>2. \A k \in DOMAIN entries : Key(entries[k]) # Key(path)
      BY <1>1, <1>7 DEF PlacesTaken
    <3>3. UNCHANGED <<fy, folders>>
      BY <1>5
    <3> QED BY <1>2, <1>6, <1>7, <2>2, <3>1, <3>2, <3>3, AddingKeeps
  <2> QED BY <1>5, <2>1, <2>2
<1>9. ZipTypes'
  <2>1. IsFiniteSet(used')
    BY <1>1, <1>7, FS_AddElement DEF ZipTypes
  <2>2. /\ written' \in [Rows -> Nat]
        /\ \A i \in Rows : written'[i] <= Len(fy.files[i])
    BY <1>1, <1>3, <1>5 DEF ZipTypes
  <2>3. Rows' = Rows /\ Named' = Named
    BY <1>5 DEF Rows, Named
  <2> QED BY <1>1, <1>5, <1>8, <2>1, <2>2, <2>3 DEF ZipTypes
<1>10. ASSUME NoCycles' PROVE FoldersWithin' /\ FoldersDiffer' /\ AboveAreFolders'
  <2>1. NoCycles
    BY <1>5, <1>10, TreeKept
  <2>2. FoldersWithin /\ FoldersDiffer /\ AboveAreFolders
    BY <2>1 DEF ZipInv
  <2> QED BY <1>5, <2>2 DEF FoldersWithin, FoldersDiffer, AboveAreFolders, Within, IsAbove, Named, FoldedPath
<1> QED BY <1>8, <1>9, <1>10 DEF ZipInv

LEMMA IndexKeeps ==
  ASSUME ZipInv, WriteIndex
  PROVE  ZipInv'
<1>1. ZipTypes /\ PlacesTaken /\ PlacesDiffer
  BY DEF ZipInv
<1>2. UNCHANGED <<fy, folders, used, written>> /\ entries' = Append(entries, IndexPath)
  BY DEF WriteIndex
<1>3. \A k \in DOMAIN entries : Key(entries[k]) # Key(IndexPath)
  <2>1. DOMAIN entries = 1 .. Len(entries)
    BY <1>1, LenProperties DEF ZipTypes
  <2>2. \A k \in DOMAIN entries : entries[k] # IndexPath
    BY <2>1 DEF WriteIndex, Contains
  <2> QED BY <1>1, <2>2, IndexIs DEF PlacesTaken
<1>4. PlacesTaken' /\ PlacesDiffer' /\ FilesWithin' /\ entries' \in Seq(Paths)
  <2>1. \A i \in Named : Key(folders[i]) # Key(IndexPath)
    BY <1>1, IndexIs DEF PlacesTaken
  <2>2. Key(IndexPath) \in used' /\ used \subseteq used' /\ UNCHANGED <<fy, folders>>
    BY <1>1, <1>2, IndexIs DEF PlacesTaken
  <2>3. IndexPath \in Paths
    BY IndexIs
  <2> QED BY <1>2, <1>3, <2>1, <2>2, <2>3, AddingKeeps
<1>5. ZipTypes'
  <2>1. Rows' = Rows /\ Named' = Named
    BY <1>2 DEF Rows, Named
  <2> QED BY <1>1, <1>2, <1>4, <2>1 DEF ZipTypes
<1>6. ASSUME NoCycles' PROVE FoldersWithin' /\ FoldersDiffer' /\ AboveAreFolders'
  <2>1. NoCycles
    BY <1>2, <1>6, TreeKept
  <2>2. FoldersWithin /\ FoldersDiffer /\ AboveAreFolders
    BY <2>1 DEF ZipInv
  <2> QED BY <1>2, <2>2 DEF FoldersWithin, FoldersDiffer, AboveAreFolders, Within, IsAbove, Named, FoldedPath
<1> QED BY <1>4, <1>5, <1>6 DEF ZipInv

LEMMA ZipInvariant == ZipSpec => []ZipInv
<1>1. ASSUME ZipInv, [ZipNext]_zipVars PROVE ZipInv'
  <2>1. ZipTypes
    BY <1>1 DEF ZipInv
  <2>2. ASSUME NEW item \in Rows, NameFolder(item) PROVE ZipInv'
    <3> DEFINE above == fy.parent[item]
               folder == IF above = 0 THEN <<>> ELSE folders[above]
    <3>1. item \notin Named /\ above \in Named \cup {0} /\ Names(item, folder)
      BY <2>2 DEF NameFolder
    <3>2. folder \in Seq(ZipNames)
      BY <2>1, <3>1 DEF ZipTypes, Paths
    <3>3. IF above = 0 THEN folder = <<>> ELSE above \in Named /\ folder = folders[above]
      BY <3>1
    <3> HIDE DEF folder
    <3> QED BY <1>1, <3>1, <3>2, <3>3, NamingKeeps
  <2>3. ASSUME NEW item \in Rows, NameUnreachable(item) PROVE ZipInv'
    <3>1. item \notin Named /\ ~InTree(item) /\ Names(item, MarkedFolder(item))
      BY <2>3 DEF NameUnreachable
    <3>2. MarkedFolder(item) \in Seq(ZipNames)
      BY <2>1, <3>1, MarkedFolderIs DEF ZipTypes
    <3>3. ~NoCycles
      BY <3>1 DEF NoCycles
    <3> QED BY <1>1, <3>1, <3>2, <3>3, NamingKeeps
  <2>4. CASE UNCHANGED zipVars
    <3>1. UNCHANGED <<fy, folders, used, written, entries>> /\ Rows' = Rows /\ Named' = Named
      BY <2>4 DEF zipVars, Rows, Named
    <3>2. ZipTypes' /\ PlacesTaken' /\ PlacesDiffer' /\ FilesWithin'
      BY <1>1, <3>1 DEF ZipInv, ZipTypes, PlacesTaken, PlacesDiffer, FilesWithin
    <3>3. ASSUME NoCycles' PROVE FoldersWithin' /\ FoldersDiffer' /\ AboveAreFolders'
      <4>1. FoldersWithin /\ FoldersDiffer /\ AboveAreFolders
        BY <1>1, <3>1, <3>3, TreeKept DEF ZipInv
      <4> QED BY <3>1, <4>1 DEF FoldersWithin, FoldersDiffer, AboveAreFolders, Within, IsAbove, FoldedPath
    <3> QED BY <3>2, <3>3 DEF ZipInv
  <2> QED BY <1>1, <2>2, <2>3, <2>4, AttachingKeeps, IndexKeeps DEF ZipNext
<1> QED BY <1>1, ZipStarts, PTL DEF ZipSpec

(* A prefix in lower case is alike, name by name.                          *)
LEMMA PrefixIs ==
  ASSUME NEW p \in Paths, NEW q \in Paths, IsPrefix(FoldedPath(p), FoldedPath(q))
  PROVE  Len(p) <= Len(q) /\ \A k \in 1 .. Len(p) : Folded(p[k]) = Folded(q[k])
<1>1. ASSUME NEW path \in Paths
      PROVE  /\ Len(path) \in Nat /\ FoldedPath(path) \in Seq(ZipNames) /\ Len(FoldedPath(path)) = Len(path)
             /\ \A k \in 1 .. Len(path) :
                  FoldedPath(path)[k] = Folded(path[k]) /\ FoldedPath(path)[k] \in ZipNames
  <2>1. path \in Seq(ZipNames) /\ Len(path) \in Nat /\ DOMAIN path = 1 .. Len(path)
    BY PathParts
  <2>2. ASSUME NEW k \in 1 .. Len(path) PROVE Folded(path[k]) \in ZipNames
    <3>1. path[k] \in ZipNames
      BY <2>1, ElementOfSeq
    <3> QED BY <3>1, ZipAssumption DEF Folded, ZipNames
  <2>3. FoldedPath(path) = [k \in 1 .. Len(path) |-> Folded(path[k])]
    BY <2>1 DEF FoldedPath
  <2> HIDE DEF Folded
  <2>4. FoldedPath(path) \in [1 .. Len(path) -> ZipNames]
    BY <2>2, <2>3
  <2>5. FoldedPath(path) \in Seq(ZipNames)
    BY <2>1, <2>4, SeqDef
  <2>6. Len(FoldedPath(path)) = Len(path)
    <3>1. 1 .. Len(FoldedPath(path)) = 1 .. Len(path) /\ Len(FoldedPath(path)) \in Nat
      BY <2>4, <2>5, LenProperties
    <3> QED BY <2>1, <3>1
  <2> QED BY <2>1, <2>2, <2>3, <2>5, <2>6
<1> DEFINE fp == FoldedPath(p)
           fq == FoldedPath(q)
           n == Len(p)
<1>2. n \in Nat /\ Len(q) \in Nat /\ n <= Len(q) /\ SubSeq(fp, 1, n) = SubSeq(fq, 1, n)
  BY <1>1 DEF IsPrefix
<1>3. \A k \in 1 .. n : k \in 1 .. Len(q) /\ fp[k] = Folded(p[k]) /\ fq[k] = Folded(q[k])
        /\ fp[k] \in ZipNames /\ fq[k] \in ZipNames
  <2> SUFFICES ASSUME NEW k \in 1 .. n
               PROVE  k \in 1 .. Len(q) /\ fp[k] = Folded(p[k]) /\ fq[k] = Folded(q[k])
                      /\ fp[k] \in ZipNames /\ fq[k] \in ZipNames
    OBVIOUS
  <2>1. k \in 1 .. Len(q)
    BY <1>2
  <2> HIDE DEF fp, fq
  <2> QED BY <1>1, <2>1 DEF fp, fq
<1> HIDE DEF fp, fq, n
<1>4. /\ \A k \in 1 .. n - 1 + 1 : SubSeq(fp, 1, n)[k] = fp[1 + k - 1]
      /\ \A k \in 1 .. n - 1 + 1 : SubSeq(fq, 1, n)[k] = fq[1 + k - 1]
  <2>1. 1 \in Int /\ n \in Int
    BY <1>2
  <2>2. \A k \in 1 .. n : fp[k] \in ZipNames
    BY <1>3
  <2>3. \A k \in 1 .. n : fq[k] \in ZipNames
    BY <1>3
  <2>4. \A k \in 1 .. n - 1 + 1 : SubSeq(fp, 1, n)[k] = fp[1 + k - 1]
    BY <2>1, <2>2, SubSeqProperties
  <2>5. \A k \in 1 .. n - 1 + 1 : SubSeq(fq, 1, n)[k] = fq[1 + k - 1]
    BY <2>1, <2>3, SubSeqProperties
  <2> QED BY <2>4, <2>5
<1>5. \A k \in 1 .. n : fp[k] = fq[k]
  <2> SUFFICES ASSUME NEW k \in 1 .. n PROVE fp[k] = fq[k]
    OBVIOUS
  <2>1. k \in 1 .. n - 1 + 1 /\ 1 + k - 1 = k
    BY <1>2
  <2> QED BY <1>2, <1>4, <2>1
<1> QED BY <1>2, <1>3, <1>5 DEF n

(* The paths in a year's ZIP are apart, where case is ignored too if there *)
(* are no cycles, for any titles, attachments and parents.                 *)
THEOREM PathsStayApart == ZipSpec => []PathsApart
<1>1. ZipInv => PathsApart
  <2> SUFFICES ASSUME ZipInv PROVE PathsApart
    OBVIOUS
  <2>1. ZipTypes /\ PlacesTaken /\ PlacesDiffer /\ FilesWithin
    BY DEF ZipInv
  <2>2. IsInjective(folders)
    BY <2>1 DEF PlacesDiffer, IsInjective, Named
  <2>3. IsInjective(entries)
    BY <2>1 DEF PlacesDiffer, IsInjective
  <2>4. \A i \in Named : folders[i] \in Paths
    BY <2>1 DEF ZipTypes
  <2>5. \A k \in DOMAIN entries : entries[k] \in Paths
    <3> SUFFICES ASSUME NEW k \in DOMAIN entries PROVE entries[k] \in Paths
      OBVIOUS
    <3>1. entries \in Seq(Paths) /\ k \in 1 .. Len(entries)
      BY <2>1, LenProperties DEF ZipTypes
    <3> QED BY <3>1, ElementOfSeq
  <2>6. \A k \in DOMAIN entries : Front(entries[k]) \in {<<>>} \cup {folders[i] : i \in Named}
    BY <2>1, IndexIs DEF FilesWithin
  <2>7. ASSUME NoCycles
        PROVE  /\ \A i, j \in Named : FoldedPath(folders[i]) = FoldedPath(folders[j]) => i = j
               /\ \A j, k \in DOMAIN entries : FoldedPath(entries[j]) = FoldedPath(entries[k]) => j = k
               /\ \A i \in Named, k \in DOMAIN entries :
                    ~IsPrefix(FoldedPath(entries[k]), FoldedPath(folders[i]))
               /\ \A i \in Named : Front(folders[i]) =
                    IF fy.parent[i] = 0 THEN <<>> ELSE folders[fy.parent[i]]
    <3>1. FoldersWithin /\ FoldersDiffer /\ AboveAreFolders
      BY <2>7 DEF ZipInv
    <3>2. \A i \in Named : Front(folders[i]) \in {<<>>} \cup {folders[j] : j \in Named}
      BY <3>1 DEF FoldersWithin, Within
    <3>3. ASSUME NEW j \in DOMAIN entries, NEW k \in DOMAIN entries,
                 FoldedPath(entries[j]) = FoldedPath(entries[k])
          PROVE  j = k
      <4>1. Key(entries[j]) = Key(entries[k])
        BY <2>1, <2>5, <2>6, <3>1, <3>3, SamePlace
      <4> QED BY <2>1, <4>1 DEF PlacesDiffer
    <3>4. ASSUME NEW i \in Named, NEW k \in DOMAIN entries,
                 IsPrefix(FoldedPath(entries[k]), FoldedPath(folders[i]))
          PROVE  FALSE
      <4> DEFINE n == Len(entries[k])
      <4>1. n \in Nat \ {0} /\ Len(folders[i]) \in Nat
        BY <2>4, <2>5, PathParts
      <4>2. n <= Len(folders[i]) /\ \A m \in 1 .. n : Folded(entries[k][m]) = Folded(folders[i][m])
        BY <2>4, <2>5, <3>4, PrefixIs
      <4>3. PICK j \in Named : Len(folders[j]) = n /\ IsAbove(folders[j], folders[i])
        BY <3>1, <4>1, <4>2 DEF AboveAreFolders
      <4>4. DOMAIN entries[k] = 1 .. n /\ DOMAIN folders[j] = 1 .. n
        BY <2>4, <2>5, <4>3, PathParts
      <4>5. \A m \in 1 .. n : Folded(entries[k][m]) = Folded(folders[j][m])
        BY <4>2, <4>3 DEF IsAbove
      <4>6. FoldedPath(entries[k]) = FoldedPath(folders[j])
        <5> HIDE DEF n
        <5> QED BY <4>4, <4>5 DEF FoldedPath
      <4>7. Key(entries[k]) = Key(folders[j])
        BY <2>1, <2>4, <2>5, <2>6, <3>1, <3>2, <4>6, SamePlace
      <4> QED BY <2>1, <4>7 DEF PlacesDiffer
    <3>5. \A i \in Named : Front(folders[i]) = IF fy.parent[i] = 0 THEN <<>> ELSE folders[fy.parent[i]]
      BY <3>1 DEF FoldersWithin, Within
    <3> QED BY <3>1, <3>3, <3>4, <3>5 DEF FoldersDiffer
  <2> QED BY <2>2, <2>3, <2>7 DEF PathsApart, NoCycles
<1> QED BY <1>1, ZipInvariant, PTL

-----------------------------------------------------------------------------
(* The specification of the pages puts the two side by side: a behaviour   *)
(* of it is one of the tree and one of an export, so all that is proved of *)
(* either holds there.                                                     *)
THEOREM PagesOnTheirOwn == PagesSpec => Spec /\ ZipSpec
<1>1. PagesInit => Init /\ ZipInit
  BY DEF PagesInit
<1>2. [PagesNext]_<<vars, zipVars, page>> => [Next]_vars /\ [ZipNext]_zipVars
  BY DEF PagesNext, Tree, Export
<1> QED BY <1>1, <1>2, PTL DEF PagesSpec, Spec, ZipSpec
=============================================================================
