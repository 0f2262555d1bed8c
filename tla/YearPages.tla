------------------------------ MODULE YearPages ------------------------------
(***************************************************************************)
(* The pages of financial years: those that change their trees of items,   *)
(* or the one that exports them.  An export reads a year's items at once,  *)
(* so the two are looked at apart; the trees an export may meet are those  *)
(* of Exports, with cycles and without.                                    *)
(***************************************************************************)
EXTENDS ItemTree, ZipPaths

VARIABLE page

PagesInit ==
  /\ Init /\ ZipInit /\ page \in {"tree", "export"}
  /\ page = "tree" => fy.parent = <<>>
Tree == page = "tree" /\ Next /\ UNCHANGED <<zipVars, page>>
Export == page = "export" /\ ZipNext /\ UNCHANGED <<vars, page>>
PagesNext == Tree \/ Export
PagesSpec == PagesInit /\ [][PagesNext]_<<vars, zipVars, page>>
=============================================================================
