---------------------------- MODULE MCAttachments --------------------------
(* Attachments with a few rows of each kind and one request of each.       *)
EXTENDS Attachments, TLC

CONSTANTS a1, a2, f1, f2, i1, i2, d1, n1, n2, y1, y2, r1, r2, r3

TwoAttachments == {a1, a2}
TwoFiles == {f1, f2}
TwoItems == {i1, i2}
OneDocument == {d1}
TwoNames == {n1, n2}
SecondIsLong == (n1 :> n1 @@ n2 :> n1)
TwoYears == {y1, y2}
DateInName == (n1 :> y1 @@ n2 :> y1)
YearInName == (n1 :> y1 @@ n2 :> y1)
OneDeleter == {r1}
OneMover == {r2}
OneImporter == {r3}

Symmetry == Permutations(Attachments) \cup Permutations(Files) \cup Permutations(Items)
=============================================================================
