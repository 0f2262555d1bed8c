----------------------------- MODULE MCItemTree -----------------------------
(* YearPages with a few items and two years; and the exports of years of   *)
(* three items, one with an attachment, or of two with up to two each.     *)
EXTENDS YearPages, TLC

CONSTANTS i1, i2, i3, i4, y1, y2, d1

FourItems == {i1, i2, i3, i4}
TwoYears == {y1, y2}
OneDeleter == {d1}
Symmetry == Permutations(Items) \cup Permutations(Years)

CONSTANTS lower, capital, mark, index

FourTitles == {lower, capital, mark, index}
LowerCase == [title \in FourTitles |-> IF title = capital THEN lower ELSE title]
Year(up, titles, files) == [parent |-> up, title |-> titles, files |-> files]
ThreeItemYears ==
  {Year(up, titles, [i \in 1 .. 3 |-> IF i = holder THEN <<lower>> ELSE <<>>]) :
     up \in [1 .. 3 -> 0 .. 3], titles \in [1 .. 3 -> FourTitles \ {index}], holder \in 1 .. 3}
TwoItemYears ==
  {Year(up, titles, files) :
     up \in [1 .. 2 -> 0 .. 2], titles \in [1 .. 2 -> FourTitles],
     files \in [1 .. 2 -> {<<>>, <<lower>>, <<lower, capital>>, <<capital, lower>>}]}
SmallYears == {Year(<<>>, <<>>, <<>>)} \cup ThreeItemYears \cup TwoItemYears
=============================================================================
