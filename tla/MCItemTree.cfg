CONSTANTS
  i1 = i1
  i2 = i2
  i3 = i3
  i4 = i4
  y1 = y1
  y2 = y2
  d1 = d1
  lower = lower
  capital = capital
  mark = mark
  index = index
  None = None
  Items <- FourItems
  Years <- TwoYears
  Deleters <- OneDeleter
  Autocommit = FALSE
  Titles <- FourTitles
  Fold <- LowerCase
  Marker = mark
  Index = index
  Exports <- SmallYears
SPECIFICATION PagesSpec
SYMMETRY Symmetry
INVARIANTS TypeOK YearsAgree WalkMissesOnlyCycles PathsApart
PROPERTIES AdminMakesNoCycles CascadeMeetsItemsOnce
CHECK_DEADLOCK FALSE
