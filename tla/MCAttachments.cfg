CONSTANTS
  a1 = a1
  a2 = a2
  f1 = f1
  f2 = f2
  i1 = i1
  i2 = i2
  d1 = d1
  n1 = n1
  n2 = n2
  y1 = y1
  y2 = y2
  r1 = r1
  r2 = r2
  r3 = r3
  None = None
  Attachments <- TwoAttachments
  Files <- TwoFiles
  Items <- TwoItems
  Documents <- OneDocument
  Names <- TwoNames
  Kept <- SecondIsLong
  Years <- TwoYears
  DateIn <- DateInName
  YearIn <- YearInName
  Deleters <- OneDeleter
  Movers <- OneMover
  Importers <- OneImporter
SPECIFICATION Spec
SYMMETRY Symmetry
INVARIANTS TypeOK FilesPresent OneParentEach
