CONSTANTS
  ip1 = ip1
  ip2 = ip2
  None = None
  Environments <- FourSettings
  Ips <- TwoIps
  IpOf <- FourLines
  TimeOf <- Times
  LoggedIn <- WithJwt
  Separated = {2}
  TruncateSize = 4
  MaxPending = 2
  Months <- TwoMonths
  Located <- FirstIpInFirstMonth
  Lists <- TwoLists
  AddressOf <- Addresses
  MaxStarts = 2
  MaxUpdates = 1
  Unset = Unset
  SecondsPerDay = 4
  Days = 2
  Byte = 2
  MaxFilledGap = 2
  MaxBackfill = 1
  MaxLaunches = 2
  MaxSteps = 1
SPECIFICATION LogsSpec
INVARIANTS TypeOK EveryLineAccounted TotalsMatch LookupFindsRange
INVARIANTS UptimeTypeOK CallsAreMarked PeriodsAddUp
PROPERTIES DatabaseNeverOlder ListIsCurrent MarksAreTrue
CONSTRAINT Bounds
CHECK_DEADLOCK FALSE
