CONSTANTS
  Missing = Missing
  Call = {c1, c2}
  RequestId = {id1, id2}
  FiscalCode = {alice, bruno}
  LastDay = 1
  LogConfig <- MCLogConfig
SPECIFICATION Spec
SYMMETRY MCSymmetry
INVARIANTS
  TypeOK
  NothingNamesTheCitizen
  NoSilentLoss
  FiledByItsExchange
PROPERTIES
  RecordsAreKept
