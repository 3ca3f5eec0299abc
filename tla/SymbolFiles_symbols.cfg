CONSTANTS
  A = A
  B = B
  other = other
  f = f
  Word = 4
  Name = {A, B, other}
  Function = {f}
  CdbRecords <- MCCdbRecords
  MapRecords <- MCMapRecords
  MaxRecords = 5
SPECIFICATION Spec
INVARIANTS
  TypeOK
  RecordsAtHome
  LocalsAtHome
  FirstRecordFound
  NearestSymbol
  LabelPrefersC
