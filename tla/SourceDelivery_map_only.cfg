CONSTANTS
  a = a
  b = b
  c = c
  p = p
  q = q
  Addr = {a, b, c}
  Entry = a
  Path = {p, q}
  CdbLoc <- MCCdbLoc
  MapLoc <- MCMapLoc
  FirstRef = 4
  MaxRef = 4
  MaxSaves = 3
SPECIFICATION Spec
INVARIANT StopsShowSource
