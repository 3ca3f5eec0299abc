CONSTANTS
  Word = 4
  Shift = 2
  Lines <- MCLines
  MaxLines = 4
  Starts = {5}
SPECIFICATION Spec
INVARIANT EntryDefaultsToZero
