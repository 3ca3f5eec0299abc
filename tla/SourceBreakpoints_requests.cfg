CONSTANTS
  f1 = f1
  f2 = f2
  g = g
  n = n
  m = m
  File = {f1, f2, g}
  Name = {n, m}
  Base <- MCBase
  Line = {1, 2}
  Size = 2
  Tables <- MCTables
SPECIFICATION Spec
INVARIANTS
  TypeOK
  ArmedIsRequested
  AnswersTruthful
  ShownWhereSet
