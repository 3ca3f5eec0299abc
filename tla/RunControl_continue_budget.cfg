CONSTANTS
  r = r
  e = e
  x = x
  y = y
  line1 = line1
  line2 = line2
  Addr = {r, e, x, y}
  Reset = r
  Entry = e
  Succ <- MCSucc
  Line = {line1}
  LineAddr <- MCLineAddr
  Loc <- MCLoc
  InstrBreakable = {x}
  StepLimit = 3
  Timer = {t1, t2}
  Backlog = 2
  MaxEvents = 5
  LaunchArgs = {{}, {"program"}, {"program", "symbols"}}
  Habits = {}
SPECIFICATION Spec
INVARIANT ContinueEndsInStop
