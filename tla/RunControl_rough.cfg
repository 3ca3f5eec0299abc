CONSTANTS
  r = r
  e = e
  x = x
  y = y
  line1 = line1
  line2 = line2
  Addr = {e}
  Reset = e
  Entry = e
  Succ <- MCSpin
  Line = {}
  LineAddr <- MCSpinLineAddr
  Loc <- MCSpinLoc
  InstrBreakable = {}
  StepLimit = 1
  Timer = {t1}
  Backlog = 2
  MaxEvents = 3
  LaunchArgs = {{"program"}}
  Habits = {"overlaps", "closesEarly", "configFirst"}
SPECIFICATION Spec
CHECK_DEADLOCK FALSE
INVARIANT ResponsesInOrder
