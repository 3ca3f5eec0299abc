CONSTANTS
  r = r
  e = e
  x = x
  y = y
  line1 = line1
  line2 = line2
  Addr = {r, e, x, y}
  Reset = r
  Entry = e
  Succ <- MCSucc
  Line = {line1, line2}
  LineAddr <- MCLineAddr
  Loc <- MCLoc
  InstrBreakable = {x}
  StepLimit = 3
  Timer = {t1, t2}
  Backlog = 2
  MaxEvents = 5
  LaunchArgs = {{}, {"program"}, {"program", "symbols"}}
  Habits = {"configFirst"}
SPECIFICATION FairSpec
CHECK_DEADLOCK FALSE
INVARIANTS
  TypeOK
  AtMostOneStop
  PatientInv
  StoppedMeansHalted
  StopOwed
  
  StopAnswersRequest
  EventSeqsIncrease
  ContinueHonoursBreakpoints
  BreakpointsFollowSymbols
PROPERTIES StopSpec WorkRunsOut StepsEndInStops RequestsAnswered
