CONSTANTS
  BufferSize = 2
  Frames <- MCFrames
  Sizes = {2, 3}
  MaxFrames = 2
  MaxEvents = 1
SPECIFICATION FairSpec
INVARIANTS
  TypeOK
  InStep
  WholeFrames
  NothingHeldBack
  EndsForCause
PROPERTIES
  StreamSpec
  FramesAnswered
