\* A timed-out job is never answered.
SPECIFICATION FairSpec
CONSTANTS
  w1 = w1
  w2 = w2
  j1 = j1
  j2 = j2
  j3 = j3
  Nil = Nil
  Workers = {w1}
  Jobs = {j1, j2}
  QueueCap = 2
  Stops = FALSE
  StrayOutput = FALSE
  Frames = FALSE
  MaxFaults = 0
PROPERTY AlwaysAnswered
CHECK_DEADLOCK FALSE
