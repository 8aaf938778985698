\* Two workers and Pool.Stop; processes print lines that are no answers, and die.
SPECIFICATION Spec
CONSTANTS
  w1 = w1
  w2 = w2
  j1 = j1
  j2 = j2
  j3 = j3
  Nil = Nil
  Workers = {w1, w2}
  Jobs = {j1}
  QueueCap = 2
  Stops = TRUE
  StrayOutput = TRUE
  Frames = TRUE
  MaxFaults = 1
INVARIANTS TypeOK Isolation CleanStop PanicCauses
SYMMETRY Symmetry
CHECK_DEADLOCK FALSE
