\* A client gets the answer to another job.
SPECIFICATION Spec
CONSTANTS
  w1 = w1
  w2 = w2
  j1 = j1
  j2 = j2
  j3 = j3
  Nil = Nil
  Workers = {w1}
  Jobs = {j1, j2, j3}
  QueueCap = 2
  Stops = FALSE
  StrayOutput = FALSE
  Frames = FALSE
  MaxFaults = 0
INVARIANT NoCrossTalk
SYMMETRY JobSymmetry
CHECK_DEADLOCK FALSE
