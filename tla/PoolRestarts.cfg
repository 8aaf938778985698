\* Two jobs on one worker: restarts overlap; a process dies or does not start, Pool.Stop
\* comes, data is taken for messages.
SPECIFICATION FairSpec
CONSTANTS
  w1 = w1
  w2 = w2
  j1 = j1
  j2 = j2
  j3 = j3
  Nil = Nil
  Workers = {w1}
  Jobs = {j1, j2}
  QueueCap = 1
  Stops = TRUE
  StrayOutput = FALSE
  Frames = TRUE
  MaxFaults = 1
INVARIANTS OneSender LoopsKept FirstFailureContained
PROPERTIES ServiceSpec 
CHECK_DEADLOCK FALSE
