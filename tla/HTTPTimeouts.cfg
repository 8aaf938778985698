\* Three requests at once; two timeouts without an answer between them end the program.
SPECIFICATION FairSpec
CONSTANTS
  w1 = w1
  w2 = w2
  r1 = r1
  r2 = r2
  r3 = r3
  Nil = Nil
  Requests = {r1, r2, r3}
  Workers = {w1, w2}
  QueueCap = 1
  MaxTimeouts = 2
INVARIANTS AllWorkersOrNone ExitNeedsTimeouts LimitKept OwnAnswer
PROPERTY EventuallyResponded
CHECK_DEADLOCK FALSE
