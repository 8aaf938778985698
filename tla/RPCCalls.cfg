\* Two clients and two calls; the queue holds one job.
SPECIFICATION FairSpec
CONSTANTS
  c1 = c1
  c2 = c2
  k1 = k1
  k2 = k2
  w1 = w1
  Nil = Nil
  Clients = {c1, c2}
  Calls = {k1, k2}
  Workers = {w1}
  QueueCap = 1
INVARIANTS OwnReply RepliesTrue
PROPERTIES CallsReturn JobsEnd
CHECK_DEADLOCK FALSE
