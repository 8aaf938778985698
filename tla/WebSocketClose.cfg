\* The application closes a connection, and nobody calls its close handler.
SPECIFICATION Spec
CONSTANTS
  c1 = c1
  c2 = c2
  t1 = t1
  t2 = t2
  p1 = p1
  p2 = p2
  Nil = Nil
  Conns = {c1}
  Topics = {t1}
  Posts = {p1}
  Excepts = {Nil}
  Cap = 1
  Closing = {c1}
  Leaving = {c1}
  MaxFrames = 1
INVARIANT CloseCallsHandler
CHECK_DEADLOCK FALSE
