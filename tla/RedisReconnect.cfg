\* Redis is reached twice; a goroutine tries twice; one Close; with and without
\* a listener.
SPECIFICATION FairSpec
CONSTANTS
  t1 = t1
  p1 = p1
  Patterns = {p1}
  Tasks = {t1}
  App = App
  MaxDials = 2
  MaxTries = 2
  MaxUnread = 0
INVARIANTS TypeOK TopicsKept Watched CloserHeard ClosedForGood
PROPERTY Recovers
CHECK_DEADLOCK FALSE
