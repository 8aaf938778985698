\* Two connections that join, are lost and closed while a post is on its way, to
\* clients that may stop to read.
SPECIFICATION FairSpec
CONSTANTS
  c1 = c1
  c2 = c2
  t1 = t1
  t2 = t2
  p1 = p1
  p2 = p2
  Nil = Nil
  Conns = {c1, c2}
  Topics = {t1}
  Posts = {p1}
  Excepts = {Nil}
  Cap = 1
  Closing = {c1}
  Leaving = {c1}
  MaxFrames = 1
INVARIANTS TypeOK TopicsAgree OnlyReplyPanics HandlerCalled NoneLeftBehind
PROPERTIES LoopsEnd Delivered
CHECK_DEADLOCK FALSE
