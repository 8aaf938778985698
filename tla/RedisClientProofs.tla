------------------------- MODULE RedisClientProofs --------------------------
(***************************************************************************)
(* Safety of RedisClient for any patterns, any number of goroutines that   *)
(* reconnect, of dials and of attempts.                                    *)
(*                                                                         *)
(* The inductive invariant IInv has a part for what a goroutine holds      *)
(* (Holds), one for what the fields name (FieldInv), one for who watches   *)
(* (WatchInv), and four for the time in which no two goroutines have been  *)
(* in Reconnect or Close at once: there is one (OneActive), it finds the   *)
(* loops at rest (ShutInv), it has the topics the field has not            *)
(* (TopicsInv), and what is closed stays closed (QuitInv).                 *)
(***************************************************************************)
EXTENDS RedisClient, TLAPS

\* Between CloseTicker and Dial; and as far as the end of Reconnect.
Shut == {"stop", "close", "dial"}
Act == Shut \cup {"subscribe", "writing", "reading"}

Holds ==
  /\ \A t \in Tasks : held[t].tries < MaxTries
  /\ \A t \in Callers : task[t] \in {"writing", "reading"} => held[t].left # {}
  /\ task[App] \in {"idle", "copy", "stop", "close", "publishing", "published"}
  /\ task[App] \in {"copy", "stop", "close"} => CloseCalled

\* The loop that has made the ticker or the stopper of the field waits for it.
FieldInv ==
  /\ \A d \in Dials : d > dials => loop[d] = "none"
  /\ \A d \in Dials : loop[d] \notin {"none", "new"} => pingStopper # 0
  /\ pingTicker # 0 => pingStopper # 0
  /\ pingTicker \in running =>
       /\ loop[pingTicker] \in {"top", "select", "ping", "pinging"}
       /\ loop[pingTicker] = "select" => listen[pingTicker].ticker = pingTicker
  /\ pingStopper # 0 =>
       /\ loop[pingStopper] \notin {"none", "new"}
       /\ loop[pingStopper] = "select" => listen[pingStopper].stopper = pingStopper

WatchInv ==
  ~CloseCalled /\ ~gaveUp =>
    pingTicker \in running \/ Starting \/ \E t \in Tasks : task[t] \in {"copy"} \cup Shut

OneActive ==
  ~overlapped => \A t, u \in Callers : task[t] \in Act /\ task[u] \in Act => t = u

ShutInv ==
  ~overlapped /\ ~early =>
    /\ running \subseteq {pingTicker}
    /\ \A d, e \in Dials :
         loop[d] \in {"new", "ticker"} /\ loop[e] \in {"new", "ticker"} => d = e
    /\ Starting => running = {}
    /\ \A t \in Callers : task[t] \in Shut => ~Starting /\ running = {}
    /\ \A t \in Callers : task[t] = "stop" => held[t].stopper = pingStopper /\ pingStopper # 0

\* The pattern a goroutine subscribes to.
First(S) == CHOOSE p \in S : TRUE

TopicsInv ==
  Alone /\ ~failed =>
    /\ (\A t \in Callers : task[t] \notin Act) =>
         topics = Patterns /\ (Up(conn) => subs[conn] = Patterns)
    /\ \A t \in Callers :
         /\ task[t] \in Shut => held[t].left = Patterns
         /\ task[t] = "dial" => topics = {}
         /\ task[t] \in {"subscribe", "writing", "reading"} =>
              topics \cup held[t].left = Patterns /\ topics \subseteq subs[conn]
         /\ task[t] \in {"writing", "reading"} => on[t] = conn
         /\ task[t] = "reading" => First(held[t].left) \in subs[conn]

QuitInv ==
  quit =>
    /\ Busy = {} /\ CloseCalled /\ task[App] = "idle" /\ running = {}
    /\ \A d \in Dials : loop[d] \in {"none", "top", "select"}
    /\ net[conn] = "closed"

IInv ==
  /\ TypeOK /\ Holds /\ FieldInv /\ WatchInv
  /\ OneActive /\ ShutInv /\ TopicsInv /\ QuitInv
-----------------------------------------------------------------------------
(* Types.                                                                  *)

\* Goroutines are no dials.
LEMMA Names ==
  ASSUME RedisAssumption
  PROVE  /\ Dials \subseteq Nat \ {0} /\ 1 \in Dials
         /\ Dials \cap Callers = {} /\ App \in Callers
         /\ Tasks \subseteq Callers /\ App \notin Tasks
  BY DEF RedisAssumption, Dials, Callers

\* The pattern that is subscribed to is one of those left.
LEMMA PatternLeft ==
  ASSUME NEW t
  PROVE  Pattern(t) = First(held[t].left) /\ (held[t].left # {} => Pattern(t) \in held[t].left)
  BY Zenon DEF Pattern, First

FieldType ==
  /\ conn \in Dials /\ pingTicker \in 0..MaxDials /\ pingStopper \in 0..MaxDials
  /\ topics \subseteq Patterns /\ dials \in Dials /\ running \subseteq Dials
  /\ reader \in 0..MaxDials /\ program \in {"run", "ended"}
NetType ==
  /\ net \in [Dials -> {"none", "up", "broken", "closed"}]
  /\ subs \in [Dials -> SUBSET Patterns] /\ replies \in [Dials -> Nat]
LoopType ==
  /\ loop \in [Dials -> {"none", "new", "ticker", "top", "select", "ping", "pinging"}]
  /\ listen \in [Dials -> [ticker : 0..MaxDials, stopper : 0..MaxDials]]
TaskType ==
  /\ task \in [Callers -> {"idle", "copy", "stop", "close", "dial", "subscribe",
                           "writing", "reading", "publishing", "published"}]
  /\ on \in [Dials \cup Callers -> 0..MaxDials]
HeldType ==
  held \in [Callers -> [left : SUBSET Patterns, stopper : 0..MaxDials, tries : 0..MaxTries]]
GhostType ==
  /\ overlapped \in BOOLEAN /\ early \in BOOLEAN /\ failed \in BOOLEAN
  /\ gaveUp \in BOOLEAN /\ quit \in BOOLEAN

\* TypeOK in parts.
LEMMA TypeParts ==
  /\ TypeOK <=> FieldType /\ NetType /\ LoopType /\ TaskType /\ HeldType /\ GhostType
  /\ TypeOK' <=> FieldType' /\ NetType' /\ LoopType' /\ TaskType' /\ HeldType' /\ GhostType'
  BY DEF TypeOK, FieldType, NetType, LoopType, TaskType, HeldType, GhostType

\* The fields of the connection keep their types.
LEMMA FieldStep ==
  ASSUME RedisAssumption, FieldType, HeldType, Holds, [Next]_vars
  PROVE  FieldType'
<1>. USE Names DEF fields, netVars, loops, tasks, ghosts
<1>1. ASSUME NEW d \in Dials, MakeStopper(d) PROVE FieldType'
  BY <1>1 DEF MakeStopper, LoopTo, FieldType, Dials
<1>2. ASSUME NEW d \in Dials, MakeTicker(d) PROVE FieldType'
  BY <1>2 DEF MakeTicker, LoopTo, FieldType, Dials
<1>3. ASSUME NEW d \in Dials, Select(d) \/ TakeTick(d) PROVE FieldType'
  BY <1>3 DEF Select, LoopTo, TakeTick, Deaf, FieldType, Dials
<1>4. ASSUME NEW d \in Dials, PingBegin(d) \/ PingEnd(d) PROVE FieldType'
  BY <1>4 DEF PingBegin, BeginWrite, LoopTo, PingEnd, EndWrite, FieldType, Dials
<1>5. ASSUME NEW d \in Dials, PingFails(d) \/ Break(d) PROVE FieldType'
  BY <1>5 DEF PingFails, LoopTo, TaskTo, Break, FieldType, Dials
<1>6. CASE AppClose
  BY <1>6 DEF AppClose, TaskTo, FieldType, Dials
<1>7. ASSUME NEW t \in Callers, CloseTicker(t) PROVE FieldType'
  BY <1>7 DEF CloseTicker, TaskTo, FieldType, Dials
<1>8. ASSUME NEW t \in Callers, StopLoop(t) PROVE FieldType'
  BY <1>8 DEF StopLoop, TaskTo, LoopTo, Deaf, FieldType, Dials
<1>9. ASSUME NEW t \in Callers, CloseConn(t) PROVE FieldType'
  BY <1>9 DEF CloseConn, TaskTo, FieldType, Dials
<1>10. ASSUME NEW t \in Tasks, Dial(t) PROVE FieldType'
  BY <1>10 DEF Dial, TaskTo, LoopTo, FieldType, Dials
<1>11. ASSUME NEW t \in Tasks, DialFails(t) \/ SubscribeFails(t) PROVE FieldType'
  BY <1>11 DEF DialFails, Fails, TaskTo, SubscribeFails, FieldType, Dials
<1>12. ASSUME NEW t \in Tasks, Subscribe(t) \/ SubscribeEnd(t) PROVE FieldType'
  BY <1>12 DEF Subscribe, BeginWrite, TaskTo, SubscribeEnd, EndWrite, FieldType, Dials
<1>13. ASSUME NEW t \in Tasks, Confirmed(t) \/ Reconnected(t) PROVE FieldType'
  <2>1. CASE Confirmed(t)
    <3>1. Pattern(t) \in Patterns
      BY <1>13, <2>1 DEF Confirmed, Pattern, Holds, HeldType
    <3>. QED
      BY <2>1, <3>1 DEF Confirmed, FieldType
  <2>2. CASE Reconnected(t)
    BY <2>2 DEF Reconnected, FieldType
  <2>. QED
    BY <1>13, <2>1, <2>2
<1>14. CASE Publish \/ PublishEnd \/ Published
  BY <1>14 DEF Publish, BeginWrite, TaskTo, PublishEnd, EndWrite, Published, ReadResponse,
     FieldType, Dials
<1>15. CASE ListenerReads
  BY <1>15 DEF ListenerReads, FieldType, Dials
<1>16. CASE ListenerGets
  BY <1>16 DEF ListenerGets, ReadResponse, FieldType, Dials
<1>17. CASE ListenerFails
  BY <1>17 DEF ListenerFails, FieldType, Dials
<1>18. CASE UNCHANGED vars
  BY <1>18 DEF vars, FieldType, Dials
<1>. QED
  BY <1>1, <1>2, <1>3, <1>4, <1>5, <1>6, <1>7, <1>8, <1>9, <1>10, <1>11, <1>12, <1>13,
     <1>14, <1>15, <1>16, <1>17, <1>18
     DEF Next, Running, LoopStep, TaskStep, CallerStep, Listener

\* So do the connections, and what Redis sends on them.
LEMMA NetStep ==
  ASSUME RedisAssumption, FieldType, NetType, HeldType, TaskType, Holds, [Next]_vars
  PROVE  NetType'
<1>. USE Names DEF fields, netVars, loops, tasks, ghosts
<1>1. ASSUME NEW d \in Dials, MakeStopper(d) \/ MakeTicker(d) PROVE NetType'
  BY <1>1 DEF MakeStopper, LoopTo, MakeTicker, FieldType, NetType
<1>2. ASSUME NEW d \in Dials, Select(d) \/ TakeTick(d) PROVE NetType'
  BY <1>2 DEF Select, LoopTo, TakeTick, Deaf, FieldType, NetType
<1>3. ASSUME NEW d \in Dials, PingBegin(d) \/ PingEnd(d) PROVE NetType'
  BY <1>3 DEF PingBegin, BeginWrite, LoopTo, PingEnd, EndWrite, FieldType, NetType
<1>4. ASSUME NEW d \in Dials, PingFails(d) \/ Break(d) PROVE NetType'
  BY <1>4 DEF PingFails, LoopTo, TaskTo, Break, FieldType, NetType
<1>5. CASE AppClose
  BY <1>5 DEF AppClose, TaskTo, FieldType, NetType
<1>6. ASSUME NEW t \in Callers, CloseTicker(t) \/ StopLoop(t) PROVE NetType'
  BY <1>6 DEF CloseTicker, TaskTo, StopLoop, LoopTo, Deaf, FieldType, NetType
<1>7. ASSUME NEW t \in Callers, CloseConn(t) PROVE NetType'
  BY <1>7 DEF CloseConn, TaskTo, FieldType, NetType
<1>8. ASSUME NEW t \in Tasks, Dial(t) PROVE NetType'
  BY <1>8 DEF Dial, TaskTo, LoopTo, FieldType, NetType
<1>9. ASSUME NEW t \in Tasks, DialFails(t) \/ SubscribeFails(t) PROVE NetType'
  BY <1>9 DEF DialFails, Fails, TaskTo, SubscribeFails, FieldType, NetType
<1>10. ASSUME NEW t \in Tasks, Subscribe(t) PROVE NetType'
  BY <1>10 DEF Subscribe, BeginWrite, TaskTo, FieldType, NetType
<1>11. ASSUME NEW t \in Tasks, SubscribeEnd(t) PROVE NetType'
  <2>1. t \in Callers /\ task[t] = "writing"
    BY <1>11, Names DEF SubscribeEnd
  <2>2. held[t].left # {} /\ held[t].left \subseteq Patterns
    BY <2>1 DEF Holds, HeldType
  <2>3. Pattern(t) \in Patterns
    BY <2>2 DEF Pattern
  <2>4. UNCHANGED subs \/ subs' = [subs EXCEPT ![conn] = @ \cup {Pattern(t)}]
    BY <1>11 DEF SubscribeEnd
  <2>5. subs' \in [Dials -> SUBSET Patterns]
    BY <2>3, <2>4 DEF NetType
  <2>6. net' \in [Dials -> {"none", "up", "broken", "closed"}] /\ replies' \in [Dials -> Nat]
    BY <1>11 DEF SubscribeEnd, EndWrite, FieldType, NetType
  <2>. QED
    BY <2>5, <2>6 DEF NetType
<1>12. ASSUME NEW t \in Tasks, Reconnected(t) PROVE NetType'
  BY <1>12 DEF Reconnected, TaskTo, FieldType, NetType
<1>13. ASSUME NEW t \in Tasks, Confirmed(t) PROVE NetType'
  <2>1. \E n \in 1..replies[on[t]] : replies' = [replies EXCEPT ![on[t]] = @ - n]
    BY <1>13 DEF Confirmed, ReadResponse
  <2>2. replies' \in [Dials -> Nat]
    <3>1. CASE on[t] \in Dials
      BY <2>1, <3>1 DEF NetType
    <3>2. CASE on[t] \notin Dials
      BY <2>1, <3>2, Zenon DEF NetType
    <3>. QED
      BY <3>1, <3>2
  <2>. QED
    BY <1>13, <2>2 DEF Confirmed, NetType
<1>14. CASE Publish
  BY <1>14 DEF Publish, BeginWrite, TaskTo, FieldType, NetType
<1>15. CASE PublishEnd
  BY <1>15 DEF PublishEnd, EndWrite, TaskTo, FieldType, NetType
<1>16. CASE Published
  BY <1>16 DEF Published, ReadResponse, TaskTo, FieldType, NetType
<1>17. CASE ListenerReads
  BY <1>17 DEF ListenerReads, FieldType, NetType
<1>18. CASE ListenerGets
  BY <1>18 DEF ListenerGets, ReadResponse, FieldType, NetType
<1>19. CASE ListenerFails
  BY <1>19 DEF ListenerFails, FieldType, NetType
<1>20. CASE UNCHANGED vars
  BY <1>20 DEF vars, FieldType, NetType
<1>. QED
  BY <1>1, <1>2, <1>3, <1>4, <1>5, <1>6, <1>7, <1>8, <1>9, <1>10, <1>11, <1>12, <1>13,
     <1>14, <1>15, <1>16, <1>17, <1>18, <1>19, <1>20
     DEF Next, Running, LoopStep, TaskStep, CallerStep, Listener

\* So do the loops.
LEMMA LoopTStep ==
  ASSUME RedisAssumption, FieldType, LoopType, [Next]_vars
  PROVE  LoopType'
<1>. USE Names DEF fields, netVars, loops, tasks, ghosts
<1>1. ASSUME NEW d \in Dials, MakeStopper(d) \/ MakeTicker(d) PROVE LoopType'
  BY <1>1 DEF MakeStopper, LoopTo, MakeTicker, FieldType, LoopType, RedisAssumption
<1>2. ASSUME NEW d \in Dials, Select(d) PROVE LoopType'
  BY <1>2 DEF Select, LoopTo, FieldType, LoopType, RedisAssumption
<1>3. ASSUME NEW d \in Dials, TakeTick(d) PROVE LoopType'
  BY <1>3 DEF TakeTick, LoopTo, Deaf, FieldType, LoopType, RedisAssumption
<1>4. ASSUME NEW d \in Dials, PingBegin(d) \/ PingEnd(d) PROVE LoopType'
  BY <1>4 DEF PingBegin, BeginWrite, LoopTo, PingEnd, EndWrite, FieldType, LoopType,
     RedisAssumption
<1>5. ASSUME NEW d \in Dials, PingFails(d) \/ Break(d) PROVE LoopType'
  BY <1>5 DEF PingFails, LoopTo, TaskTo, Break, FieldType, LoopType, RedisAssumption
<1>6. CASE AppClose
  BY <1>6 DEF AppClose, TaskTo, FieldType, LoopType, RedisAssumption
<1>7. ASSUME NEW t \in Callers, CloseTicker(t) PROVE LoopType'
  BY <1>7 DEF CloseTicker, TaskTo, FieldType, LoopType, RedisAssumption
<1>8. ASSUME NEW t \in Callers, StopLoop(t) PROVE LoopType'
  BY <1>8 DEF StopLoop, TaskTo, LoopTo, Deaf, FieldType, LoopType, RedisAssumption
<1>9. ASSUME NEW t \in Callers, CloseConn(t) PROVE LoopType'
  BY <1>9 DEF CloseConn, TaskTo, FieldType, LoopType, RedisAssumption
<1>10. ASSUME NEW t \in Tasks, Dial(t) PROVE LoopType'
  BY <1>10 DEF Dial, TaskTo, LoopTo, FieldType, LoopType, RedisAssumption
<1>11. ASSUME NEW t \in Tasks, DialFails(t) \/ SubscribeFails(t) PROVE LoopType'
  BY <1>11 DEF DialFails, Fails, TaskTo, SubscribeFails, FieldType, LoopType, RedisAssumption
<1>12. ASSUME NEW t \in Tasks, Subscribe(t) \/ SubscribeEnd(t) PROVE LoopType'
  BY <1>12 DEF Subscribe, BeginWrite, TaskTo, SubscribeEnd, EndWrite, FieldType, LoopType,
     RedisAssumption
<1>13. ASSUME NEW t \in Tasks, Confirmed(t) \/ Reconnected(t) PROVE LoopType'
  BY <1>13 DEF Confirmed, ReadResponse, TaskTo, Reconnected, FieldType, LoopType,
     RedisAssumption
<1>14. CASE Publish \/ PublishEnd \/ Published
  BY <1>14 DEF Publish, BeginWrite, TaskTo, PublishEnd, EndWrite, Published, ReadResponse,
     FieldType, LoopType, RedisAssumption
<1>15. CASE ListenerReads \/ ListenerGets \/ ListenerFails
  BY <1>15 DEF ListenerReads, ListenerGets, ReadResponse, ListenerFails, FieldType,
     LoopType, RedisAssumption
<1>16. CASE UNCHANGED vars
  BY <1>16 DEF vars, FieldType, LoopType, RedisAssumption
<1>. QED
  BY <1>1, <1>2, <1>3, <1>4, <1>5, <1>6, <1>7, <1>8, <1>9, <1>10, <1>11, <1>12, <1>13,
     <1>14, <1>15, <1>16
     DEF Next, Running, LoopStep, TaskStep, CallerStep, Listener

\* So do the goroutines.
LEMMA TaskTStep ==
  ASSUME RedisAssumption, TaskType, FieldType, [Next]_vars
  PROVE  TaskType'
<1>. USE Names DEF fields, netVars, loops, tasks, ghosts
<1>1. ASSUME NEW d \in Dials, MakeStopper(d) \/ MakeTicker(d) PROVE TaskType'
  BY <1>1 DEF MakeStopper, LoopTo, MakeTicker, TaskType, FieldType, Dials
<1>2. ASSUME NEW d \in Dials, Select(d) \/ TakeTick(d) PROVE TaskType'
  BY <1>2 DEF Select, LoopTo, TakeTick, Deaf, TaskType, FieldType, Dials
<1>3. ASSUME NEW d \in Dials, PingBegin(d) PROVE TaskType'
  BY <1>3 DEF PingBegin, BeginWrite, LoopTo, TaskType, FieldType, Dials
<1>4. ASSUME NEW d \in Dials, PingEnd(d) PROVE TaskType'
  BY <1>4 DEF PingEnd, EndWrite, LoopTo, TaskType, FieldType, Dials
<1>5. ASSUME NEW d \in Dials, Break(d) PROVE TaskType'
  BY <1>5 DEF Break, TaskType, FieldType, Dials
<1>6. ASSUME NEW d \in Dials, PingFails(d) PROVE TaskType'
  BY <1>6 DEF PingFails, LoopTo, TaskTo, TaskType, FieldType, Dials
<1>7. CASE AppClose
  BY <1>7 DEF AppClose, TaskTo, TaskType, FieldType, Dials
<1>8. ASSUME NEW t \in Callers, CloseTicker(t) PROVE TaskType'
  BY <1>8 DEF CloseTicker, TaskTo, TaskType, FieldType, Dials
<1>9. ASSUME NEW t \in Callers, StopLoop(t) PROVE TaskType'
  BY <1>9 DEF StopLoop, TaskTo, LoopTo, Deaf, TaskType, FieldType, Dials
<1>10. ASSUME NEW t \in Callers, CloseConn(t) PROVE TaskType'
  BY <1>10 DEF CloseConn, TaskTo, TaskType, FieldType, Dials
<1>11. ASSUME NEW t \in Tasks, Dial(t) PROVE TaskType'
  BY <1>11 DEF Dial, TaskTo, LoopTo, TaskType, FieldType, Dials
<1>12. ASSUME NEW t \in Tasks, DialFails(t) PROVE TaskType'
  BY <1>12 DEF DialFails, Fails, TaskTo, TaskType, FieldType, Dials
<1>13. ASSUME NEW t \in Tasks, SubscribeFails(t) PROVE TaskType'
  BY <1>13 DEF SubscribeFails, Fails, TaskTo, TaskType, FieldType, Dials
<1>14. ASSUME NEW t \in Tasks, Subscribe(t) PROVE TaskType'
  BY <1>14 DEF Subscribe, BeginWrite, TaskTo, TaskType, FieldType, Dials
<1>15. ASSUME NEW t \in Tasks, SubscribeEnd(t) PROVE TaskType'
  BY <1>15 DEF SubscribeEnd, EndWrite, TaskTo, TaskType, FieldType, Dials
<1>16. ASSUME NEW t \in Tasks, Reconnected(t) PROVE TaskType'
  BY <1>16 DEF Reconnected, TaskTo, TaskType, FieldType, Dials
<1>17. ASSUME NEW t \in Tasks, Confirmed(t) PROVE TaskType'
  BY <1>17 DEF Confirmed, ReadResponse, TaskTo, TaskType, FieldType, Dials
<1>18. CASE Publish
  BY <1>18 DEF Publish, BeginWrite, TaskTo, TaskType, FieldType, Dials
<1>19. CASE PublishEnd
  BY <1>19 DEF PublishEnd, EndWrite, TaskTo, TaskType, FieldType, Dials
<1>20. CASE Published
  BY <1>20 DEF Published, ReadResponse, TaskTo, TaskType, FieldType, Dials
<1>21. CASE ListenerReads \/ ListenerGets \/ ListenerFails
  BY <1>21 DEF ListenerReads, ListenerGets, ReadResponse, ListenerFails, TaskType,
     FieldType, Dials
<1>22. CASE UNCHANGED vars
  BY <1>22 DEF vars, TaskType, FieldType, Dials
<1>. QED
  BY <1>1, <1>2, <1>3, <1>4, <1>5, <1>6, <1>7, <1>8, <1>9, <1>10, <1>11, <1>12, <1>13,
     <1>14, <1>15, <1>16, <1>17, <1>18, <1>19, <1>20, <1>21, <1>22
     DEF Next, Running, LoopStep, TaskStep, CallerStep, Listener

\* So does what a goroutine holds.
LEMMA HeldStep ==
  ASSUME RedisAssumption, HeldType, FieldType, TaskType, Holds, [Next]_vars
  PROVE  HeldType'
<1>. USE Names DEF fields, netVars, loops, tasks, ghosts
<1>1. ASSUME NEW d \in Dials, MakeStopper(d) \/ MakeTicker(d) PROVE HeldType'
  BY <1>1 DEF MakeStopper, LoopTo, MakeTicker, HeldType, FieldType, Nothing, Holds
<1>2. ASSUME NEW d \in Dials, Select(d) \/ TakeTick(d) PROVE HeldType'
  BY <1>2 DEF Select, LoopTo, TakeTick, Deaf, HeldType, FieldType, Nothing, Holds
<1>3. ASSUME NEW d \in Dials, PingBegin(d) \/ PingEnd(d) PROVE HeldType'
  BY <1>3 DEF PingBegin, BeginWrite, LoopTo, PingEnd, EndWrite, HeldType, FieldType,
     Nothing, Holds
<1>4. ASSUME NEW d \in Dials, PingFails(d) \/ Break(d) PROVE HeldType'
  BY <1>4 DEF PingFails, LoopTo, TaskTo, Break, HeldType, FieldType, Nothing, Holds
<1>5. CASE AppClose
  BY <1>5 DEF AppClose, TaskTo, HeldType, FieldType, Nothing, Holds
<1>6. ASSUME NEW t \in Callers, CloseTicker(t) PROVE HeldType'
  BY <1>6 DEF CloseTicker, TaskTo, HeldType, FieldType, Nothing, Holds
<1>7. ASSUME NEW t \in Callers, StopLoop(t) PROVE HeldType'
  BY <1>7 DEF StopLoop, TaskTo, LoopTo, Deaf, HeldType, FieldType, Nothing, Holds
<1>8. ASSUME NEW t \in Callers, CloseConn(t) PROVE HeldType'
  BY <1>8 DEF CloseConn, TaskTo, HeldType, FieldType, Nothing, Holds
<1>9. ASSUME NEW t \in Tasks, Dial(t) PROVE HeldType'
  BY <1>9 DEF Dial, TaskTo, LoopTo, HeldType, FieldType, Nothing, Holds
<1>10. ASSUME NEW t \in Tasks, DialFails(t) PROVE HeldType'
  BY <1>10 DEF DialFails, Fails, TaskTo, HeldType, FieldType, Nothing, Holds
<1>11. ASSUME NEW t \in Tasks, SubscribeFails(t) PROVE HeldType'
  BY <1>11 DEF SubscribeFails, Fails, TaskTo, HeldType, FieldType, Nothing, Holds
<1>12. ASSUME NEW t \in Tasks, Subscribe(t) \/ SubscribeEnd(t) PROVE HeldType'
  BY <1>12 DEF Subscribe, BeginWrite, TaskTo, SubscribeEnd, EndWrite, HeldType, FieldType,
     Nothing, Holds
<1>13. ASSUME NEW t \in Tasks, Reconnected(t) PROVE HeldType'
  BY <1>13 DEF Reconnected, TaskTo, HeldType, FieldType, Nothing, Holds
<1>14. ASSUME NEW t \in Tasks, Confirmed(t) PROVE HeldType'
  BY <1>14 DEF Confirmed, ReadResponse, TaskTo, HeldType, FieldType, Nothing, Holds
<1>15. CASE Publish \/ PublishEnd \/ Published
  BY <1>15 DEF Publish, BeginWrite, TaskTo, PublishEnd, EndWrite, Published, ReadResponse,
     HeldType, FieldType, Nothing, Holds
<1>16. CASE ListenerReads \/ ListenerGets \/ ListenerFails
  BY <1>16 DEF ListenerReads, ListenerGets, ReadResponse, ListenerFails, HeldType,
     FieldType, Nothing, Holds
<1>17. CASE UNCHANGED vars
  BY <1>17 DEF vars, HeldType, FieldType, Nothing, Holds
<1>. QED
  BY <1>1, <1>2, <1>3, <1>4, <1>5, <1>6, <1>7, <1>8, <1>9, <1>10, <1>11, <1>12, <1>13,
     <1>14, <1>15, <1>16, <1>17
     DEF Next, Running, LoopStep, TaskStep, CallerStep, Listener

\* So do the history variables.
LEMMA GhostStep ==
  ASSUME RedisAssumption, GhostType, [Next]_vars
  PROVE  GhostType'
<1>. USE Names DEF fields, netVars, loops, tasks, ghosts
<1>1. ASSUME NEW d \in Dials, MakeStopper(d) \/ MakeTicker(d) PROVE GhostType'
  BY <1>1 DEF MakeStopper, LoopTo, MakeTicker, GhostType
<1>2. ASSUME NEW d \in Dials, Select(d) \/ TakeTick(d) PROVE GhostType'
  BY <1>2 DEF Select, LoopTo, TakeTick, Deaf, GhostType
<1>3. ASSUME NEW d \in Dials, PingBegin(d) \/ PingEnd(d) PROVE GhostType'
  BY <1>3 DEF PingBegin, BeginWrite, LoopTo, PingEnd, EndWrite, GhostType
<1>4. ASSUME NEW d \in Dials, PingFails(d) \/ Break(d) PROVE GhostType'
  BY <1>4 DEF PingFails, LoopTo, TaskTo, Break, GhostType
<1>5. CASE AppClose
  BY <1>5 DEF AppClose, TaskTo, GhostType
<1>6. ASSUME NEW t \in Callers, CloseTicker(t) \/ StopLoop(t) PROVE GhostType'
  BY <1>6 DEF CloseTicker, TaskTo, StopLoop, LoopTo, Deaf, GhostType
<1>7. ASSUME NEW t \in Callers, CloseConn(t) PROVE GhostType'
  BY <1>7 DEF CloseConn, TaskTo, GhostType
<1>8. ASSUME NEW t \in Tasks, Dial(t) PROVE GhostType'
  BY <1>8 DEF Dial, TaskTo, LoopTo, GhostType
<1>9. ASSUME NEW t \in Tasks, DialFails(t) \/ SubscribeFails(t) PROVE GhostType'
  BY <1>9 DEF DialFails, Fails, TaskTo, SubscribeFails, GhostType
<1>10. ASSUME NEW t \in Tasks, Subscribe(t) \/ SubscribeEnd(t) PROVE GhostType'
  BY <1>10 DEF Subscribe, BeginWrite, TaskTo, SubscribeEnd, EndWrite, GhostType
<1>11. ASSUME NEW t \in Tasks, Confirmed(t) \/ Reconnected(t) PROVE GhostType'
  BY <1>11 DEF Confirmed, ReadResponse, TaskTo, Reconnected, GhostType
<1>12. CASE Publish \/ PublishEnd \/ Published
  BY <1>12 DEF Publish, BeginWrite, TaskTo, PublishEnd, EndWrite, Published, ReadResponse,
     GhostType
<1>13. CASE ListenerReads \/ ListenerGets \/ ListenerFails
  BY <1>13 DEF ListenerReads, ListenerGets, ReadResponse, ListenerFails, GhostType
<1>14. CASE UNCHANGED vars
  BY <1>14 DEF vars, GhostType
<1>. QED
  BY <1>1, <1>2, <1>3, <1>4, <1>5, <1>6, <1>7, <1>8, <1>9, <1>10, <1>11, <1>12, <1>13, <1>14
     DEF Next, Running, LoopStep, TaskStep, CallerStep, Listener

-----------------------------------------------------------------------------
(* The conjuncts of the invariant, step by step.                           *)

\* Nobody has more attempts than there are, a goroutine that writes or reads has a
\* pattern to subscribe to, and the application is in Close only after AppClose.
LEMMA HoldsStep ==
  ASSUME RedisAssumption, TaskType, HeldType, Holds, [Next]_vars
  PROVE  Holds'
<1>. USE Names DEF fields, netVars, loops, tasks, ghosts
<1>1. ASSUME NEW d \in Dials, MakeStopper(d) \/ MakeTicker(d) PROVE Holds'
  BY <1>1 DEF MakeStopper, LoopTo, MakeTicker, TaskType, HeldType, Holds, Nothing,
     CloseCalled, RedisAssumption
<1>2. ASSUME NEW d \in Dials, Select(d) \/ TakeTick(d) PROVE Holds'
  BY <1>2 DEF Select, LoopTo, TakeTick, Deaf, TaskType, HeldType, Holds, Nothing,
     CloseCalled, RedisAssumption
<1>3. ASSUME NEW d \in Dials, PingBegin(d) \/ PingEnd(d) PROVE Holds'
  BY <1>3 DEF PingBegin, BeginWrite, LoopTo, PingEnd, EndWrite, TaskType, HeldType, Holds,
     Nothing, CloseCalled, RedisAssumption
<1>4. ASSUME NEW d \in Dials, PingFails(d) \/ Break(d) PROVE Holds'
  BY <1>4 DEF PingFails, LoopTo, TaskTo, Break, TaskType, HeldType, Holds, Nothing,
     CloseCalled, RedisAssumption
<1>5. CASE AppClose
  BY <1>5 DEF AppClose, TaskTo, TaskType, HeldType, Holds, Nothing, CloseCalled, RedisAssumption
<1>6. ASSUME NEW t \in Callers, CloseTicker(t) PROVE Holds'
  BY <1>6 DEF CloseTicker, TaskTo, TaskType, HeldType, Holds, Nothing, CloseCalled,
     RedisAssumption
<1>7. ASSUME NEW t \in Callers, StopLoop(t) PROVE Holds'
  BY <1>7 DEF StopLoop, TaskTo, LoopTo, Deaf, TaskType, HeldType, Holds, Nothing,
     CloseCalled, RedisAssumption
<1>8. ASSUME NEW t \in Callers, CloseConn(t) PROVE Holds'
  BY <1>8 DEF CloseConn, TaskTo, TaskType, HeldType, Holds, Nothing, CloseCalled,
     RedisAssumption
<1>9. ASSUME NEW t \in Tasks, Dial(t) PROVE Holds'
  BY <1>9 DEF Dial, TaskTo, LoopTo, TaskType, HeldType, Holds, Nothing, CloseCalled,
     RedisAssumption
<1>10. ASSUME NEW t \in Tasks, DialFails(t) PROVE Holds'
  BY <1>10 DEF DialFails, Fails, TaskTo, TaskType, HeldType, Holds, Nothing, CloseCalled,
     RedisAssumption
<1>11. ASSUME NEW t \in Tasks, SubscribeFails(t) PROVE Holds'
  BY <1>11 DEF SubscribeFails, Fails, TaskTo, TaskType, HeldType, Holds, Nothing,
     CloseCalled, RedisAssumption
<1>12. ASSUME NEW t \in Tasks, Subscribe(t) PROVE Holds'
  BY <1>12 DEF Subscribe, BeginWrite, TaskTo, TaskType, HeldType, Holds, Nothing,
     CloseCalled, RedisAssumption
<1>13. ASSUME NEW t \in Tasks, SubscribeEnd(t) PROVE Holds'
  BY <1>13 DEF SubscribeEnd, EndWrite, TaskTo, TaskType, HeldType, Holds, Nothing,
     CloseCalled, RedisAssumption
<1>14. ASSUME NEW t \in Tasks, Confirmed(t) PROVE Holds'
  BY <1>14 DEF Confirmed, ReadResponse, TaskTo, TaskType, HeldType, Holds, Nothing,
     CloseCalled, RedisAssumption
<1>15. ASSUME NEW t \in Tasks, Reconnected(t) PROVE Holds'
  BY <1>15 DEF Reconnected, TaskTo, TaskType, HeldType, Holds, Nothing, CloseCalled,
     RedisAssumption
<1>16. CASE Publish \/ PublishEnd \/ Published
  BY <1>16 DEF Publish, BeginWrite, TaskTo, PublishEnd, EndWrite, Published, ReadResponse,
     TaskType, HeldType, Holds, Nothing, CloseCalled, RedisAssumption
<1>17. CASE ListenerReads \/ ListenerGets \/ ListenerFails
  BY <1>17 DEF ListenerReads, ListenerGets, ReadResponse, ListenerFails, TaskType, HeldType,
     Holds, Nothing, CloseCalled, RedisAssumption
<1>18. CASE UNCHANGED vars
  BY <1>18 DEF vars, TaskType, HeldType, Holds, Nothing, CloseCalled, RedisAssumption
<1>. QED
  BY <1>1, <1>2, <1>3, <1>4, <1>5, <1>6, <1>7, <1>8, <1>9, <1>10, <1>11, <1>12, <1>13,
     <1>14, <1>15, <1>16, <1>17, <1>18
     DEF Next, Running, LoopStep, TaskStep, CallerStep, Listener

\* A step leaves the fields named by loops that wait for what the fields hold.
LEMMA FieldInvStep ==
  ASSUME RedisAssumption, FieldType, LoopType, FieldInv, [Next]_vars
  PROVE  FieldInv'
<1>. USE Names DEF fields, netVars, loops, tasks, ghosts
<1>1. ASSUME NEW d \in Dials, MakeStopper(d) PROVE FieldInv'
  BY <1>1 DEF MakeStopper, LoopTo, FieldType, LoopType, FieldInv, Dials
<1>2. ASSUME NEW d \in Dials, MakeTicker(d) PROVE FieldInv'
  BY <1>2 DEF MakeTicker, LoopTo, FieldType, LoopType, FieldInv, Dials
<1>3. ASSUME NEW d \in Dials, Select(d) PROVE FieldInv'
  BY <1>3 DEF Select, LoopTo, FieldType, LoopType, FieldInv, Dials
<1>4. ASSUME NEW d \in Dials, TakeTick(d) PROVE FieldInv'
  BY <1>4 DEF TakeTick, LoopTo, Deaf, FieldType, LoopType, FieldInv, Dials
<1>5. ASSUME NEW d \in Dials, PingBegin(d) PROVE FieldInv'
  BY <1>5 DEF PingBegin, BeginWrite, LoopTo, FieldType, LoopType, FieldInv, Dials
<1>6. ASSUME NEW d \in Dials, PingEnd(d) PROVE FieldInv'
  BY <1>6 DEF PingEnd, EndWrite, LoopTo, FieldType, LoopType, FieldInv, Dials
<1>7. ASSUME NEW d \in Dials, PingFails(d) PROVE FieldInv'
  BY <1>7 DEF PingFails, LoopTo, TaskTo, FieldType, LoopType, FieldInv, Dials
<1>8. ASSUME NEW d \in Dials, Break(d) PROVE FieldInv'
  BY <1>8 DEF Break, FieldType, LoopType, FieldInv, Dials
<1>9. CASE AppClose
  BY <1>9 DEF AppClose, TaskTo, FieldType, LoopType, FieldInv, Dials
<1>10. ASSUME NEW t \in Callers, CloseTicker(t) PROVE FieldInv'
  BY <1>10 DEF CloseTicker, TaskTo, FieldType, LoopType, FieldInv, Dials
<1>11. ASSUME NEW t \in Callers, StopLoop(t) PROVE FieldInv'
  BY <1>11 DEF StopLoop, TaskTo, LoopTo, Deaf, FieldType, LoopType, FieldInv, Dials
<1>12. ASSUME NEW t \in Callers, CloseConn(t) PROVE FieldInv'
  BY <1>12 DEF CloseConn, TaskTo, FieldType, LoopType, FieldInv, Dials
<1>13. ASSUME NEW t \in Tasks, Dial(t) PROVE FieldInv'
  BY <1>13 DEF Dial, TaskTo, LoopTo, FieldType, LoopType, FieldInv, Dials
<1>14. ASSUME NEW t \in Tasks, DialFails(t) \/ SubscribeFails(t) PROVE FieldInv'
  BY <1>14 DEF DialFails, Fails, TaskTo, SubscribeFails, FieldType, LoopType, FieldInv, Dials
<1>15. ASSUME NEW t \in Tasks, Subscribe(t) \/ SubscribeEnd(t) PROVE FieldInv'
  BY <1>15 DEF Subscribe, BeginWrite, TaskTo, SubscribeEnd, EndWrite, FieldType, LoopType,
     FieldInv, Dials
<1>16. ASSUME NEW t \in Tasks, Confirmed(t) \/ Reconnected(t) PROVE FieldInv'
  BY <1>16 DEF Confirmed, ReadResponse, TaskTo, Reconnected, FieldType, LoopType, FieldInv,
     Dials
<1>17. CASE Publish \/ PublishEnd \/ Published
  BY <1>17 DEF Publish, BeginWrite, TaskTo, PublishEnd, EndWrite, Published, ReadResponse,
     FieldType, LoopType, FieldInv, Dials
<1>18. CASE ListenerReads \/ ListenerGets \/ ListenerFails
  BY <1>18 DEF ListenerReads, ListenerGets, ReadResponse, ListenerFails, FieldType,
     LoopType, FieldInv, Dials
<1>19. CASE UNCHANGED vars
  BY <1>19 DEF vars, FieldType, LoopType, FieldInv, Dials
<1>. QED
  BY <1>1, <1>2, <1>3, <1>4, <1>5, <1>6, <1>7, <1>8, <1>9, <1>10, <1>11, <1>12, <1>13,
     <1>14, <1>15, <1>16, <1>17, <1>18, <1>19
     DEF Next, Running, LoopStep, TaskStep, CallerStep, Listener

\* A goroutine enters Reconnect or Close alone, as long as none ever overlaps.
LEMMA OneStep ==
  ASSUME RedisAssumption, GhostType, TaskType, Holds, OneActive, [Next]_vars
  PROVE  OneActive'
<1>. USE Names DEF fields, netVars, loops, tasks, ghosts
<1>1. ASSUME NEW d \in Dials, MakeStopper(d) \/ MakeTicker(d) PROVE OneActive'
  BY <1>1 DEF MakeStopper, LoopTo, MakeTicker, TaskType, Holds, OneActive, Act, Shut, Busy
<1>2. ASSUME NEW d \in Dials, Select(d) \/ TakeTick(d) PROVE OneActive'
  BY <1>2 DEF Select, LoopTo, TakeTick, Deaf, TaskType, Holds, OneActive, Act, Shut, Busy
<1>3. ASSUME NEW d \in Dials, PingBegin(d) \/ PingEnd(d) PROVE OneActive'
  BY <1>3 DEF PingBegin, BeginWrite, LoopTo, PingEnd, EndWrite, TaskType, Holds, OneActive,
     Act, Shut, Busy
<1>4. ASSUME NEW d \in Dials, PingFails(d) \/ Break(d) PROVE OneActive'
  BY <1>4 DEF PingFails, LoopTo, TaskTo, Break, TaskType, Holds, OneActive, Act, Shut, Busy
<1>5. CASE AppClose
  BY <1>5 DEF AppClose, TaskTo, TaskType, Holds, OneActive, Act, Shut, Busy
<1>6. ASSUME NEW t \in Callers, CloseTicker(t) PROVE OneActive'
  <2>. SUFFICES ASSUME ~overlapped', NEW u \in Callers, NEW v \in Callers,
                       task'[u] \in Act, task'[v] \in Act
                PROVE  u = v
    BY Zenon DEF OneActive
  <2>1. Busy = {t} /\ \A x \in Callers \ {t} : task'[x] = task[x]
    BY <1>6 DEF CloseTicker, TaskTo, TaskType
  <2>. QED
    BY <2>1 DEF Busy, Act, Shut
<1>7. ASSUME NEW t \in Callers, StopLoop(t) PROVE OneActive'
  BY <1>7 DEF StopLoop, TaskTo, LoopTo, Deaf, TaskType, Holds, OneActive, Act, Shut, Busy
<1>8. ASSUME NEW t \in Callers, CloseConn(t) PROVE OneActive'
  BY <1>8 DEF CloseConn, TaskTo, TaskType, Holds, OneActive, Act, Shut, Busy
<1>9. ASSUME NEW t \in Tasks, Dial(t) PROVE OneActive'
  BY <1>9 DEF Dial, TaskTo, LoopTo, TaskType, Holds, OneActive, Act, Shut, Busy
<1>10. ASSUME NEW t \in Tasks, DialFails(t) \/ SubscribeFails(t) PROVE OneActive'
  BY <1>10 DEF DialFails, Fails, TaskTo, SubscribeFails, TaskType, Holds, OneActive, Act,
     Shut, Busy
<1>11. ASSUME NEW t \in Tasks, Subscribe(t) \/ SubscribeEnd(t) PROVE OneActive'
  BY <1>11 DEF Subscribe, BeginWrite, TaskTo, SubscribeEnd, EndWrite, TaskType, Holds,
     OneActive, Act, Shut, Busy
<1>12. ASSUME NEW t \in Tasks, Confirmed(t) \/ Reconnected(t) PROVE OneActive'
  BY <1>12 DEF Confirmed, ReadResponse, TaskTo, Reconnected, TaskType, Holds, OneActive,
     Act, Shut, Busy
<1>13. CASE Publish \/ PublishEnd \/ Published
  BY <1>13 DEF Publish, BeginWrite, TaskTo, PublishEnd, EndWrite, Published, ReadResponse,
     TaskType, Holds, OneActive, Act, Shut, Busy
<1>14. CASE ListenerReads \/ ListenerGets \/ ListenerFails
  BY <1>14 DEF ListenerReads, ListenerGets, ReadResponse, ListenerFails, TaskType, Holds,
     OneActive, Act, Shut, Busy
<1>15. CASE UNCHANGED vars
  BY <1>15 DEF vars, TaskType, Holds, OneActive, Act, Shut, Busy
<1>. QED
  BY <1>1, <1>2, <1>3, <1>4, <1>5, <1>6, <1>7, <1>8, <1>9, <1>10, <1>11, <1>12, <1>13,
     <1>14, <1>15
     DEF Next, Running, LoopStep, TaskStep, CallerStep, Listener

\* Whoever stops the last ticker is on its way to a dial that starts a loop.
LEMMA WatchStep ==
  ASSUME RedisAssumption, FieldType, LoopType, TaskType, HeldType, Holds, FieldInv,
         WatchInv, [Next]_vars
  PROVE  WatchInv'
<1>. USE Names DEF fields, netVars, loops, tasks, ghosts
<1>1. ASSUME NEW d \in Dials, MakeStopper(d) PROVE WatchInv'
  BY <1>1 DEF MakeStopper, LoopTo, FieldType, LoopType, TaskType, HeldType, Holds, FieldInv,
     WatchInv, Starting, CloseCalled, Shut, Nothing
<1>2. ASSUME NEW d \in Dials, MakeTicker(d) PROVE WatchInv'
  BY <1>2 DEF MakeTicker, LoopTo, FieldType, LoopType, TaskType, HeldType, Holds, FieldInv,
     WatchInv, Starting, CloseCalled, Shut, Nothing
<1>3. ASSUME NEW d \in Dials, Select(d) PROVE WatchInv'
  BY <1>3 DEF Select, LoopTo, FieldType, LoopType, TaskType, HeldType, Holds, FieldInv,
     WatchInv, Starting, CloseCalled, Shut, Nothing
<1>4. ASSUME NEW d \in Dials, TakeTick(d) PROVE WatchInv'
  BY <1>4 DEF TakeTick, LoopTo, Deaf, FieldType, LoopType, TaskType, HeldType, Holds,
     FieldInv, WatchInv, Starting, CloseCalled, Shut, Nothing
<1>5. ASSUME NEW d \in Dials, PingBegin(d) \/ PingEnd(d) PROVE WatchInv'
  BY <1>5 DEF PingBegin, BeginWrite, LoopTo, PingEnd, EndWrite, FieldType, LoopType,
     TaskType, HeldType, Holds, FieldInv, WatchInv, Starting, CloseCalled, Shut, Nothing
<1>6. ASSUME NEW d \in Dials, PingFails(d) \/ Break(d) PROVE WatchInv'
  BY <1>6 DEF PingFails, LoopTo, TaskTo, Break, FieldType, LoopType, TaskType, HeldType,
     Holds, FieldInv, WatchInv, Starting, CloseCalled, Shut, Nothing
<1>7. CASE AppClose
  BY <1>7 DEF AppClose, TaskTo, FieldType, LoopType, TaskType, HeldType, Holds, FieldInv,
     WatchInv, Starting, CloseCalled, Shut, Nothing
<1>8. ASSUME NEW t \in Callers, CloseTicker(t) PROVE WatchInv'
  <2>. SUFFICES ASSUME ~CloseCalled' PROVE \E u \in Tasks : task'[u] \in Shut
    BY Zenon DEF WatchInv
  <2>1. t # App
    <3>1. CASE t = App
      <4>1. CloseCalled
        BY <1>8, <3>1, Names DEF CloseTicker, Holds
      <4>2. held'[App].tries = held[App].tries
        BY <1>8, Names DEF CloseTicker, HeldType
      <4>. QED
        BY <4>1, <4>2 DEF CloseCalled
    <3>. QED
      BY <3>1
  <2>2. t \in Tasks /\ task'[t] \in {"stop", "close"}
    BY <1>8, <2>1 DEF CloseTicker, TaskTo, TaskType, Callers
  <2>. QED
    BY <2>2 DEF Shut
<1>9. ASSUME NEW t \in Callers, StopLoop(t) PROVE WatchInv'
  BY <1>9 DEF StopLoop, TaskTo, LoopTo, Deaf, FieldType, LoopType, TaskType, HeldType,
     Holds, FieldInv, WatchInv, Starting, CloseCalled, Shut, Nothing
<1>10. ASSUME NEW t \in Callers, CloseConn(t) PROVE WatchInv'
  BY <1>10 DEF CloseConn, TaskTo, FieldType, LoopType, TaskType, HeldType, Holds, FieldInv,
     WatchInv, Starting, CloseCalled, Shut, Nothing
<1>11. ASSUME NEW t \in Tasks, Dial(t) PROVE WatchInv'
  <2>1. dials + 1 \in Dials /\ loop'[dials + 1] = "new"
    BY <1>11 DEF Dial, LoopTo, LoopType, FieldType, Dials
  <2>. QED
    BY <2>1 DEF WatchInv, Starting
<1>12. ASSUME NEW t \in Tasks, DialFails(t) PROVE WatchInv'
  BY <1>12 DEF DialFails, Fails, TaskTo, FieldType, LoopType, TaskType, HeldType, Holds,
     FieldInv, WatchInv, Starting, CloseCalled, Shut, Nothing
<1>13. ASSUME NEW t \in Tasks, SubscribeFails(t) PROVE WatchInv'
  BY <1>13 DEF SubscribeFails, Fails, TaskTo, FieldType, LoopType, TaskType, HeldType,
     Holds, FieldInv, WatchInv, Starting, CloseCalled, Shut, Nothing
<1>14. ASSUME NEW t \in Tasks, Subscribe(t) \/ SubscribeEnd(t) PROVE WatchInv'
  BY <1>14 DEF Subscribe, BeginWrite, TaskTo, SubscribeEnd, EndWrite, FieldType, LoopType,
     TaskType, HeldType, Holds, FieldInv, WatchInv, Starting, CloseCalled, Shut, Nothing
<1>15. ASSUME NEW t \in Tasks, Confirmed(t) \/ Reconnected(t) PROVE WatchInv'
  BY <1>15 DEF Confirmed, ReadResponse, TaskTo, Reconnected, FieldType, LoopType, TaskType,
     HeldType, Holds, FieldInv, WatchInv, Starting, CloseCalled, Shut, Nothing
<1>16. CASE Publish \/ PublishEnd \/ Published
  BY <1>16 DEF Publish, BeginWrite, TaskTo, PublishEnd, EndWrite, Published, ReadResponse,
     FieldType, LoopType, TaskType, HeldType, Holds, FieldInv, WatchInv, Starting,
     CloseCalled, Shut, Nothing
<1>17. CASE ListenerReads \/ ListenerGets \/ ListenerFails
  BY <1>17 DEF ListenerReads, ListenerGets, ReadResponse, ListenerFails, FieldType,
     LoopType, TaskType, HeldType, Holds, FieldInv, WatchInv, Starting, CloseCalled, Shut,
     Nothing
<1>18. CASE UNCHANGED vars
  BY <1>18 DEF vars, FieldType, LoopType, TaskType, HeldType, Holds, FieldInv, WatchInv,
     Starting, CloseCalled, Shut, Nothing
<1>. QED
  BY <1>1, <1>2, <1>3, <1>4, <1>5, <1>6, <1>7, <1>8, <1>9, <1>10, <1>11, <1>12, <1>13,
     <1>14, <1>15, <1>16, <1>17, <1>18
     DEF Next, Running, LoopStep, TaskStep, CallerStep, Listener

\* From CloseTicker to Dial the loops are at rest, and the stopper is the field's.
LEMMA ShutStep ==
  ASSUME RedisAssumption, FieldType, LoopType, TaskType, HeldType, Holds, FieldInv,
         OneActive, ShutInv, [Next]_vars
  PROVE  ShutInv'
<1>. USE Names DEF fields, netVars, loops, tasks, ghosts
<1>1. ASSUME NEW d \in Dials, MakeStopper(d) PROVE ShutInv'
  BY <1>1 DEF MakeStopper, LoopTo, FieldType, LoopType, TaskType, HeldType, FieldInv,
     OneActive, ShutInv, Starting, Shut, Act, Nothing
<1>2. ASSUME NEW d \in Dials, MakeTicker(d) PROVE ShutInv'
  BY <1>2 DEF MakeTicker, LoopTo, FieldType, LoopType, TaskType, HeldType, FieldInv,
     OneActive, ShutInv, Starting, Shut, Act, Nothing
<1>3. ASSUME NEW d \in Dials, Select(d) PROVE ShutInv'
  BY <1>3 DEF Select, LoopTo, FieldType, LoopType, TaskType, HeldType, FieldInv, OneActive,
     ShutInv, Starting, Shut, Act, Nothing
<1>4. ASSUME NEW d \in Dials, TakeTick(d) PROVE ShutInv'
  BY <1>4 DEF TakeTick, LoopTo, Deaf, FieldType, LoopType, TaskType, HeldType, FieldInv,
     OneActive, ShutInv, Starting, Shut, Act, Nothing
<1>5. ASSUME NEW d \in Dials, PingBegin(d) PROVE ShutInv'
  BY <1>5 DEF PingBegin, BeginWrite, LoopTo, FieldType, LoopType, TaskType, HeldType,
     FieldInv, OneActive, ShutInv, Starting, Shut, Act, Nothing
<1>6. ASSUME NEW d \in Dials, PingEnd(d) PROVE ShutInv'
  BY <1>6 DEF PingEnd, EndWrite, LoopTo, FieldType, LoopType, TaskType, HeldType, FieldInv,
     OneActive, ShutInv, Starting, Shut, Act, Nothing
<1>7. ASSUME NEW d \in Dials, PingFails(d) PROVE ShutInv'
  BY <1>7 DEF PingFails, LoopTo, TaskTo, FieldType, LoopType, TaskType, HeldType, FieldInv,
     OneActive, ShutInv, Starting, Shut, Act, Nothing
<1>8. ASSUME NEW d \in Dials, Break(d) PROVE ShutInv'
  BY <1>8 DEF Break, FieldType, LoopType, TaskType, HeldType, FieldInv, OneActive, ShutInv,
     Starting, Shut, Act, Nothing
<1>9. CASE AppClose
  BY <1>9 DEF AppClose, TaskTo, FieldType, LoopType, TaskType, HeldType, FieldInv,
     OneActive, ShutInv, Starting, Shut, Act, Nothing
<1>10. ASSUME NEW t \in Callers, CloseTicker(t) PROVE ShutInv'
  <2>. SUFFICES ASSUME ~overlapped', ~early' PROVE ShutInv'
    BY Zenon DEF ShutInv
  <2>1. /\ ~overlapped /\ ~early /\ ~Starting /\ Busy = {t}
        /\ UNCHANGED <<pingTicker, pingStopper, loop>>
    BY <1>10 DEF CloseTicker
  <2>2. running \subseteq {pingTicker} /\ running \subseteq Dials /\ 0 \notin Dials
    BY <2>1 DEF ShutInv, FieldType, Dials
  <2>3. running' = {}
    BY <1>10, <2>2 DEF CloseTicker
  <2>4. /\ \A u \in Callers \ {t} : task'[u] \notin Shut
        /\ task'[t] = "stop" => held'[t].stopper = pingStopper /\ pingTicker # 0
    BY <1>10, <2>1 DEF CloseTicker, TaskTo, TaskType, HeldType, Busy, Shut
  <2>5. ~Starting'
    BY <2>1 DEF Starting
  <2>. QED
    BY <2>1, <2>3, <2>4, <2>5 DEF ShutInv, FieldInv, Shut, Starting
<1>11. ASSUME NEW t \in Callers, StopLoop(t) PROVE ShutInv'
  BY <1>11 DEF StopLoop, TaskTo, LoopTo, Deaf, FieldType, LoopType, TaskType, HeldType,
     FieldInv, OneActive, ShutInv, Starting, Shut, Act, Nothing
<1>12. ASSUME NEW t \in Callers, CloseConn(t) PROVE ShutInv'
  BY <1>12 DEF CloseConn, TaskTo, FieldType, LoopType, TaskType, HeldType, FieldInv,
     OneActive, ShutInv, Starting, Shut, Act, Nothing
<1>13. ASSUME NEW t \in Tasks, Dial(t) PROVE ShutInv'
  BY <1>13 DEF Dial, TaskTo, LoopTo, FieldType, LoopType, TaskType, HeldType, FieldInv,
     OneActive, ShutInv, Starting, Shut, Act, Nothing
<1>14. ASSUME NEW t \in Tasks, DialFails(t) PROVE ShutInv'
  BY <1>14 DEF DialFails, Fails, TaskTo, FieldType, LoopType, TaskType, HeldType, FieldInv,
     OneActive, ShutInv, Starting, Shut, Act, Nothing
<1>15. ASSUME NEW t \in Tasks, SubscribeFails(t) PROVE ShutInv'
  BY <1>15 DEF SubscribeFails, Fails, TaskTo, FieldType, LoopType, TaskType, HeldType,
     FieldInv, OneActive, ShutInv, Starting, Shut, Act, Nothing
<1>16. ASSUME NEW t \in Tasks, Subscribe(t) PROVE ShutInv'
  BY <1>16 DEF Subscribe, BeginWrite, TaskTo, FieldType, LoopType, TaskType, HeldType,
     FieldInv, OneActive, ShutInv, Starting, Shut, Act, Nothing
<1>17. ASSUME NEW t \in Tasks, SubscribeEnd(t) PROVE ShutInv'
  BY <1>17 DEF SubscribeEnd, EndWrite, TaskTo, FieldType, LoopType, TaskType, HeldType,
     FieldInv, OneActive, ShutInv, Starting, Shut, Act, Nothing
<1>18. ASSUME NEW t \in Tasks, Confirmed(t) PROVE ShutInv'
  BY <1>18 DEF Confirmed, ReadResponse, TaskTo, FieldType, LoopType, TaskType, HeldType,
     FieldInv, OneActive, ShutInv, Starting, Shut, Act, Nothing
<1>19. ASSUME NEW t \in Tasks, Reconnected(t) PROVE ShutInv'
  BY <1>19 DEF Reconnected, TaskTo, FieldType, LoopType, TaskType, HeldType, FieldInv,
     OneActive, ShutInv, Starting, Shut, Act, Nothing
<1>20. CASE Publish \/ PublishEnd \/ Published
  BY <1>20 DEF Publish, BeginWrite, TaskTo, PublishEnd, EndWrite, Published, ReadResponse,
     FieldType, LoopType, TaskType, HeldType, FieldInv, OneActive, ShutInv, Starting, Shut,
     Act, Nothing
<1>21. CASE ListenerReads \/ ListenerGets \/ ListenerFails
  BY <1>21 DEF ListenerReads, ListenerGets, ReadResponse, ListenerFails, FieldType,
     LoopType, TaskType, HeldType, FieldInv, OneActive, ShutInv, Starting, Shut, Act,
     Nothing
<1>22. CASE UNCHANGED vars
  BY <1>22 DEF vars, FieldType, LoopType, TaskType, HeldType, FieldInv, OneActive, ShutInv,
     Starting, Shut, Act, Nothing
<1>. QED
  BY <1>1, <1>2, <1>3, <1>4, <1>5, <1>6, <1>7, <1>8, <1>9, <1>10, <1>11, <1>12, <1>13,
     <1>14, <1>15, <1>16, <1>17, <1>18, <1>19, <1>20, <1>21, <1>22
     DEF Next, Running, LoopStep, TaskStep, CallerStep, Listener

\* What the field has lost is what the goroutine that reconnects still has to do.
LEMMA TopicsStep ==
  ASSUME RedisAssumption, FieldType, NetType, TaskType, HeldType, Holds, OneActive,
         TopicsInv, [Next]_vars
  PROVE  TopicsInv'
<1>. USE Names DEF fields, netVars, loops, tasks, ghosts
<1>1. ASSUME NEW d \in Dials, MakeStopper(d) PROVE TopicsInv'
  BY <1>1 DEF MakeStopper, LoopTo, FieldType, NetType, TaskType, HeldType, OneActive, Holds,
     TopicsInv, Shut, Act, Nothing, Alone, CloseCalled, Up
<1>2. ASSUME NEW d \in Dials, MakeTicker(d) PROVE TopicsInv'
  BY <1>2 DEF MakeTicker, LoopTo, FieldType, NetType, TaskType, HeldType, OneActive, Holds,
     TopicsInv, Shut, Act, Nothing, Alone, CloseCalled, Up
<1>3. ASSUME NEW d \in Dials, Select(d) PROVE TopicsInv'
  BY <1>3 DEF Select, LoopTo, FieldType, NetType, TaskType, HeldType, OneActive, Holds,
     TopicsInv, Shut, Act, Nothing, Alone, CloseCalled, Up
<1>4. ASSUME NEW d \in Dials, TakeTick(d) PROVE TopicsInv'
  BY <1>4 DEF TakeTick, LoopTo, Deaf, FieldType, NetType, TaskType, HeldType, OneActive,
     Holds, TopicsInv, Shut, Act, Nothing, Alone, CloseCalled, Up
<1>5. ASSUME NEW d \in Dials, PingBegin(d) PROVE TopicsInv'
  BY <1>5 DEF PingBegin, BeginWrite, LoopTo, FieldType, NetType, TaskType, HeldType,
     OneActive, Holds, TopicsInv, Shut, Act, Nothing, Alone, CloseCalled, Up
<1>6. ASSUME NEW d \in Dials, PingEnd(d) PROVE TopicsInv'
  BY <1>6 DEF PingEnd, EndWrite, LoopTo, FieldType, NetType, TaskType, HeldType, OneActive,
     Holds, TopicsInv, Shut, Act, Nothing, Alone, CloseCalled, Up
<1>7. ASSUME NEW d \in Dials, PingFails(d) PROVE TopicsInv'
  BY <1>7 DEF PingFails, LoopTo, TaskTo, FieldType, NetType, TaskType, HeldType, OneActive,
     Holds, TopicsInv, Shut, Act, Nothing, Alone, CloseCalled, Up
<1>8. ASSUME NEW d \in Dials, Break(d) PROVE TopicsInv'
  BY <1>8 DEF Break, FieldType, NetType, TaskType, HeldType, OneActive, Holds, TopicsInv,
     Shut, Act, Nothing, Alone, CloseCalled, Up
<1>9. CASE AppClose
  BY <1>9 DEF AppClose, TaskTo, FieldType, NetType, TaskType, HeldType, OneActive, Holds,
     TopicsInv, Shut, Act, Nothing, Alone, CloseCalled, Up
<1>10. ASSUME NEW t \in Callers, CloseTicker(t) PROVE TopicsInv'
  <2>. SUFFICES ASSUME Alone', ~failed' PROVE TopicsInv'
    BY Zenon DEF TopicsInv
  <2>1. Alone /\ ~failed /\ Busy = {t} /\ UNCHANGED <<fields, netVars, on>>
    BY <1>10 DEF CloseTicker, Alone, CloseCalled, HeldType
  <2>2. \A u \in Callers \ {t} : task'[u] = task[u] /\ task[u] \notin Act
    BY <1>10, <2>1 DEF CloseTicker, TaskTo, TaskType, Busy, Act, Shut
  <2>3. topics = Patterns
    BY <1>10, <2>1, <2>2 DEF CloseTicker, TopicsInv, Act, Shut
  <2>4. task'[t] \in {"stop", "close"} /\ held'[t].left = Patterns
    BY <1>10, <2>3 DEF CloseTicker, TaskTo, TaskType, HeldType
  <2>. QED
    BY <2>1, <2>2, <2>3, <2>4 DEF TopicsInv, Act, Shut
<1>11. ASSUME NEW t \in Callers, StopLoop(t) PROVE TopicsInv'
  BY <1>11 DEF StopLoop, TaskTo, LoopTo, Deaf, FieldType, NetType, TaskType, HeldType,
     OneActive, Holds, TopicsInv, Shut, Act, Nothing, Alone, CloseCalled, Up
<1>12. ASSUME NEW t \in Callers, CloseConn(t) PROVE TopicsInv'
  BY <1>12 DEF CloseConn, TaskTo, FieldType, NetType, TaskType, HeldType, OneActive, Holds,
     TopicsInv, Shut, Act, Nothing, Alone, CloseCalled, Up
<1>13. ASSUME NEW t \in Tasks, Dial(t) PROVE TopicsInv'
  BY <1>13 DEF Dial, TaskTo, LoopTo, FieldType, NetType, TaskType, HeldType, OneActive,
     Holds, TopicsInv, Shut, Act, Nothing, Alone, CloseCalled, Up
<1>14. ASSUME NEW t \in Tasks, DialFails(t) PROVE TopicsInv'
  BY <1>14 DEF DialFails, Fails, TaskTo, FieldType, NetType, TaskType, HeldType, OneActive,
     Holds, TopicsInv, Shut, Act, Nothing, Alone, CloseCalled, Up
<1>15. ASSUME NEW t \in Tasks, SubscribeFails(t) PROVE TopicsInv'
  BY <1>15 DEF SubscribeFails, Fails, TaskTo, FieldType, NetType, TaskType, HeldType,
     OneActive, Holds, TopicsInv, Shut, Act, Nothing, Alone, CloseCalled, Up
<1>16. ASSUME NEW t \in Tasks, Subscribe(t) PROVE TopicsInv'
  BY <1>16 DEF Subscribe, BeginWrite, TaskTo, FieldType, NetType, TaskType, HeldType,
     OneActive, Holds, TopicsInv, Shut, Act, Nothing, Alone, CloseCalled, Up
<1>17. ASSUME NEW t \in Tasks, SubscribeEnd(t) PROVE TopicsInv'
  <2>. SUFFICES ASSUME Alone', ~failed' PROVE TopicsInv'
    BY Zenon DEF TopicsInv
  <2>1. Alone /\ ~failed /\ UNCHANGED <<fields, held, dials>> /\ t \in Callers
    BY <1>17 DEF SubscribeEnd, Alone, CloseCalled
  <2>2. \A u \in Callers \ {t} : task'[u] = task[u] /\ task'[u] \notin Act
    BY <1>17, <2>1 DEF SubscribeEnd, TaskTo, TaskType, OneActive, Alone, Act
  <2>3. /\ topics \cup held[t].left = Patterns /\ topics \subseteq subs[conn]
        /\ on[t] = conn
    BY <1>17, <2>1 DEF SubscribeEnd, TopicsInv
  <2>4. task'[t] = "reading" /\ on'[t] = conn
    BY <1>17, <2>1 DEF SubscribeEnd, TaskTo, TaskType
  <2>5. topics \subseteq subs'[conn] /\ First(held[t].left) \in subs'[conn]
    BY <1>17, <2>1, <2>3, PatternLeft DEF SubscribeEnd, NetType, FieldType
  <2>. QED
    BY <2>1, <2>2, <2>3, <2>4, <2>5 DEF TopicsInv, Act, Shut
<1>18. ASSUME NEW t \in Tasks, Confirmed(t) PROVE TopicsInv'
  <2>. SUFFICES ASSUME Alone', ~failed' PROVE TopicsInv'
    BY Zenon DEF TopicsInv
  <2>1. Alone /\ ~failed /\ UNCHANGED <<conn, net, subs>> /\ t \in Callers
    BY <1>18 DEF Confirmed, Alone, CloseCalled, HeldType
  <2>2. \A u \in Callers \ {t} : task'[u] = task[u] /\ task'[u] \notin Act
    BY <1>18, <2>1 DEF Confirmed, TaskTo, TaskType, OneActive, Alone, Act
  <2>3. /\ topics \cup held[t].left = Patterns /\ topics \subseteq subs[conn]
        /\ Pattern(t) \in held[t].left /\ Pattern(t) \in subs[conn]
    BY <1>18, <2>1, PatternLeft DEF Confirmed, TopicsInv, Holds
  <2>4. /\ task'[t] = "subscribe" /\ topics' = topics \cup {Pattern(t)}
        /\ held'[t].left = held[t].left \ {Pattern(t)}
    BY <1>18, <2>1 DEF Confirmed, TaskTo, TaskType, HeldType
  <2>5. topics' \cup held'[t].left = Patterns /\ topics' \subseteq subs[conn]
    BY <2>3, <2>4
  <2>. QED
    BY <2>1, <2>2, <2>4, <2>5 DEF TopicsInv, Act, Shut
<1>19. ASSUME NEW t \in Tasks, Reconnected(t) PROVE TopicsInv'
  <2>. SUFFICES ASSUME Alone', ~failed' PROVE TopicsInv'
    BY Zenon DEF TopicsInv
  <2>1. Alone /\ ~failed /\ UNCHANGED <<fields, netVars, on>> /\ t \in Callers
    BY <1>19 DEF Reconnected, Alone, CloseCalled, HeldType, Nothing
  <2>2. \A u \in Callers \ {t} : task'[u] = task[u] /\ task'[u] \notin Act
    BY <1>19, <2>1 DEF Reconnected, TaskTo, TaskType, OneActive, Alone, Act
  <2>3. topics = Patterns /\ subs[conn] = Patterns
    <3>1. /\ topics \cup held[t].left = Patterns /\ topics \subseteq subs[conn]
          /\ held[t].left = {}
      BY <1>19, <2>1 DEF Reconnected, TopicsInv
    <3>2. subs[conn] \subseteq Patterns
      BY DEF NetType, FieldType
    <3>. QED
      BY <3>1, <3>2
  <2>4. task'[t] = "idle"
    BY <1>19, <2>1 DEF Reconnected, TaskTo, TaskType
  <2>. QED
    BY <2>1, <2>2, <2>3, <2>4 DEF TopicsInv, Act, Shut
<1>20. CASE Publish
  BY <1>20 DEF Publish, BeginWrite, TaskTo, FieldType, NetType, TaskType, HeldType,
     OneActive, Holds, TopicsInv, Shut, Act, Nothing, Alone, CloseCalled, Up
<1>21. CASE PublishEnd
  BY <1>21 DEF PublishEnd, EndWrite, TaskTo, FieldType, NetType, TaskType, HeldType,
     OneActive, Holds, TopicsInv, Shut, Act, Nothing, Alone, CloseCalled, Up
<1>22. CASE Published
  BY <1>22 DEF Published, ReadResponse, TaskTo, FieldType, NetType, TaskType, HeldType,
     OneActive, Holds, TopicsInv, Shut, Act, Nothing, Alone, CloseCalled, Up
<1>23. CASE ListenerReads \/ ListenerGets \/ ListenerFails
  BY <1>23 DEF ListenerReads, ListenerGets, ReadResponse, ListenerFails, FieldType, NetType,
     TaskType, HeldType, OneActive, Holds, TopicsInv, Shut, Act, Nothing, Alone,
     CloseCalled, Up
<1>24. CASE UNCHANGED vars
  BY <1>24 DEF vars, FieldType, NetType, TaskType, HeldType, OneActive, Holds, TopicsInv,
     Shut, Act, Nothing, Alone, CloseCalled, Up
<1>. QED
  BY <1>1, <1>2, <1>3, <1>4, <1>5, <1>6, <1>7, <1>8, <1>9, <1>10, <1>11, <1>12, <1>13,
     <1>14, <1>15, <1>16, <1>17, <1>18, <1>19, <1>20, <1>21, <1>22, <1>23, <1>24
     DEF Next, Running, LoopStep, TaskStep, CallerStep, Listener

\* Without a ticker and with nothing under way no step brings the connection back.
LEMMA QuitStep ==
  ASSUME RedisAssumption, FieldType, NetType, LoopType, TaskType, HeldType, Holds,
         FieldInv, ShutInv, QuitInv, [Next]_vars
  PROVE  QuitInv'
<1>. USE Names DEF fields, netVars, loops, tasks, ghosts
<1>1. ASSUME NEW d \in Dials, MakeStopper(d) PROVE QuitInv'
  BY <1>1 DEF MakeStopper, LoopTo, FieldType, NetType, LoopType, TaskType, HeldType, Holds,
     QuitInv, Shut, Busy, CloseCalled, Up
<1>2. ASSUME NEW d \in Dials, MakeTicker(d) PROVE QuitInv'
  BY <1>2 DEF MakeTicker, LoopTo, FieldType, NetType, LoopType, TaskType, HeldType, Holds,
     QuitInv, Shut, Busy, CloseCalled, Up
<1>3. ASSUME NEW d \in Dials, Select(d) PROVE QuitInv'
  BY <1>3 DEF Select, LoopTo, FieldType, NetType, LoopType, TaskType, HeldType, Holds,
     QuitInv, Shut, Busy, CloseCalled, Up
<1>4. ASSUME NEW d \in Dials, TakeTick(d) PROVE QuitInv'
  BY <1>4 DEF TakeTick, LoopTo, Deaf, FieldType, NetType, LoopType, TaskType, HeldType,
     Holds, QuitInv, Shut, Busy, CloseCalled, Up
<1>5. ASSUME NEW d \in Dials, PingBegin(d) PROVE QuitInv'
  BY <1>5 DEF PingBegin, BeginWrite, LoopTo, FieldType, NetType, LoopType, TaskType,
     HeldType, Holds, QuitInv, Shut, Busy, CloseCalled, Up
<1>6. ASSUME NEW d \in Dials, PingEnd(d) PROVE QuitInv'
  BY <1>6 DEF PingEnd, EndWrite, LoopTo, FieldType, NetType, LoopType, TaskType, HeldType,
     Holds, QuitInv, Shut, Busy, CloseCalled, Up
<1>7. ASSUME NEW d \in Dials, PingFails(d) PROVE QuitInv'
  BY <1>7 DEF PingFails, LoopTo, TaskTo, FieldType, NetType, LoopType, TaskType, HeldType,
     Holds, QuitInv, Shut, Busy, CloseCalled, Up
<1>8. ASSUME NEW d \in Dials, Break(d) PROVE QuitInv'
  BY <1>8 DEF Break, FieldType, NetType, LoopType, TaskType, HeldType, Holds, QuitInv, Shut,
     Busy, CloseCalled, Up
<1>9. CASE AppClose
  BY <1>9 DEF AppClose, TaskTo, FieldType, NetType, LoopType, TaskType, HeldType, Holds,
     QuitInv, Shut, Busy, CloseCalled, Up
<1>10. ASSUME NEW t \in Callers, CloseTicker(t) PROVE QuitInv'
  BY <1>10 DEF CloseTicker, TaskTo, FieldType, NetType, LoopType, TaskType, HeldType, Holds,
     QuitInv, Shut, Busy, CloseCalled, Up
<1>11. ASSUME NEW t \in Callers, StopLoop(t) PROVE QuitInv'
  BY <1>11 DEF StopLoop, TaskTo, LoopTo, Deaf, FieldType, NetType, LoopType, TaskType,
     HeldType, Holds, QuitInv, Shut, Busy, CloseCalled, Up
<1>12. ASSUME NEW t \in Callers, CloseConn(t) PROVE QuitInv'
  <2>. SUFFICES ASSUME quit' PROVE QuitInv'
    BY Zenon DEF QuitInv
  <2>1. ~quit
    BY <1>12 DEF QuitInv, CloseConn, Busy
  <2>2. t = App /\ Quiet
    BY <1>12, <2>1 DEF CloseConn
  <2>3. running = {} /\ CloseCalled
    BY <1>12, <2>2, Names DEF CloseConn, Quiet, ShutInv, Shut, Holds
  <2>4. task' = [task EXCEPT ![App] = "idle"] /\ Busy = {App}
    BY <1>12, <2>2 DEF CloseConn, TaskTo, Quiet
  <2>5. Busy' = {} /\ task'[App] = "idle"
    BY <2>4, Names DEF Busy, TaskType
  <2>6. net'[conn'] = "closed"
    BY <1>12 DEF CloseConn, NetType, FieldType
  <2>. QED
    BY <1>12, <2>2, <2>3, <2>5, <2>6 DEF QuitInv, CloseConn, Quiet, CloseCalled
<1>13. ASSUME NEW t \in Tasks, Dial(t) PROVE QuitInv'
  BY <1>13 DEF Dial, TaskTo, LoopTo, FieldType, NetType, LoopType, TaskType, HeldType,
     Holds, QuitInv, Shut, Busy, CloseCalled, Up
<1>14. ASSUME NEW t \in Tasks, DialFails(t) PROVE QuitInv'
  BY <1>14 DEF DialFails, Fails, TaskTo, FieldType, NetType, LoopType, TaskType, HeldType,
     Holds, QuitInv, Shut, Busy, CloseCalled, Up
<1>15. ASSUME NEW t \in Tasks, SubscribeFails(t) PROVE QuitInv'
  BY <1>15 DEF SubscribeFails, Fails, TaskTo, FieldType, NetType, LoopType, TaskType,
     HeldType, Holds, QuitInv, Shut, Busy, CloseCalled, Up
<1>16. ASSUME NEW t \in Tasks, Subscribe(t) PROVE QuitInv'
  BY <1>16 DEF Subscribe, BeginWrite, TaskTo, FieldType, NetType, LoopType, TaskType,
     HeldType, Holds, QuitInv, Shut, Busy, CloseCalled, Up
<1>17. ASSUME NEW t \in Tasks, SubscribeEnd(t) PROVE QuitInv'
  BY <1>17 DEF SubscribeEnd, EndWrite, TaskTo, FieldType, NetType, LoopType, TaskType,
     HeldType, Holds, QuitInv, Shut, Busy, CloseCalled, Up
<1>18. ASSUME NEW t \in Tasks, Confirmed(t) PROVE QuitInv'
  BY <1>18 DEF Confirmed, ReadResponse, TaskTo, FieldType, NetType, LoopType, TaskType,
     HeldType, Holds, QuitInv, Shut, Busy, CloseCalled, Up
<1>19. ASSUME NEW t \in Tasks, Reconnected(t) PROVE QuitInv'
  BY <1>19 DEF Reconnected, TaskTo, FieldType, NetType, LoopType, TaskType, HeldType, Holds,
     QuitInv, Shut, Busy, CloseCalled, Up
<1>20. CASE Publish
  BY <1>20 DEF Publish, BeginWrite, TaskTo, FieldType, NetType, LoopType, TaskType,
     HeldType, Holds, QuitInv, Shut, Busy, CloseCalled, Up
<1>21. CASE PublishEnd
  BY <1>21 DEF PublishEnd, EndWrite, TaskTo, FieldType, NetType, LoopType, TaskType,
     HeldType, Holds, QuitInv, Shut, Busy, CloseCalled, Up
<1>22. CASE Published
  BY <1>22 DEF Published, ReadResponse, TaskTo, FieldType, NetType, LoopType, TaskType,
     HeldType, Holds, QuitInv, Shut, Busy, CloseCalled, Up
<1>23. CASE ListenerReads \/ ListenerGets \/ ListenerFails
  BY <1>23 DEF ListenerReads, ListenerGets, ReadResponse, ListenerFails, FieldType, NetType,
     LoopType, TaskType, HeldType, Holds, QuitInv, Shut, Busy, CloseCalled, Up
<1>24. CASE UNCHANGED vars
  BY <1>24 DEF vars, FieldType, NetType, LoopType, TaskType, HeldType, Holds, QuitInv, Shut,
     Busy, CloseCalled, Up
<1>. QED
  BY <1>1, <1>2, <1>3, <1>4, <1>5, <1>6, <1>7, <1>8, <1>9, <1>10, <1>11, <1>12, <1>13,
     <1>14, <1>15, <1>16, <1>17, <1>18, <1>19, <1>20, <1>21, <1>22, <1>23, <1>24
     DEF Next, Running, LoopStep, TaskStep, CallerStep, Listener

-----------------------------------------------------------------------------
(* The theorems.                                                           *)

\* After Connect and PSubscribe the invariant holds.
LEMMA InitIInv ==
  ASSUME RedisAssumption, Init
  PROVE  IInv
<1>. USE Names
<1>1. TypeOK
  <2>1. 0 \in 0..MaxDials /\ 0 \in 0..MaxTries
    BY DEF RedisAssumption
  <2>2. FieldType /\ NetType /\ LoopType
    BY <2>1 DEF Init, FieldType, NetType, LoopType
  <2>3. TaskType /\ HeldType /\ GhostType
    BY <2>1 DEF Init, Nothing, TaskType, HeldType, GhostType
  <2>. QED
    BY <2>2, <2>3, TypeParts
<1>2. Busy = {} /\ \A t \in Callers : task[t] = "idle"
  BY DEF Init, Busy
<1>3. Holds
  BY <1>2 DEF Init, Holds, Nothing, RedisAssumption
<1>4. FieldInv
  BY DEF Init, FieldInv, Dials
<1>5. WatchInv
  BY DEF Init, WatchInv, Starting
<1>6. OneActive /\ ShutInv
  BY <1>2 DEF Init, OneActive, ShutInv, Act, Shut
<1>7. TopicsInv
  BY <1>2 DEF Init, TopicsInv, Act, Shut
<1>8. QuitInv
  BY DEF Init, QuitInv
<1>. QED
  BY <1>1, <1>3, <1>4, <1>5, <1>6, <1>7, <1>8 DEF IInv

\* Every step preserves it.
LEMMA StepIInv ==
  ASSUME RedisAssumption, IInv, [Next]_vars
  PROVE  IInv'
<1>1. TypeOK'
  BY TypeParts, FieldStep, NetStep, LoopTStep, TaskTStep, HeldStep, GhostStep DEF IInv
<1>2. Holds' /\ FieldInv' /\ WatchInv'
  BY TypeParts, HoldsStep, FieldInvStep, WatchStep DEF IInv
<1>3. OneActive' /\ ShutInv'
  BY TypeParts, OneStep, ShutStep DEF IInv
<1>4. TopicsInv' /\ QuitInv'
  BY TypeParts, TopicsStep, QuitStep DEF IInv
<1>. QED
  BY <1>1, <1>2, <1>3, <1>4 DEF IInv

\* The invariant holds in every reachable state.
LEMMA Invariance == Spec => []IInv
<1>1. Init => IInv
  BY RedisAssumption, InitIInv
<1>2. IInv /\ [Next]_vars => IInv'
  BY RedisAssumption, StepIInv
<1>. QED
  BY <1>1, <1>2, PTL DEF Spec

\* Every variable of the Redis client keeps its type.
THEOREM TypeCorrect == Spec => []TypeOK
<1>1. IInv => TypeOK
  BY DEF IInv
<1>. QED
  BY <1>1, Invariance, PTL

\* The topics and the patterns a client is subscribed to survive every number of
\* reconnections that succeed (redis/client.go, Reconnect and PSubscribe).
THEOREM TopicsAlwaysKept == Spec => []TopicsKept
<1>1. IInv => TopicsKept
  <2>. SUFFICES ASSUME IInv, Alone, ~failed, Busy = {}
                PROVE  topics = Patterns /\ (Up(conn) => subs[conn] = Patterns)
    BY DEF TopicsKept
  <2>1. \A t \in Callers : task[t] \notin Act
    BY DEF Busy, Act, Shut
  <2>. QED
    BY <2>1 DEF IInv, TopicsInv
<1>. QED
  BY <1>1, Invariance, PTL

\* However many loops older dials have left behind, and whatever attempts have
\* failed, a loop watches the connection (redis/client.go, livelinessLoop).
THEOREM AlwaysWatched == Spec => []Watched
<1>1. IInv => Watched
  <2>. SUFFICES ASSUME IInv, Alone, ~gaveUp, Busy = {} PROVE \E d \in Dials : Watches(d)
    BY DEF Watched
  <2>1. \A t \in Tasks : task[t] \notin {"copy"} \cup Shut
    BY DEF Busy, Shut, Callers
  <2>2. pingTicker \in running \/ Starting
    BY <2>1 DEF IInv, WatchInv, Alone
  <2>3. CASE Starting
    BY <2>3 DEF Starting, Watches
  <2>4. CASE pingTicker \in running
    <3>1. pingTicker \in Dials /\ loop[pingTicker] # "none"
      BY <2>4, TypeParts DEF IInv, FieldType, FieldInv
    <3>2. loop[pingTicker] = "select" => listen[pingTicker].ticker = pingTicker
      BY <2>4 DEF IInv, FieldInv
    <3>. QED
      BY <2>4, <3>1, <3>2 DEF Watches
  <2>. QED
    BY <2>2, <2>3, <2>4
<1>. QED
  BY <1>1, Invariance, PTL

\* The send of Close to the stopper (redis/client.go 199) always has a loop that
\* is going to receive it: the loop whose stopper the field holds.
THEOREM CloserAlwaysHeard == Spec => []CloserHeard
<1>1. IInv => CloserHeard
  <2>. SUFFICES ASSUME IInv, ~overlapped, ~early, NEW t \in Callers, task[t] = "stop"
                PROVE  Heard(t)
    BY DEF CloserHeard
  <2>1. held[t].stopper = pingStopper /\ pingStopper # 0 /\ ~Starting
    BY DEF IInv, ShutInv, Shut
  <2>2. pingStopper \in Dials
    BY <2>1, TypeParts, RedisAssumption DEF IInv, FieldType, Dials
  <2>3. /\ loop[pingStopper] \notin {"none", "new", "ticker"}
        /\ loop[pingStopper] = "select" => listen[pingStopper].stopper = pingStopper
    BY <2>1, <2>2 DEF IInv, FieldInv, Starting
  <2>. QED
    BY <2>1, <2>2, <2>3 DEF Heard
<1>. QED
  BY <1>1, Invariance, PTL

\* After a Close that found nothing under way the loops, none of which has ended,
\* never bring the connection back.
THEOREM StaysClosed == Spec => []ClosedForGood
<1>1. IInv => ClosedForGood
  BY DEF IInv, QuitInv, ClosedForGood
<1>. QED
  BY <1>1, Invariance, PTL
=============================================================================
