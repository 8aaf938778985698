--------------------------- MODULE WebSocketProofs ---------------------------
(***************************************************************************)
(* Safety of WebSocket for any number of connections, topics and posts.    *)
(*                                                                         *)
(* The inductive invariant IInv adds three facts to what the runs check:   *)
(* who has closed a connection (Closers), that a loop calls the handler at *)
(* most once (Counted), and that a connection without a late join has left *)
(* the pool with the first call (Gone).                                    *)
(***************************************************************************)
EXTENDS WebSocket, SequenceTheorems, TLAPS

ConnType ==
  /\ at \in [Conns -> [Loops -> Stages("reader") \cup Stages("writer")]]
  /\ \A c \in Conns, l \in Loops : at[c][l] \in Stages(l)
  /\ link \in [Conns -> {"none", "up", "broken", "closed"}]
  /\ frames \in [Conns -> 0..MaxFrames]
  /\ queue \in [Conns -> Seq(Posts \cup {"ok"})]
  /\ \A c \in Conns : Len(queue[c]) <= Cap
  /\ writing \in [Conns -> Posts \cup {"ok", "ping", "close", Nil}]
  /\ closed \in [Conns -> BOOLEAN]
PoolType ==
  /\ topics \in [Topics -> SUBSET Conns]
  /\ pointers \in [Conns -> Seq(Topics)]
PostType ==
  /\ mu \in [Conns -> Posts \cup {Nil}]
  /\ todo \in [Posts -> SUBSET Conns]
  /\ sending \in [Posts -> Conns \cup {Nil}]
  /\ audience \in [Posts -> (SUBSET Conns) \cup {Nil}]
HistoryType ==
  /\ got \in [Conns -> SUBSET Posts]
  /\ calls \in [Conns -> Nat]
  /\ late \subseteq Conns /\ byApp \subseteq Conns
  /\ crashed \in BOOLEAN

\* TypeOK in four parts.
LEMMA TypeParts ==
  /\ TypeOK <=> ConnType /\ PoolType /\ PostType /\ HistoryType
  /\ TypeOK' <=> ConnType' /\ PoolType' /\ PostType' /\ HistoryType'
  BY DEF TypeOK, ConnType, PoolType, PostType, HistoryType

\* The new place of a loop is one of its own.
LEMMA GotoType ==
  ASSUME ConnType, NEW c \in Conns, NEW l \in Loops, NEW s \in Stages(l), Goto(c, l, s)
  PROVE  /\ at' \in [Conns -> [Loops -> Stages("reader") \cup Stages("writer")]]
         /\ \A d \in Conns, k \in Loops : at'[d][k] \in Stages(k)
         /\ \A d \in Conns, k \in Loops :
              at'[d][k] = IF d = c /\ k = l THEN s ELSE at[d][k]
<1>1. l \in {"reader", "writer"} /\ s \in Stages("reader") \cup Stages("writer")
  BY DEF Loops
<1>2. at' = [at EXCEPT ![c] = [at[c] EXCEPT ![l] = s]]
  BY DEF Goto
<1>3. at'[c] = [at[c] EXCEPT ![l] = s] /\ \A d \in Conns \ {c} : at'[d] = at[d]
  BY <1>2 DEF ConnType
<1>4. at[c] \in [Loops -> Stages("reader") \cup Stages("writer")]
  BY DEF ConnType
<1>5. /\ at'[c] \in [Loops -> Stages("reader") \cup Stages("writer")]
      /\ \A k \in Loops : at'[c][k] = IF k = l THEN s ELSE at[c][k]
  BY <1>1, <1>3, <1>4
<1>6. at' \in [Conns -> [Loops -> Stages("reader") \cup Stages("writer")]]
  BY <1>2, <1>3, <1>5 DEF ConnType
<1>7. \A d \in Conns, k \in Loops : at'[d][k] = IF d = c /\ k = l THEN s ELSE at[d][k]
  BY <1>3, <1>5
<1>. QED
  BY <1>6, <1>7 DEF ConnType

\* A panic only ends the program.
LEMMA PanicType == ASSUME TypeOK, Panic PROVE TypeOK'
  BY DEF TypeOK, Panic, connVars, poolVars, postVars, history

\* A channel that has room takes a message.
LEMMA QueueType ==
  ASSUME WebSocketAssumption, ConnType, NEW c \in Conns,
         NEW m \in Posts \cup {"ok"}, Len(queue[c]) < Cap,
         queue' = [queue EXCEPT ![c] = Append(@, m)]
  PROVE  /\ queue' \in [Conns -> Seq(Posts \cup {"ok"})]
         /\ \A d \in Conns : Len(queue'[d]) <= Cap
<1>1. /\ Append(queue[c], m) \in Seq(Posts \cup {"ok"})
      /\ Len(Append(queue[c], m)) = Len(queue[c]) + 1
      /\ Len(queue[c]) \in Nat
  BY AppendProperties, LenProperties DEF ConnType
<1>2. Len(queue[c]) + 1 <= Cap
  BY <1>1 DEF WebSocketAssumption
<1>. QED
  BY <1>1, <1>2 DEF ConnType
-----------------------------------------------------------------------------
(* Types.                                                                  *)

\* The actions of a connection keep the types.
LEMMA TypeConn ==
  ASSUME WebSocketAssumption, TypeOK, NEW c \in Conns,
         \/ Open(c) \/ PeerGone(c) \/ AppClose(c)
         \/ ReadFrame(c) \/ Reply(c) \/ ReadFails(c)
         \/ WriteData(c) \/ Ping(c) \/ WriteClose(c) \/ Return(c)
         \/ \E l \in Loops : Deferred(c, l)
  PROVE  TypeOK'
<1>0. ConnType /\ PoolType /\ PostType /\ HistoryType
  BY TypeParts
<1>a. "reader" \in Loops /\ "writer" \in Loops
  BY DEF Loops
<1>1. CASE Open(c)
  <2>1. at' \in [Conns -> [Loops -> Stages("reader") \cup Stages("writer")]]
        /\ \A d \in Conns, l \in Loops : at'[d][l] \in Stages(l)
    BY <1>0, <1>1 DEF Open, ConnType, Stages, Loops
  <2>. QED
    BY <1>0, <1>1, <2>1, TypeParts DEF Open, ConnType, PoolType, PostType,
       HistoryType, poolVars, postVars, history
<1>2. CASE PeerGone(c)
  BY <1>0, <1>2, TypeParts DEF PeerGone, ConnType, PoolType, PostType,
     HistoryType, poolVars, postVars, history
<1>3. CASE AppClose(c)
  BY <1>0, <1>3, TypeParts DEF AppClose, ConnType, PoolType, PostType,
     HistoryType, poolVars, postVars
<1>4. CASE ReadFrame(c)
  <2>1. Goto(c, "reader", "reply") /\ "reply" \in Stages("reader")
    BY <1>4 DEF ReadFrame, Stages
  <2>2. frames' \in [Conns -> 0..MaxFrames]
    BY <1>0, <1>4 DEF ReadFrame, ConnType, WebSocketAssumption
  <2>3. ConnType'
    BY <1>0, <1>4, <1>a, <2>1, <2>2, GotoType DEF ReadFrame, ConnType
  <2>4. PoolType' /\ late' \subseteq Conns
    <3>1. CASE UNCHANGED <<poolVars, late>>
      BY <1>0, <3>1 DEF PoolType, HistoryType, poolVars
    <3>2. CASE \E t \in Topics : Subscribe(c, t) /\ late' = IF calls[c] > 0 THEN late \cup {c} ELSE late
      <4>1. PICK t \in Topics : Subscribe(c, t) /\ late' = IF calls[c] > 0 THEN late \cup {c} ELSE late
        BY <3>2
      <4>2. Append(pointers[c], t) \in Seq(Topics)
        BY <1>0, AppendProperties DEF PoolType
      <4>. QED
        BY <1>0, <4>1, <4>2 DEF Subscribe, PoolType, HistoryType
    <3>. QED
      BY <1>4, <3>1, <3>2 DEF ReadFrame
  <2>. QED
    BY <1>0, <1>4, <2>3, <2>4, TypeParts, SMTT(30) DEF ReadFrame, PostType, HistoryType, postVars
<1>5. CASE Reply(c)
  <2>1. CASE Panic
    BY <2>1, PanicType
  <2>2. CASE ~Panic
    <3>1. Goto(c, "reader", "read") /\ "read" \in Stages("reader")
      BY <1>5, <2>2 DEF Reply, Stages
    <3>2. ConnType'
      BY <1>0, <1>5, <1>a, <2>2, <3>1, GotoType, QueueType DEF Reply, ConnType
    <3>. QED
      BY <1>0, <1>5, <2>2, <3>2, TypeParts DEF Reply, PoolType, PostType, HistoryType,
         poolVars, postVars, history
  <2>. QED
    BY <2>1, <2>2
<1>6. CASE ReadFails(c)
  <2>1. Goto(c, "reader", "check") /\ "check" \in Stages("reader")
    BY <1>6 DEF ReadFails, Stages
  <2>2. ConnType'
    BY <1>0, <1>6, <1>a, <2>1, GotoType DEF ReadFails, ConnType
  <2>. QED
    BY <1>0, <1>6, <2>2, TypeParts DEF ReadFails, PoolType, PostType, HistoryType,
       poolVars, postVars, history
<1>7. ASSUME NEW m,
             \/ m = Head(queue[c]) /\ WriteData(c)
             \/ m = "ping" /\ Ping(c)
             \/ m = "close" /\ WriteClose(c)
      PROVE  TypeOK'
  <2>1. /\ Write(c, m) /\ m \in Posts \cup {"ok", "ping", "close"}
        /\ queue' \in [Conns -> Seq(Posts \cup {"ok"})]
        /\ \A d \in Conns : Len(queue'[d]) <= Cap
    <3>1. CASE m = Head(queue[c]) /\ WriteData(c)
      <4>1. queue[c] \in Seq(Posts \cup {"ok"}) /\ queue[c] # <<>>
        BY <1>0, <3>1 DEF WriteData, ConnType
      <4>2. /\ Head(queue[c]) \in Posts \cup {"ok"} /\ Tail(queue[c]) \in Seq(Posts \cup {"ok"})
            /\ Len(Tail(queue[c])) = Len(queue[c]) - 1 /\ Len(queue[c]) \in Nat
        BY <4>1, HeadTailProperties, LenProperties
      <4>. QED
        BY <1>0, <3>1, <4>2 DEF WriteData, ConnType, WebSocketAssumption
    <3>2. CASE (m = "ping" /\ Ping(c)) \/ (m = "close" /\ WriteClose(c))
      BY <1>0, <3>2 DEF Ping, WriteClose, ConnType
    <3>. QED
      BY <1>7, <3>1, <3>2
  <2>2. Goto(c, "writer", "write") /\ "write" \in Stages("writer")
    BY <2>1 DEF Write, Stages
  <2>3. ConnType'
    BY <1>0, <1>a, <2>1, <2>2, GotoType DEF Write, ConnType
  <2>. QED
    BY <1>0, <2>1, <2>3, TypeParts DEF Write, PoolType, PostType, HistoryType,
       poolVars, postVars, history
<1>8. CASE Return(c)
  <2>1. /\ \E s \in {"select", "check"} : Goto(c, "writer", s)
        /\ writing' = [writing EXCEPT ![c] = Nil]
        /\ UNCHANGED <<frames, queue, closed, mu, poolVars, postVars, calls, late, byApp, crashed>>
    BY <1>8 DEF Return, Written, WrittenClose, history
  <2>2. {"select", "check"} \subseteq Stages("writer")
    BY DEF Stages
  <2>3. link' \in [Conns -> {"none", "up", "broken", "closed"}]
    BY <1>0, <1>8 DEF Return, Written, WrittenClose, ConnType
  <2>4. got' \in [Conns -> SUBSET Posts]
    BY <1>0, <1>8 DEF Return, Written, WrittenClose, HistoryType, history
  <2>5. ConnType'
    BY <1>0, <1>a, <2>1, <2>2, <2>3, GotoType DEF ConnType
  <2>. QED
    BY <1>0, <2>1, <2>4, <2>5, TypeParts DEF PoolType, PostType, HistoryType,
       poolVars, postVars
<1>9. ASSUME NEW l \in Loops, Deferred(c, l) PROVE TypeOK'
  <2>1. {"done", "handler", "close"} \subseteq Stages(l)
    BY DEF Stages
  <2>2. CASE Check(c, l)
    <3>1. PICK s \in Stages(l) : Goto(c, l, s)
      BY <2>1, <2>2 DEF Check
    <3>2. ConnType'
      BY <1>0, <2>2, <3>1, GotoType DEF Check, ConnType
    <3>. QED
      BY <1>0, <2>2, <3>2, TypeParts DEF Check, PoolType, PostType, HistoryType,
         poolVars, postVars, history
  <2>3. CASE Handle(c, l)
    <3>1. Goto(c, l, "close")
      BY <2>3 DEF Handle
    <3>2. ConnType'
      BY <1>0, <2>1, <2>3, <3>1, GotoType DEF Handle, ConnType
    <3>3. PoolType'
      BY <1>0, <2>3, EmptySeq DEF Handle, Remove, PoolType
    <3>. QED
      BY <1>0, <2>3, <3>2, <3>3, TypeParts DEF Handle, PostType, HistoryType, postVars
  <2>4. CASE DeferredClose(c, l)
    <3>1. Goto(c, l, "done")
      BY <2>4 DEF DeferredClose
    <3>2. ConnType'
      BY <1>0, <2>1, <2>4, <3>1, GotoType DEF DeferredClose, ConnType
    <3>. QED
      BY <1>0, <2>4, <3>2, TypeParts DEF DeferredClose, PoolType, PostType, HistoryType,
         poolVars, postVars, history
  <2>. QED
    BY <1>9, <2>2, <2>3, <2>4 DEF Deferred
<1>. QED
  BY <1>1, <1>2, <1>3, <1>4, <1>5, <1>6, <1>7, <1>8, <1>9

\* Publish and Send keep the types.
LEMMA TypePost ==
  ASSUME WebSocketAssumption, TypeOK, NEW p \in Posts,
         Post(p) \/ \E t \in Topics, x \in Excepts : Publish(p, t, x)
  PROVE  TypeOK'
<1>0. ConnType /\ PoolType /\ PostType /\ HistoryType
  BY TypeParts
<1>1. ASSUME NEW t \in Topics, NEW x \in Excepts, Publish(p, t, x) PROVE TypeOK'
  <2>1. PostType'
    BY <1>0, <1>1 DEF Publish, PostType, PoolType
  <2>. QED
    BY <1>0, <1>1, <2>1, TypeParts DEF Publish, ConnType, PoolType, HistoryType,
       connVars, poolVars, history
<1>2. ASSUME NEW c \in Conns, SendLock(p, c) PROVE TypeOK'
  <2>1. PostType'
    BY <1>0, <1>2 DEF SendLock, PostType
  <2>. QED
    BY <1>0, <1>2, <2>1, TypeParts DEF SendLock, ConnType, PoolType, HistoryType,
       connVars, poolVars, history
<1>3. CASE SendPush(p)
  <2>1. CASE Panic
    BY <2>1, PanicType
  <2>2. CASE ~Panic
    <3>1. sending[p] \in Conns
      BY <1>0, <1>3 DEF SendPush, PostType
    <3>2. ConnType'
      BY <1>0, <1>3, <2>2, <3>1, QueueType DEF SendPush, ConnType
    <3>3. PostType'
      BY <1>0, <1>3, <2>2, <3>1 DEF SendPush, PostType
    <3>. QED
      BY <1>0, <1>3, <2>2, <3>2, <3>3, TypeParts DEF SendPush, PoolType, HistoryType,
         poolVars, history
  <2>. QED
    BY <2>1, <2>2
<1>. QED
  BY <1>1, <1>2, <1>3 DEF Post
-----------------------------------------------------------------------------
(* The two maps of the pool.                                               *)

\* What joins and the close handler do to the maps keeps them in agreement.
LEMMA TopicsKeep ==
  ASSUME PoolType, TopicsAgree, NEW c \in Conns,
         Remove(c) \/ \E t \in Topics : Subscribe(c, t)
  PROVE  TopicsAgree'
<1>1. CASE Remove(c)
  <2>1. pointers'[c] = <<>> /\ \A d \in Conns \ {c} : pointers'[d] = pointers[d]
    BY <1>1 DEF Remove, PoolType
  <2>2. \A d \in Conns, t \in Topics : d \in topics'[t] <=> d \in topics[t] /\ d # c
    BY <1>1 DEF Remove, PoolType, TopicsAgree
  <2>3. \A t \in Topics : t \notin Pointed(c)'
    BY <2>1 DEF Pointed
  <2>4. \A d \in Conns \ {c} : Pointed(d)' = Pointed(d)
    BY <2>1 DEF Pointed
  <2>. QED
    BY <2>2, <2>3, <2>4 DEF TopicsAgree
<1>2. ASSUME NEW t \in Topics, Subscribe(c, t) PROVE TopicsAgree'
  <2>1. /\ pointers'[c] = Append(pointers[c], t) /\ pointers[c] \in Seq(Topics)
        /\ \A d \in Conns \ {c} : pointers'[d] = pointers[d]
    BY <1>2 DEF Subscribe, PoolType
  <2>2. \A d \in Conns, u \in Topics :
          d \in topics'[u] <=> d \in topics[u] \/ (d = c /\ u = t)
    BY <1>2 DEF Subscribe, PoolType
  <2>3. Pointed(c)' = Pointed(c) \cup {t}
    <3>1. /\ Len(pointers[c]) \in Nat /\ Len(pointers'[c]) = Len(pointers[c]) + 1
          /\ DOMAIN pointers[c] = 1..Len(pointers[c])
          /\ DOMAIN pointers'[c] = 1..(Len(pointers[c]) + 1)
          /\ \A i \in 1..Len(pointers[c]) : pointers'[c][i] = pointers[c][i]
          /\ pointers'[c][Len(pointers[c]) + 1] = t
      BY <2>1, AppendProperties, LenProperties
    <3>. QED
      BY <3>1, SMTT(30) DEF Pointed
  <2>4. \A d \in Conns \ {c} : Pointed(d)' = Pointed(d)
    BY <2>1 DEF Pointed
  <2>. QED
    BY <2>2, <2>3, <2>4 DEF TopicsAgree
<1>. QED
  BY <1>1, <1>2

\* Every step either keeps the maps or is a join or a call of the close handler.
LEMMA PoolFrame ==
  ASSUME [Next]_vars
  PROVE  \/ UNCHANGED poolVars
         \/ \E c \in Conns : Remove(c) \/ \E t \in Topics : Subscribe(c, t)
<1>1. ASSUME NEW c \in Conns, ReadFrame(c) \/ \E l \in Loops : Handle(c, l)
      PROVE  UNCHANGED poolVars \/ Remove(c) \/ \E t \in Topics : Subscribe(c, t)
  BY <1>1 DEF ReadFrame, Handle
<1>2. ASSUME NEW c \in Conns,
             Open(c) \/ PeerGone(c) \/ AppClose(c) \/ Reply(c) \/ ReadFails(c)
               \/ WriteData(c) \/ Ping(c) \/ WriteClose(c) \/ Return(c)
      PROVE  UNCHANGED poolVars
  BY <1>2 DEF Open, PeerGone, AppClose, Reply, Panic, ReadFails, WriteData, Ping,
     WriteClose, Write, Return, Written, WrittenClose
<1>3. ASSUME NEW c \in Conns, NEW l \in Loops, Check(c, l) \/ DeferredClose(c, l)
      PROVE  UNCHANGED poolVars
  BY <1>3 DEF Check, DeferredClose
<1>4. ASSUME NEW p \in Posts,
             Post(p) \/ \E t \in Topics, x \in Excepts : Publish(p, t, x)
      PROVE  UNCHANGED poolVars
  BY <1>4 DEF Post, SendPush, SendLock, Publish, Panic
<1>5. UNCHANGED vars => UNCHANGED poolVars
  BY DEF vars
<1>. QED
  BY <1>1, <1>2, <1>3, <1>4, <1>5 DEF Next, Writer, Select, Deferred, Loops
-----------------------------------------------------------------------------
(* Sends to a closed channel.                                              *)

\* A Send that waits holds the mutex of a connection that is open.
Sends ==
  \A p \in Posts : sending[p] # Nil =>
    mu[sending[p]] = p /\ ~closed[sending[p]]

\* Send takes and gives back the mutex, so Sends stays and Send does not panic.
LEMMA SendKeeps ==
  ASSUME WebSocketAssumption, TypeOK, Sends, NEW p \in Posts, Post(p)
  PROVE  Sends' /\ ~Panic
<1>0. PostType /\ ConnType
  BY TypeParts
<1>1. CASE SendPush(p)
  <2>1. sending[p] \in Conns /\ mu[sending[p]] = p /\ ~closed[sending[p]]
    BY <1>0, <1>1 DEF SendPush, PostType, Sends
  <2>2. /\ mu' = [mu EXCEPT ![sending[p]] = Nil]
        /\ sending' = [sending EXCEPT ![p] = Nil] /\ UNCHANGED closed /\ UNCHANGED crashed
    BY <1>1, <2>1 DEF SendPush
  <2>3. ~Panic
    BY <1>0, <1>1, <2>1 DEF SendPush, Panic, postVars, PostType, WebSocketAssumption
  <2>4. Sends'
    BY <1>0, <2>1, <2>2 DEF Sends, PostType
  <2>. QED
    BY <2>3, <2>4
<1>2. ASSUME NEW c \in Conns, SendLock(p, c) PROVE Sends' /\ ~Panic
  <2>1. ~Panic
    BY <1>0, <1>2 DEF SendLock, Panic, postVars, PostType
  <2>2. CASE closed[c]
    BY <1>0, <1>2, <2>1, <2>2 DEF SendLock, Sends, PostType, connVars
  <2>3. CASE ~closed[c]
    <3>1. /\ sending[p] = Nil /\ mu[c] = Nil /\ closed' = closed
          /\ mu' = [mu EXCEPT ![c] = p] /\ sending' = [sending EXCEPT ![p] = c]
      BY <1>2, <2>3 DEF SendLock, connVars
    <3>2. \A q \in Posts \ {p} : sending[q] # c
      BY <1>0, <3>1 DEF Sends, PostType, WebSocketAssumption
    <3>. QED
      BY <1>0, <2>1, <2>3, <3>1, <3>2 DEF Sends, PostType
  <2>. QED
    BY <2>2, <2>3
<1>. QED
  BY <1>1, <1>2 DEF Post

\* Every step keeps OnlyReplyPanics.
THEOREM PanicStep ==
  ASSUME WebSocketAssumption, TypeOK, OnlyReplyPanics, [Next]_vars
  PROVE  OnlyReplyPanics'
<1>0. PostType /\ ConnType /\ Sends
  BY TypeParts DEF OnlyReplyPanics, Sends
<1>. SUFFICES Sends' /\ (crashed' => \E c \in Conns : at'[c]["reader"] = "reply" /\ closed'[c])
  BY DEF OnlyReplyPanics, Sends
<1>1. ASSUME UNCHANGED <<mu, sending>>,
             \A c \in Conns : closed'[c] => closed[c] \/ mu[c] = Nil
      PROVE  Sends'
  <2>1. \A p \in Posts : sending[p] # Nil => sending[p] \in Conns /\ mu[sending[p]] # Nil
    BY <1>0 DEF PostType, Sends, WebSocketAssumption
  <2>. QED
    BY <1>0, <1>1, <2>1 DEF Sends
<1>2. CASE UNCHANGED vars
  BY <1>0, <1>1, <1>2 DEF vars, connVars, poolVars, postVars, OnlyReplyPanics
<1>3. ASSUME ~crashed, NEW p \in Posts, Post(p) PROVE Sends' /\ ~crashed'
  <2>1. Sends' /\ ~Panic
    BY <1>0, <1>3, SendKeeps
  <2>. QED
    BY <1>3, <2>1 DEF Post, SendPush, SendLock
<1>4. ASSUME ~crashed, NEW p \in Posts, NEW t \in Topics, NEW x \in Excepts, Publish(p, t, x)
      PROVE  Sends' /\ ~crashed'
  BY <1>1, <1>4 DEF Publish, connVars
<1>5. ASSUME ~crashed, NEW c \in Conns, Reply(c), Panic
      PROVE  Sends' /\ \E d \in Conns : at'[d]["reader"] = "reply" /\ closed'[d]
  <2>1. at[c]["reader"] = "reply" /\ UNCHANGED <<at, closed, mu, sending>>
    BY <1>5 DEF Reply, Panic, connVars, postVars
  <2>2. closed[c]
    BY <1>5, <2>1 DEF Reply, Panic, ConnType, connVars
  <2>. QED
    BY <1>1, <2>1, <2>2
<1>6. ASSUME ~crashed, NEW c \in Conns,
             \/ Open(c) \/ PeerGone(c) \/ ReadFrame(c) \/ ReadFails(c) \/ WriteData(c)
             \/ Ping(c) \/ WriteClose(c) \/ Return(c) \/ (Reply(c) /\ ~Panic)
             \/ \E l \in Loops : Check(c, l) \/ Handle(c, l)
      PROVE  Sends' /\ ~crashed'
  <2>1. UNCHANGED <<closed, mu, sending, crashed>>
    BY <1>6 DEF Open, PeerGone, ReadFrame, ReadFails, WriteData, Ping, WriteClose,
       Write, Return, Written, WrittenClose, Reply, Check, Handle, postVars
  <2>. QED
    BY <1>1, <1>6, <2>1
<1>7. ASSUME ~crashed, NEW c \in Conns,
             AppClose(c) \/ \E l \in Loops : DeferredClose(c, l)
      PROVE  Sends' /\ ~crashed'
  <2>1. /\ mu[c] = Nil /\ UNCHANGED <<mu, sending, crashed>>
        /\ closed' = [closed EXCEPT ![c] = TRUE]
    BY <1>7 DEF AppClose, DeferredClose, postVars
  <2>. QED
    BY <1>0, <1>1, <1>7, <2>1 DEF ConnType
<1>. QED
  BY <1>2, <1>3, <1>4, <1>5, <1>6, <1>7 DEF Next, Writer, Select, Deferred, Loops
-----------------------------------------------------------------------------
(* The close handler.                                                      *)

\* Whoever closes a connection has called its close handler before, unless it is
\* the application; and a loop is done only when the connection is closed.
Closers ==
  \A c \in Conns :
    /\ \A l \in Loops : at[c][l] = "done" => closed[c]
    /\ \A l \in Loops : at[c][l] = "close" => calls[c] >= 1
    /\ closed[c] /\ c \notin byApp => calls[c] >= 1

\* A loop calls the handler at most once, when it leaves "handler".
Passed(c, l) == IF at[c][l] \in {"close", "done"} THEN 1 ELSE 0
Counted == \A c \in Conns : calls[c] <= Passed(c, "reader") + Passed(c, "writer")

\* A connection nobody has opened has no loops.
Fresh == \A c \in Conns : link[c] = "none" => \A l \in Loops : at[c][l] = "none"

\* The first call removes the connection from the pool for good, up to a late join.
Gone == \A c \in Conns : calls[c] >= 1 /\ c \notin late => pointers[c] = <<>>

HandlerInv == Closers /\ Counted /\ Fresh /\ Gone

\* A connection whose loops only move between stages before "close".
LEMMA MoveKeeps ==
  ASSUME ConnType, HistoryType, HandlerInv, NEW c \in Conns, NEW l \in Loops,
         NEW s \in Stages(l) \ {"close", "done"}, Goto(c, l, s),
         at[c][l] \notin {"none", "close", "done"},
         \A d \in Conns : link'[d] = "none" => link[d] = "none",
         UNCHANGED <<closed, pointers, calls, late, byApp>>
  PROVE  HandlerInv'
<1>1. \A d \in Conns, k \in Loops : at'[d][k] = IF d = c /\ k = l THEN s ELSE at[d][k]
  BY GotoType
<1>2. Closers'
  BY <1>1 DEF HandlerInv, Closers
<1>3. Counted'
  <2>1. \A d \in Conns, k \in Loops : Passed(d, k)' = Passed(d, k)
    BY <1>1 DEF Passed
  <2>. QED
    BY <2>1 DEF HandlerInv, Counted, Loops
<1>4. Fresh'
  BY <1>1 DEF HandlerInv, Fresh
<1>5. Gone'
  BY DEF HandlerInv, Gone
<1>. QED
  BY <1>2, <1>3, <1>4, <1>5 DEF HandlerInv

\* A step that leaves all of it alone.
LEMMA SameKeeps ==
  ASSUME HandlerInv, UNCHANGED <<at, closed, pointers, calls, late, byApp>>,
         \A d \in Conns : link'[d] = "none" => link[d] = "none"
  PROVE  HandlerInv'
  BY DEF HandlerInv, Closers, Counted, Passed, Fresh, Gone

\* Every step keeps HandlerInv.
THEOREM HandlerStep ==
  ASSUME WebSocketAssumption, TypeOK, HandlerInv, [Next]_vars
  PROVE  HandlerInv'
<1>0. ConnType /\ PoolType /\ HistoryType
  BY TypeParts
<1>a. "reader" \in Loops /\ "writer" \in Loops /\ Loops = {"reader", "writer"}
  BY DEF Loops
<1>b. /\ {"read", "reply", "check"} \subseteq Stages("reader") \ {"close", "done"}
      /\ \A l \in Loops : {"check", "handler", "close", "done"} \subseteq Stages(l)
  BY DEF Stages
<1>c. \A d \in Conns : calls[d] \in Nat /\ (\A l \in Loops : Passed(d, l) \in {0, 1})
  BY <1>0 DEF HistoryType, Passed
<1>1. CASE UNCHANGED vars
  BY <1>1, SameKeeps DEF vars, connVars, poolVars, history
<1>2. ASSUME NEW p \in Posts,
             Post(p) \/ \E t \in Topics, x \in Excepts : Publish(p, t, x)
      PROVE  HandlerInv'
  <2>1. UNCHANGED <<at, link, closed, pointers, calls, late, byApp>>
    BY <1>2 DEF Post, SendPush, SendLock, Publish, Panic, connVars, poolVars, history
  <2>. QED
    BY <2>1, SameKeeps
<1>3. ASSUME NEW c \in Conns, Open(c) PROVE HandlerInv'
  <2>1. /\ at' = [at EXCEPT ![c] = [reader |-> "read", writer |-> "select"]]
        /\ link[c] = "none" /\ link' = [link EXCEPT ![c] = "up"]
        /\ UNCHANGED <<closed, pointers, calls, late, byApp>>
    BY <1>3 DEF Open, poolVars, history
  <2>2. /\ \A l \in Loops : at[c][l] = "none" /\ at'[c][l] \in {"read", "select"}
        /\ \A d \in Conns \ {c} : at'[d] = at[d]
    BY <1>0, <1>a, <2>1 DEF HandlerInv, Fresh, ConnType
  <2>3. Closers'
    BY <2>1, <2>2 DEF HandlerInv, Closers
  <2>4. \A d \in Conns, l \in Loops : Passed(d, l)' = Passed(d, l)
    BY <2>2 DEF Passed
  <2>5. Counted'
    BY <1>a, <2>1, <2>4 DEF HandlerInv, Counted
  <2>6. Fresh' /\ Gone'
    BY <1>0, <2>1, <2>2 DEF HandlerInv, Fresh, Gone, ConnType
  <2>. QED
    BY <2>3, <2>5, <2>6 DEF HandlerInv
<1>4. ASSUME NEW c \in Conns, PeerGone(c) PROVE HandlerInv'
  BY <1>0, <1>4, SameKeeps DEF PeerGone, ConnType, poolVars, history
<1>5. ASSUME NEW c \in Conns, AppClose(c) PROVE HandlerInv'
  <2>1. /\ UNCHANGED <<at, link, pointers, calls, late>>
        /\ closed' = [closed EXCEPT ![c] = TRUE] /\ byApp' = byApp \cup {c}
    BY <1>5 DEF AppClose, poolVars
  <2>2. Closers'
    BY <1>0, <2>1 DEF HandlerInv, Closers, ConnType
  <2>. QED
    BY <2>1, <2>2 DEF HandlerInv, Counted, Passed, Fresh, Gone
<1>6. ASSUME NEW c \in Conns, ReadFrame(c) PROVE HandlerInv'
  <2>1. /\ Goto(c, "reader", "reply") /\ at[c]["reader"] = "read"
        /\ UNCHANGED <<link, closed, calls, byApp>>
    BY <1>6 DEF ReadFrame
  <2>2. CASE UNCHANGED <<pointers, late>>
    BY <1>0, <1>a, <1>b, <2>1, <2>2, MoveKeeps
  <2>3. CASE ~UNCHANGED <<pointers, late>>
    <3>1. PICK t \in Topics :
            Subscribe(c, t) /\ late' = IF calls[c] > 0 THEN late \cup {c} ELSE late
      BY <1>6, <2>3 DEF ReadFrame, poolVars
    <3>2. \A d \in Conns, l \in Loops :
            at'[d][l] = IF d = c /\ l = "reader" THEN "reply" ELSE at[d][l]
      BY <1>0, <1>a, <1>b, <2>1, GotoType
    <3>3. Closers'
      BY <2>1, <3>2 DEF HandlerInv, Closers
    <3>4. \A d \in Conns, l \in Loops : Passed(d, l)' = Passed(d, l)
      BY <2>1, <3>2 DEF Passed
    <3>5. Counted'
      BY <1>a, <2>1, <3>4 DEF HandlerInv, Counted
    <3>6. Fresh'
      BY <1>a, <2>1, <3>2 DEF HandlerInv, Fresh
    <3>7. Gone'
      BY <1>0, <1>c, <2>1, <3>1 DEF HandlerInv, Gone, Subscribe, PoolType
    <3>. QED
      BY <3>3, <3>5, <3>6, <3>7 DEF HandlerInv
  <2>. QED
    BY <2>2, <2>3
<1>7. ASSUME NEW c \in Conns, Reply(c) PROVE HandlerInv'
  <2>1. CASE Panic
    BY <2>1, SameKeeps DEF Panic, connVars, poolVars, history
  <2>2. CASE ~Panic
    BY <1>0, <1>7, <1>a, <1>b, <2>2, MoveKeeps DEF Reply, poolVars, history
  <2>. QED
    BY <2>1, <2>2
<1>8. ASSUME NEW c \in Conns, ReadFails(c) PROVE HandlerInv'
  BY <1>0, <1>8, <1>a, <1>b, MoveKeeps DEF ReadFails, poolVars, history
<1>9. ASSUME NEW c \in Conns, WriteData(c) \/ Ping(c) \/ WriteClose(c) \/ Return(c)
      PROVE  HandlerInv'
  <2>1. /\ at[c]["writer"] \in {"select", "write"}
        /\ \E s \in {"select", "write", "check"} : Goto(c, "writer", s)
        /\ \A d \in Conns : link'[d] = "none" => link[d] = "none"
        /\ UNCHANGED <<closed, pointers, calls, late, byApp>>
    BY <1>0, <1>9 DEF WriteData, Ping, WriteClose, Write, Return, Written, WrittenClose,
       ConnType, poolVars, history
  <2>2. {"select", "write", "check"} \subseteq Stages("writer") \ {"close", "done"}
    BY DEF Stages
  <2>. QED
    BY <1>0, <1>a, <2>1, <2>2, MoveKeeps
<1>10. ASSUME NEW c \in Conns, NEW l \in Loops, Check(c, l) PROVE HandlerInv'
  <2>1. /\ at[c][l] = "check" /\ UNCHANGED <<link, closed, pointers, calls, late, byApp>>
        /\ Goto(c, l, IF closed[c] THEN "done" ELSE "handler")
    BY <1>10 DEF Check, poolVars, history
  <2>2. CASE ~closed[c]
    <3>1. Goto(c, l, "handler") /\ "handler" \in Stages(l) \ {"close", "done"}
      BY <1>b, <2>1, <2>2
    <3>. QED
      BY <1>0, <2>1, <3>1, MoveKeeps
  <2>3. CASE closed[c]
    <3>1. \A d \in Conns, k \in Loops :
            at'[d][k] = IF d = c /\ k = l THEN "done" ELSE at[d][k]
      BY <1>0, <1>b, <2>1, <2>3, GotoType
    <3>2. Closers'
      BY <2>1, <2>3, <3>1 DEF HandlerInv, Closers
    <3>3. \A d \in Conns, k \in Loops : Passed(d, k)' >= Passed(d, k)
      BY <3>1 DEF Passed
    <3>4. \A d \in Conns, k \in Loops : Passed(d, k)' \in {0, 1}
      BY DEF Passed
    <3>5. Counted'
      BY <1>a, <1>c, <2>1, <3>3, <3>4 DEF HandlerInv, Counted
    <3>6. Fresh'
      BY <2>1, <3>1 DEF HandlerInv, Fresh
    <3>7. Gone'
      BY <2>1 DEF HandlerInv, Gone
    <3>. QED
      BY <3>2, <3>5, <3>6, <3>7 DEF HandlerInv
  <2>. QED
    BY <2>2, <2>3
<1>11. ASSUME NEW c \in Conns, NEW l \in Loops, Handle(c, l) PROVE HandlerInv'
  <2>1. /\ at[c][l] = "handler" /\ UNCHANGED <<link, closed, late, byApp>>
        /\ calls' = [calls EXCEPT ![c] = @ + 1]
        /\ Goto(c, l, "close") /\ Remove(c)
    BY <1>11 DEF Handle
  <2>2. \A d \in Conns, k \in Loops :
          at'[d][k] = IF d = c /\ k = l THEN "close" ELSE at[d][k]
    BY <1>0, <1>b, <2>1, GotoType
  <2>3. \A d \in Conns : calls'[d] = IF d = c THEN calls[d] + 1 ELSE calls[d]
    BY <1>0, <2>1 DEF HistoryType
  <2>4. Closers'
    BY <1>c, <2>1, <2>2, <2>3 DEF HandlerInv, Closers
  <2>5. /\ Passed(c, l) = 0 /\ Passed(c, l)' = 1
        /\ \A d \in Conns, k \in Loops :
             d # c \/ k # l => Passed(d, k)' = Passed(d, k)
    BY <2>1, <2>2 DEF Passed
  <2>6. Counted'
    BY <1>a, <1>c, <2>3, <2>5 DEF HandlerInv, Counted
  <2>7. Fresh'
    BY <2>1, <2>2 DEF HandlerInv, Fresh
  <2>8. Gone'
    BY <1>0, <2>1, <2>3 DEF HandlerInv, Gone, Remove, PoolType
  <2>. QED
    BY <2>4, <2>6, <2>7, <2>8 DEF HandlerInv
<1>12. ASSUME NEW c \in Conns, NEW l \in Loops, DeferredClose(c, l) PROVE HandlerInv'
  <2>1. /\ at[c][l] = "close" /\ UNCHANGED <<link, pointers, calls, late, byApp>>
        /\ closed' = [closed EXCEPT ![c] = TRUE] /\ Goto(c, l, "done")
    BY <1>12 DEF DeferredClose, poolVars, history
  <2>2. \A d \in Conns, k \in Loops :
          at'[d][k] = IF d = c /\ k = l THEN "done" ELSE at[d][k]
    BY <1>0, <1>b, <2>1, GotoType
  <2>3. Closers'
    BY <1>0, <2>1, <2>2 DEF HandlerInv, Closers, ConnType
  <2>4. \A d \in Conns, k \in Loops : Passed(d, k)' = Passed(d, k)
    BY <2>1, <2>2 DEF Passed
  <2>5. Counted'
    BY <1>a, <2>1, <2>4 DEF HandlerInv, Counted
  <2>6. Fresh'
    BY <2>1, <2>2 DEF HandlerInv, Fresh
  <2>7. Gone'
    BY <2>1 DEF HandlerInv, Gone
  <2>. QED
    BY <2>3, <2>5, <2>6, <2>7 DEF HandlerInv
<1>. QED
  BY <1>1, <1>2, <1>3, <1>4, <1>5, <1>6, <1>7, <1>8, <1>9, <1>10, <1>11, <1>12
     DEF Next, Writer, Select, Deferred, Loops
-----------------------------------------------------------------------------
(* The inductive invariant and what follows from it.                       *)

IInv == TypeOK /\ TopicsAgree /\ OnlyReplyPanics /\ HandlerInv

\* The initial states satisfy it.
LEMMA InitIInv == ASSUME WebSocketAssumption, Init PROVE IInv
<1>1. TypeOK
  <2>1. <<>> \in Seq(Posts \cup {"ok"}) /\ <<>> \in Seq(Topics) /\ Len(<<>>) = 0
    BY EmptySeq
  <2>2. ConnType
    BY <2>1 DEF Init, ConnType, Stages, WebSocketAssumption
  <2>3. PoolType /\ PostType /\ HistoryType
    BY <2>1 DEF Init, PoolType, PostType, HistoryType
  <2>. QED
    BY <2>2, <2>3, TypeParts
<1>2. TopicsAgree
  BY DEF Init, TopicsAgree, Pointed
<1>3. OnlyReplyPanics
  BY DEF Init, OnlyReplyPanics
<1>4. HandlerInv
  BY DEF Init, HandlerInv, Closers, Counted, Passed, Fresh, Gone, Loops
<1>. QED
  BY <1>1, <1>2, <1>3, <1>4 DEF IInv

\* Every step keeps it.
LEMMA StepIInv == ASSUME WebSocketAssumption, IInv, [Next]_vars PROVE IInv'
<1>1. TypeOK'
  <2>1. CASE UNCHANGED vars
    BY <2>1 DEF IInv, TypeOK, vars, connVars, poolVars, postVars, history
  <2>2. ASSUME NEW c \in Conns,
               \/ Open(c) \/ PeerGone(c) \/ AppClose(c)
               \/ ReadFrame(c) \/ Reply(c) \/ ReadFails(c) \/ Deferred(c, "reader")
               \/ Writer(c)
        PROVE  TypeOK'
    BY <2>2, TypeConn DEF IInv, Writer, Select, Loops
  <2>3. ASSUME NEW p \in Posts,
               Post(p) \/ \E t \in Topics, x \in Excepts : Publish(p, t, x)
        PROVE  TypeOK'
    BY <2>3, TypePost DEF IInv
  <2>. QED
    BY <2>1, <2>2, <2>3 DEF Next
<1>2. TopicsAgree'
  <2>1. UNCHANGED poolVars => TopicsAgree'
    BY DEF IInv, TopicsAgree, Pointed, poolVars
  <2>. QED
    BY <2>1, PoolFrame, TopicsKeep, TypeParts DEF IInv
<1>3. OnlyReplyPanics'
  BY PanicStep DEF IInv
<1>4. HandlerInv'
  BY HandlerStep DEF IInv
<1>. QED
  BY <1>1, <1>2, <1>3, <1>4 DEF IInv

\* What it implies.
LEMMA IInvImplies ==
  ASSUME IInv
  PROVE  TypeOK /\ TopicsAgree /\ OnlyReplyPanics /\ HandlerCalled /\ NoneLeftBehind
<1>0. HistoryType
  BY TypeParts DEF IInv
<1>1. \A c \in Conns : Over(c) /\ c \notin byApp => calls[c] >= 1
  BY DEF IInv, HandlerInv, Closers, Over, Loops
<1>2. \A c \in Conns : calls[c] <= 2
  <2>1. \A c \in Conns, l \in Loops : Passed(c, l) \in {0, 1}
    BY DEF Passed
  <2>. QED
    BY <1>0, <2>1 DEF IInv, HandlerInv, Counted, HistoryType, Loops
<1>3. NoneLeftBehind
  BY <1>1 DEF IInv, HandlerInv, Gone, TopicsAgree, Pointed, NoneLeftBehind
<1>. QED
  BY <1>1, <1>2, <1>3 DEF IInv, HandlerCalled

\* IInv always holds.
THEOREM Invariance == Spec => []IInv
  BY InitIInv, StepIInv, WebSocketAssumption, PTL DEF Spec

\* Type correctness of connections, channels, mutexes and the pool of topics.
THEOREM TypeCorrect == Spec => []TypeOK
  BY Invariance, IInvImplies, PTL

\* Pool.topics and Pool.pointers (pool.go 14-17) agree after any joins and removals.
THEOREM AlwaysAgree == Spec => []TopicsAgree
  BY Invariance, IInvImplies, PTL

\* No Send of a post ever hits a closed channel; only the reader's answer can.
THEOREM SendNeverPanics == Spec => []OnlyReplyPanics
  BY Invariance, IInvImplies, PTL

\* The close handler is called once or twice for a connection that ends by itself.
THEOREM HandlerAlwaysCalled == Spec => []HandlerCalled
  BY Invariance, IInvImplies, PTL

\* Nothing of a connection stays in the pool, with the two exceptions named there.
THEOREM NeverLeftBehind == Spec => []NoneLeftBehind
  BY Invariance, IInvImplies, PTL
=============================================================================
