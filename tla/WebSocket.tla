----------------------------- MODULE WebSocket -----------------------------
(***************************************************************************)
(* http/websocket: connections and the pool of their topics, with the      *)
(* handlers that cmd/server/main.go gives them (75-95).                    *)
(*                                                                         *)
(* A connection is served by two goroutines, its reader and its writer,    *)
(* which share a channel of outgoing messages, the flag closed and a       *)
(* mutex.  Each post (a call of Pool.Publish) runs in a goroutine that     *)
(* sends the message to one connection after the other.  Subscribe, Remove *)
(* and Publish hold the mutex of the pool and block on nothing, so each is *)
(* part of one action.  The mutex of a connection is held for longer than  *)
(* an action only by Send, which waits for room in the channel.            *)
(***************************************************************************)
EXTENDS Naturals, Sequences, FiniteSets

CONSTANTS
  Conns, Topics,
  Posts,       \* the messages published
  Excepts,     \* what Publish may be told to leave out; {Nil} in the server
  Cap,         \* messageQueueSize (2048 in the code)
  Closing,     \* the connections the application may close itself
  Leaving,     \* the connections whose clients may go away
  MaxFrames,   \* bound on the frames a client sends
  Nil

ASSUME WebSocketAssumption ==
  /\ Nil \notin Conns \cup Posts \cup {"ok", "ping", "close"}
  /\ Posts \cap {"ok", "ping", "close"} = {}
  /\ Excepts \subseteq Conns \cup {Nil}
  /\ Cap \in Nat \ {0} /\ MaxFrames \in Nat
  /\ Closing \subseteq Conns /\ Leaving \subseteq Conns

Loops == {"reader", "writer"}

VARIABLES
  at,        \* [c][l]: where loop l of c is
  link,      \* [c]: the TCP connection
  frames,    \* [c]: how many frames the reader has handled
  queue,     \* [c]: the channel send
  writing,   \* [c]: the message whose WriteMessage has not returned, or Nil
  closed,    \* [c]: closed, and with it the channel
  mu,        \* [c]: the post whose Send holds the mutex, or Nil
  topics,    \* Pool.topics; an empty set is no entry
  pointers,  \* Pool.pointers; an empty sequence is no entry
  todo,      \* [p]: the connections post p has still to be sent to
  sending,   \* [p]: the connection Send waits for
  audience,  \* [p]: whom post p was published to; Nil before that
  got,       \* [c]: the posts its client has received
  calls,     \* [c]: how often the close handler was called
  late,      \* connections that joined after a call of their close handler
  byApp,     \* connections the application has closed
  crashed    \* has a goroutine panicked?  That ends the program

connVars == <<at, link, frames, queue, writing, closed>>
poolVars == <<topics, pointers>>
postVars == <<todo, sending, audience>>
history  == <<got, calls, late, byApp>>
vars == <<connVars, mu, poolVars, postVars, history, crashed>>

Goto(c, l, s) == at' = [at EXCEPT ![c][l] = s]

Panic ==
  /\ crashed' = TRUE
  /\ UNCHANGED <<connVars, mu, poolVars, postVars, history>>

Init ==
  /\ at = [c \in Conns |-> [l \in Loops |-> "none"]]
  /\ link = [c \in Conns |-> "none"]
  /\ frames = [c \in Conns |-> 0]
  /\ queue = [c \in Conns |-> <<>>]
  /\ writing = [c \in Conns |-> Nil]
  /\ closed = [c \in Conns |-> FALSE]
  /\ mu = [c \in Conns |-> Nil]
  /\ topics = [t \in Topics |-> {}]
  /\ pointers = [c \in Conns |-> <<>>]
  /\ todo = [p \in Posts |-> {}] /\ sending = [p \in Posts |-> Nil]
  /\ audience = [p \in Posts |-> Nil]
  /\ got = [c \in Conns |-> {}] /\ calls = [c \in Conns |-> 0]
  /\ late = {} /\ byApp = {} /\ crashed = FALSE
-----------------------------------------------------------------------------
(* The pool of topics.                                                     *)

Pointed(c) == {pointers[c][i] : i \in DOMAIN pointers[c]}

Subscribe(c, t) ==
  /\ topics' = [topics EXCEPT ![t] = @ \cup {c}]
  /\ pointers' = [pointers EXCEPT ![c] = Append(@, t)]

\* Mutant of Remove: the entry of the connection in pointers stays.
RemoveFromTopics(c) ==
  /\ topics' = [t \in Topics |->
       IF t \in Pointed(c) THEN topics[t] \ {c} ELSE topics[t]]
  /\ UNCHANGED pointers

Remove(c) ==
  /\ topics' = [t \in Topics |->
       IF t \in Pointed(c) THEN topics[t] \ {c} ELSE topics[t]]
  /\ pointers' = [pointers EXCEPT ![c] = <<>>]

\* Publish returns if nobody is in the topic; else it copies the connections and
\* leaves the rest to a goroutine.
Publish(p, t, x) ==
  /\ audience[p] = Nil /\ topics[t] # {}
  /\ audience' = [audience EXCEPT ![p] = topics[t] \ {x}]
  /\ todo' = [todo EXCEPT ![p] = topics[t] \ {x}]
  /\ UNCHANGED <<connVars, mu, poolVars, sending, history, crashed>>
-----------------------------------------------------------------------------
(* The goroutine of post p: Send for one connection after the other.       *)

\* Send takes the mutex; on a closed connection it does nothing.
SendLock(p, c) ==
  /\ sending[p] = Nil /\ c \in todo[p] /\ mu[c] = Nil
  /\ todo' = [todo EXCEPT ![p] = @ \ {c}]
  /\ IF closed[c]
     THEN UNCHANGED <<mu, sending>>
     ELSE /\ mu' = [mu EXCEPT ![c] = p]
          /\ sending' = [sending EXCEPT ![p] = c]
  /\ UNCHANGED <<connVars, poolVars, audience, history, crashed>>

\* conn.send <- data: waits for room with the mutex held.
SendPush(p) ==
  LET c == sending[p] IN
  /\ c # Nil
  /\ IF closed[c]
     THEN Panic
     ELSE /\ Len(queue[c]) < Cap
          /\ queue' = [queue EXCEPT ![c] = Append(@, p)]
          /\ mu' = [mu EXCEPT ![c] = Nil]
          /\ sending' = [sending EXCEPT ![p] = Nil]
          /\ UNCHANGED <<at, link, frames, writing, closed, poolVars, todo, audience,
                         history, crashed>>
-----------------------------------------------------------------------------
(* A connection.                                                           *)

\* Handler.ServeHTTP: upgrade and start both goroutines.
Open(c) ==
  /\ link[c] = "none"
  /\ link' = [link EXCEPT ![c] = "up"]
  /\ at' = [at EXCEPT ![c] = [reader |-> "read", writer |-> "select"]]
  /\ UNCHANGED <<frames, queue, writing, closed, mu, poolVars, postVars, history, crashed>>

\* The client goes away; its frames may still arrive.
PeerGone(c) ==
  /\ c \in Leaving /\ link[c] = "up"
  /\ link' = [link EXCEPT ![c] = "broken"]
  /\ UNCHANGED <<at, frames, queue, writing, closed, mu, poolVars, postVars, history,
                 crashed>>

\* The reader gets a frame and calls the handler: a join subscribes, and what is
\* JSON is answered "ok".  (What is not changes nothing and is not counted.)
ReadFrame(c) ==
  /\ at[c]["reader"] = "read" /\ link[c] # "closed" /\ frames[c] < MaxFrames
  /\ frames' = [frames EXCEPT ![c] = @ + 1]
  /\ Goto(c, "reader", "reply")
  /\ \/ UNCHANGED <<poolVars, late>>
     \/ \E t \in Topics :
          /\ Subscribe(c, t)
          /\ late' = IF calls[c] > 0 THEN late \cup {c} ELSE late
  /\ UNCHANGED <<link, queue, writing, closed, mu, postVars, got, calls, byApp, crashed>>

\* Mutant of Reply: it does not wait for room.
ReplyNoWait(c) ==
  /\ at[c]["reader"] = "reply" /\ ~closed[c]
  /\ queue' = [queue EXCEPT ![c] = Append(@, "ok")]
  /\ Goto(c, "reader", "read")
  /\ UNCHANGED <<link, frames, writing, closed, mu, poolVars, postVars, history, crashed>>

\* conn.send <- resp, without the mutex: panics if someone has closed the
\* channel.
Reply(c) ==
  /\ at[c]["reader"] = "reply"
  /\ IF closed[c]
     THEN Panic
     ELSE /\ Len(queue[c]) < Cap
          /\ queue' = [queue EXCEPT ![c] = Append(@, "ok")]
          /\ Goto(c, "reader", "read")
          /\ UNCHANGED <<link, frames, writing, closed, mu, poolVars, postVars, history,
                         crashed>>

\* Mutant of ReadFails: the reader only closes, the handler is left to the writer.
ReadFailsNoHandler(c) ==
  /\ at[c]["reader"] = "read"
  /\ Goto(c, "reader", "close")
  /\ UNCHANGED <<link, frames, queue, writing, closed, mu, poolVars, postVars, history,
                 crashed>>

\* ReadMessage fails: the connection is gone, silent for pongWait, or a frame
\* exceeds readLimit.
ReadFails(c) ==
  /\ at[c]["reader"] = "read"
  /\ Goto(c, "reader", "check")
  /\ UNCHANGED <<link, frames, queue, writing, closed, mu, poolVars, postVars, history,
                 crashed>>

\* The writer begins to write m.
Write(c, m) ==
  /\ at[c]["writer"] = "select"
  /\ writing' = [writing EXCEPT ![c] = m]
  /\ Goto(c, "writer", "write")
  /\ UNCHANGED <<link, frames, closed, mu, poolVars, postVars, history, crashed>>

\* Its select takes a message from the channel ...
WriteData(c) ==
  /\ queue[c] # <<>>
  /\ queue' = [queue EXCEPT ![c] = Tail(@)]
  /\ Write(c, Head(queue[c]))

\* ... or a tick of the ticker ...
Ping(c) == Write(c, "ping") /\ UNCHANGED queue

\* Mutant of WriteClose: a close overtakes the messages in the channel.
WriteCloseAtOnce(c) ==
  /\ closed[c]
  /\ Write(c, "close") /\ UNCHANGED queue

\* ... or finds the channel closed and empty, and says so to the client.
WriteClose(c) ==
  /\ closed[c] /\ queue[c] = <<>>
  /\ Write(c, "close") /\ UNCHANGED queue

\* WriteMessage returns.  There is no deadline (writeDeadline is 0): while the
\* client is there it returns when the client has read enough, whenever that is.
\* To a broken connection a ping fails, and data fails or gets as far as the kernel.
Written(c) ==
  /\ at[c]["writer"] = "write" /\ writing[c] # "close"
  /\ writing' = [writing EXCEPT ![c] = Nil]
  /\ IF link[c] = "up"
     THEN /\ got' = [got EXCEPT ![c] = @ \cup ({writing[c]} \cap Posts)]
          /\ Goto(c, "writer", "select")
     ELSE /\ UNCHANGED got
          /\ \/ Goto(c, "writer", "check")
             \/ writing[c] # "ping" /\ Goto(c, "writer", "select")
  /\ UNCHANGED <<link, frames, queue, closed, mu, poolVars, postVars, calls, late,
                 byApp, crashed>>

\* After the close message, whether or not it could be written, the connection is
\* closed.
WrittenClose(c) ==
  /\ at[c]["writer"] = "write" /\ writing[c] = "close"
  /\ writing' = [writing EXCEPT ![c] = Nil]
  /\ link' = [link EXCEPT ![c] = "closed"]
  /\ Goto(c, "writer", "check")
  /\ UNCHANGED <<frames, queue, closed, mu, poolVars, postVars, history, crashed>>
-----------------------------------------------------------------------------
(* The deferred function of both loops, and Close.                         *)

\* if !conn.isClosed(); on a closed connection the Close that follows does nothing.
Check(c, l) ==
  /\ at[c][l] = "check" /\ mu[c] = Nil
  /\ Goto(c, l, IF closed[c] THEN "done" ELSE "handler")
  /\ UNCHANGED <<link, frames, queue, writing, closed, mu, poolVars, postVars, history,
                 crashed>>

\* Mutant of Handle: the handler finds nothing to remove.
HandleNothing(c, l) ==
  /\ at[c][l] = "handler"
  /\ calls' = [calls EXCEPT ![c] = @ + 1]
  /\ Goto(c, l, "close")
  /\ UNCHANGED <<link, frames, queue, writing, closed, mu, poolVars, postVars, got, late,
                 byApp, crashed>>

\* conn.closeHandler(conn), in the server a Remove from the pool.
Handle(c, l) ==
  /\ at[c][l] = "handler"
  /\ Remove(c)
  /\ calls' = [calls EXCEPT ![c] = @ + 1]
  /\ Goto(c, l, "close")
  /\ UNCHANGED <<link, frames, queue, writing, closed, mu, postVars, got, late, byApp,
                 crashed>>

\* Mutant of DeferredClose: Close does not take the mutex.
CloseNoLock(c, l) ==
  /\ at[c][l] = "close"
  /\ closed' = [closed EXCEPT ![c] = TRUE]
  /\ Goto(c, l, "done")
  /\ UNCHANGED <<link, frames, queue, writing, mu, poolVars, postVars, history, crashed>>

\* Mutant of DeferredClose: a loop ends without closing the channel.
DeferredNoClose(c, l) ==
  /\ at[c][l] = "close"
  /\ Goto(c, l, "done")
  /\ UNCHANGED <<link, frames, queue, writing, closed, mu, poolVars, postVars, history,
                 crashed>>

\* conn.Close(): takes the mutex; the second one does nothing.
DeferredClose(c, l) ==
  /\ at[c][l] = "close" /\ mu[c] = Nil
  /\ closed' = [closed EXCEPT ![c] = TRUE]
  /\ Goto(c, l, "done")
  /\ UNCHANGED <<link, frames, queue, writing, mu, poolVars, postVars, history, crashed>>

AppClose(c) ==
  /\ c \in Closing /\ link[c] # "none" /\ mu[c] = Nil /\ ~closed[c]
  /\ closed' = [closed EXCEPT ![c] = TRUE]
  /\ byApp' = byApp \cup {c}
  /\ UNCHANGED <<at, link, frames, queue, writing, mu, poolVars, postVars, got, calls,
                 late, crashed>>
-----------------------------------------------------------------------------
Deferred(c, l) == Check(c, l) \/ Handle(c, l) \/ DeferredClose(c, l)

Select(c) == WriteData(c) \/ WriteClose(c)

Return(c) == Written(c) \/ WrittenClose(c)

Writer(c) == Select(c) \/ Ping(c) \/ Return(c) \/ Deferred(c, "writer")

Post(p) == SendPush(p) \/ \E c \in Conns : SendLock(p, c)

Next ==
  /\ ~crashed
  /\ \/ \E c \in Conns :
          \/ Open(c) \/ PeerGone(c) \/ AppClose(c)
          \/ ReadFrame(c) \/ Reply(c) \/ ReadFails(c) \/ Deferred(c, "reader")
          \/ Writer(c)
     \/ \E p \in Posts :
          Post(p) \/ \E t \in Topics, x \in Excepts : Publish(p, t, x)

Spec == Init /\ [][Next]_vars
-----------------------------------------------------------------------------
Stages(l) == {"none", "check", "handler", "close", "done"}
             \cup (IF l = "reader" THEN {"read", "reply"} ELSE {"select", "write"})

\* Every variable has a value of its type, and no channel holds more than it can.
TypeOK ==
  /\ at \in [Conns -> [Loops -> Stages("reader") \cup Stages("writer")]]
  /\ \A c \in Conns, l \in Loops : at[c][l] \in Stages(l)
  /\ link \in [Conns -> {"none", "up", "broken", "closed"}]
  /\ frames \in [Conns -> 0..MaxFrames]
  /\ queue \in [Conns -> Seq(Posts \cup {"ok"})]
  /\ \A c \in Conns : Len(queue[c]) <= Cap
  /\ writing \in [Conns -> Posts \cup {"ok", "ping", "close", Nil}]
  /\ closed \in [Conns -> BOOLEAN]
  /\ mu \in [Conns -> Posts \cup {Nil}]
  /\ topics \in [Topics -> SUBSET Conns]
  /\ pointers \in [Conns -> Seq(Topics)]
  /\ todo \in [Posts -> SUBSET Conns]
  /\ sending \in [Posts -> Conns \cup {Nil}]
  /\ audience \in [Posts -> (SUBSET Conns) \cup {Nil}]
  /\ got \in [Conns -> SUBSET Posts]
  /\ calls \in [Conns -> Nat]
  /\ late \subseteq Conns /\ byApp \subseteq Conns
  /\ crashed \in BOOLEAN

Over(c) == \A l \in Loops : at[c][l] = "done"

\* However joins and removals of several connections mix, the two maps of the
\* pool (pool.go 14-17) agree: a connection is in a topic exactly if the topic is
\* among its topics.
TopicsAgree ==
  \A c \in Conns, t \in Topics : c \in topics[t] <=> t \in Pointed(c)

\* A connection is closed by its reader, by its writer and by the application,
\* and sent to by any number of posts, but the only send that can hit a closed
\* channel is the reader's own answer (connection.go 165): a Send that waits for
\* room keeps Close out.
OnlyReplyPanics ==
  /\ crashed => \E c \in Conns : at[c]["reader"] = "reply" /\ closed[c]
  /\ \A p \in Posts : sending[p] # Nil =>
       mu[sending[p]] = p /\ ~closed[sending[p]]

\* The close handler is called at least once for a connection that closes by
\* itself, and never more than twice (connection.go 93-96, 136-141: both loops
\* may find the connection open).  One that the application closes is another
\* matter: see CloseCallsHandler.
HandlerCalled ==
  \A c \in Conns :
    /\ calls[c] <= 2
    /\ Over(c) /\ c \notin byApp => calls[c] >= 1

\* Close calls the close handler ("При закрытии будет выполнен closeHandler",
\* connection.go 44-45, 71-72): when a connection is over, its handler has been
\* called, whoever closed it.
CloseCallsHandler == \A c \in Conns : Over(c) => calls[c] >= 1

\* A connection that is over is in no topic, unless the application closed it
\* (then nobody calls the close handler) or its reader handled a join after the
\* writer had removed it.
NoneLeftBehind ==
  \A c \in Conns : Over(c) /\ c \notin byApp \cup late =>
    \A t \in Topics : c \notin topics[t]
-----------------------------------------------------------------------------
(* Progress.                                                               *)

Running(A) == ~crashed /\ A

\* The Go scheduler runs goroutines that can go on, the select of the writer does
\* not prefer the ticker for ever, and a broken connection makes reads, writes and
\* pings fail.  That a client reads is not among it.
Fairness ==
  /\ \A c \in Conns :
       /\ WF_vars(Running(Reply(c)))
       /\ WF_vars(Running(link[c] # "up" /\ ReadFails(c)))
       /\ WF_vars(Running(Deferred(c, "reader")))
       /\ SF_vars(Running(Select(c)))
       /\ WF_vars(Running(link[c] # "up" /\ (Ping(c) \/ Return(c))))
       /\ WF_vars(Running(Deferred(c, "writer")))
  /\ \A p \in Posts : WF_vars(Running(Post(p)))

FairSpec == Spec /\ Fairness

\* The client of c reads what is written to it, as long as it is there.
Reads(c) == WF_vars(Running(link[c] = "up" /\ Return(c)))

\* A Send holds the mutex and waits for a writer that waits for the mutex.
Stuck(c) ==
  /\ mu[c] # Nil /\ Len(queue[c]) = Cap
  /\ at[c]["writer"] \in {"check", "handler", "close"}

\* Both loops of a connection that is lost end, and so do those of one that is
\* closed if its client reads; unless a goroutine panics or a Send that waits for
\* room keeps the mutex from them for ever.  (None of these states is ever left, so
\* []<> is as good as a leads-to for each.)
LoopsEnd ==
  \A c \in Conns :
    /\ []<>(link[c] = "broken" => Over(c) \/ crashed \/ Stuck(c))
    /\ Reads(c) => []<>(closed[c] => Over(c) \/ crashed \/ Stuck(c))

OnItsWay(p, c) == writing[c] = p \/ \E i \in DOMAIN queue[c] : queue[c][i] = p

\* If the clients read, a post reaches every connection it was published to, also
\* one that is closed while the message is in its channel, unless the client has
\* gone, the connection was closed before Send, or some connection is stuck.
Delivered ==
  (\A c \in Conns : Reads(c)) =>
    []<>(\A p \in Posts : audience[p] # Nil =>
           \A c \in audience[p] :
             \/ p \in got[c] \/ (closed[c] /\ ~OnItsWay(p, c))
             \/ link[c] = "broken" \/ crashed \/ \E d \in Conns : Stuck(d))
=============================================================================
