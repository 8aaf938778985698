---------------------------- MODULE RedisClient ----------------------------
(***************************************************************************)
(* The connection of redis/client.go: Connect, the liveness loop that      *)
(* pings and reconnects, Reconnect with its Close and PSubscribe, and the  *)
(* listener of cmd/server/main.go.                                         *)
(*                                                                         *)
(* Nothing here is locked.  Each dial starts a liveness loop of its own,   *)
(* which puts its channels into the fields of the connection when it runs; *)
(* the `break` that shall end a loop only leaves the select, so every loop *)
(* goes on and reads the fields again.  A ping that fails starts a         *)
(* goroutine that reconnects, and the application may close at any moment. *)
(* A dial has a number; its loop, ticker and stopper have the same one.    *)
(***************************************************************************)
EXTENDS Naturals

CONSTANTS
  Patterns,      \* what the application has subscribed to
  Tasks,         \* the goroutines that may reconnect at the same time
  App,           \* the application's Close
  MaxDials,      \* how often Redis can be reached
  MaxTries,      \* attempts of one goroutine: 50
  MaxUnread      \* Publish when no more responses wait to be read

ASSUME RedisAssumption ==
  /\ App \notin Tasks /\ (Tasks \cup {App}) \cap Nat = {}
  /\ MaxDials \in Nat \ {0} /\ MaxTries \in Nat \ {0}
  /\ MaxUnread \in Nat

Dials == 1..MaxDials
Callers == Tasks \cup {App}

VARIABLES
  conn, pingTicker, pingStopper, topics,  \* the fields; 0 is nil
  dials,       \* how often Redis was reached
  net,         \* [d]: the TCP connection
  subs,        \* [d]: what Redis sends on it
  replies,     \* [d]: confirmations nobody has read yet
  running,     \* the tickers that have not been stopped
  loop,        \* [d]: where the liveness loop is
  listen,      \* [d]: the ticker and the stopper its select waits for
  task,        \* [t]: where Reconnect or Close is
  held,        \* [t]: the topics left to subscribe to, the stopper, tries
  on,          \* [loop or task]: the connection it uses
  reader,      \* the connection the listener reads, or 0
  program,     \* "run" or "ended"
  overlapped,  \* have two goroutines ever been in Reconnect or Close?
  early,       \* has Close run while a loop was starting?
  failed, gaveUp, \* has an attempt failed?  has a goroutine stopped trying?
  quit         \* has Close found nothing else under way?

fields == <<conn, pingTicker, pingStopper, topics>>
netVars == <<dials, net, subs, replies>>
loops == <<loop, listen>>
tasks == <<task, held>>
ghosts == <<overlapped, early, failed, gaveUp, quit>>
vars == <<fields, netVars, running, loops, tasks, on, reader, program, ghosts>>

Nothing == [left |-> {}, stopper |-> 0, tries |-> 0]

\* After Connect and PSubscribe.
Init ==
  /\ conn = 1 /\ pingTicker = 0 /\ pingStopper = 0 /\ topics = Patterns
  /\ dials = 1
  /\ net = [d \in Dials |-> IF d = 1 THEN "up" ELSE "none"]
  /\ subs = [d \in Dials |-> IF d = 1 THEN Patterns ELSE {}]
  /\ replies = [d \in Dials |-> 0]
  /\ running = {}
  /\ loop = [d \in Dials |-> IF d = 1 THEN "new" ELSE "none"]
  /\ listen = [d \in Dials |-> [ticker |-> 0, stopper |-> 0]]
  /\ task = [t \in Callers |-> "idle"]
  /\ held = [t \in Callers |-> Nothing]
  /\ on = [x \in Dials \cup Callers |-> 0]
  /\ reader = 0 /\ program = "run"
  /\ overlapped = FALSE /\ early = FALSE /\ failed = FALSE /\ gaveUp = FALSE /\ quit = FALSE

CloseCalled == held[App].tries = 1
Up(c) == net[c] = "up"
Starting == \E d \in Dials : loop[d] \in {"new", "ticker"}
Busy == {t \in Callers : task[t] \notin {"idle", "publishing", "published"}}
Deaf(d) == listen' = [listen EXCEPT ![d] = [ticker |-> 0, stopper |-> 0]]
LoopTo(d, l) == loop' = [loop EXCEPT ![d] = l]
TaskTo(t, l) == task' = [task EXCEPT ![t] = l]
-----------------------------------------------------------------------------
(* write: up to seven calls of conn.Write, each on the connection c.conn   *)
(* then is.  Two commands at once, or one that ends on another connection, *)
(* are garbage to Redis, which closes the connection.                      *)

Writing(c) ==
  {d \in Dials : loop[d] = "pinging" /\ on[d] = c}
    \cup {t \in Callers : task[t] \in {"writing", "publishing"} /\ on[t] = c}

BeginWrite(x) ==
  /\ Up(conn)
  /\ on' = [on EXCEPT ![x] = conn]
  /\ net' = [net EXCEPT ![conn] = IF Writing(conn) # {} THEN "broken" ELSE @]

EndWrite(x) ==
  /\ Up(conn)
  /\ net' = [net EXCEPT ![conn] = IF on[x] # conn THEN "broken" ELSE @]

Break(d) ==
  /\ Up(d) /\ net' = [net EXCEPT ![d] = "broken"]
  /\ UNCHANGED <<fields, dials, subs, replies, running, loops, tasks, on, reader, program, ghosts>>
-----------------------------------------------------------------------------
(* livelinessLoop.                                                         *)

MakeStopper(d) ==
  /\ loop[d] = "new" /\ LoopTo(d, "ticker")
  /\ pingStopper' = d
  /\ UNCHANGED <<conn, pingTicker, topics, netVars, running, listen, tasks, on, reader, program, ghosts>>

MakeTicker(d) ==
  /\ loop[d] = "ticker" /\ LoopTo(d, "top")
  /\ pingTicker' = d /\ running' = running \cup {d}
  /\ UNCHANGED <<conn, pingStopper, topics, netVars, listen, tasks, on, reader, program, ghosts>>

\* The select evaluates the fields, whoever has set them.
Select(d) ==
  /\ loop[d] = "top" /\ LoopTo(d, "select")
  /\ listen' = [listen EXCEPT ![d] = [ticker |-> pingTicker, stopper |-> pingStopper]]
  /\ UNCHANGED <<fields, netVars, running, tasks, on, reader, program, ghosts>>

\* Ticks are 36 seconds apart and a ping ends within 10, so a tick finds a loop
\* in its select; of two loops that wait for the same ticker, one gets it.
TakeTick(d) ==
  /\ loop[d] = "select" /\ listen[d].ticker \in running
  /\ LoopTo(d, "ping") /\ Deaf(d)
  /\ UNCHANGED <<fields, netVars, running, tasks, on, reader, program, ghosts>>

PingBegin(d) ==
  /\ loop[d] = "ping" /\ LoopTo(d, "pinging")
  /\ BeginWrite(d)
  /\ UNCHANGED <<fields, dials, subs, replies, running, listen, tasks, reader, program, ghosts>>

PingEnd(d) ==
  /\ loop[d] = "pinging" /\ LoopTo(d, "top")
  /\ EndWrite(d) /\ on' = [on EXCEPT ![d] = 0]
  /\ UNCHANGED <<fields, dials, subs, replies, running, listen, tasks, reader, program, ghosts>>

\* Mutant of PingFails: the failure is not acted upon.
PingFailsQuietly(d) ==
  /\ loop[d] \in {"ping", "pinging"} /\ ~Up(conn) /\ LoopTo(d, "top")
  /\ on' = [on EXCEPT ![d] = 0]
  /\ UNCHANGED <<fields, netVars, running, listen, tasks, reader, program, ghosts>>

\* go reconnectLoop().  A goroutine beyond Tasks is not followed.
PingFails(d) ==
  /\ loop[d] \in {"ping", "pinging"} /\ ~Up(conn) /\ LoopTo(d, "top")
  /\ \/ \E t \in Tasks : task[t] = "idle" /\ TaskTo(t, "copy") /\ UNCHANGED overlapped
     \/ Tasks \subseteq Busy /\ overlapped' = TRUE /\ UNCHANGED task
  /\ on' = [on EXCEPT ![d] = 0]
  /\ UNCHANGED <<fields, netVars, running, listen, held, reader, program, early, failed, gaveUp, quit>>
-----------------------------------------------------------------------------
(* Reconnect and Close.                                                    *)

AppClose ==
  /\ task[App] = "idle" /\ ~CloseCalled
  /\ TaskTo(App, "copy") /\ held' = [held EXCEPT ![App].tries = 1]
  /\ UNCHANGED <<fields, netVars, running, loops, on, reader, program, ghosts>>

\* Mutant of CloseTicker: the ticker is not stopped.
CloseTickerLeft(t) ==
  /\ task[t] = "copy"
  /\ overlapped' = (overlapped \/ Busy # {t}) /\ early' = (early \/ Starting)
  /\ held' = [held EXCEPT ![t].left = topics, ![t].stopper = pingStopper]
  /\ IF pingTicker = 0 THEN TaskTo(t, "close") ELSE TaskTo(t, "stop")
  /\ UNCHANGED <<fields, netVars, running, loops, on, reader, program, failed, gaveUp, quit>>

\* Reconnect copies the topics.  Close stops the ticker, if the loop has made
\* one, and sends to the stopper that the field then holds.
CloseTicker(t) ==
  /\ task[t] = "copy"
  /\ overlapped' = (overlapped \/ Busy # {t}) /\ early' = (early \/ Starting)
  /\ held' = [held EXCEPT ![t].left = topics, ![t].stopper = pingStopper]
  /\ IF pingTicker = 0
     THEN TaskTo(t, "close") /\ UNCHANGED running
     ELSE TaskTo(t, "stop") /\ running' = running \ {pingTicker}
  /\ UNCHANGED <<fields, netVars, loops, on, reader, program, failed, gaveUp, quit>>

\* Mutant of StopLoop: the loop ends.
StopLoopEnds(t) ==
  /\ task[t] = "stop" /\ TaskTo(t, "close")
  /\ \E d \in Dials :
       /\ loop[d] = "select" /\ listen[d].stopper = held[t].stopper
       /\ LoopTo(d, "none") /\ Deaf(d)
  /\ held' = [held EXCEPT ![t].stopper = 0]
  /\ UNCHANGED <<fields, netVars, running, on, reader, program, ghosts>>

\* A loop receives from the stopper, and waits in its next select.
StopLoop(t) ==
  /\ task[t] = "stop" /\ TaskTo(t, "close")
  /\ \E d \in Dials :
       /\ loop[d] = "select" /\ listen[d].stopper = held[t].stopper
       /\ LoopTo(d, "top") /\ Deaf(d)
  /\ held' = [held EXCEPT ![t].stopper = 0]
  /\ UNCHANGED <<fields, netVars, running, on, reader, program, ghosts>>

Quiet ==
  /\ Busy = {App} /\ ~overlapped /\ ~early
  /\ \A d \in Dials : loop[d] \in {"none", "top", "select"}

CloseConn(t) ==
  /\ task[t] = "close" /\ TaskTo(t, IF t = App THEN "idle" ELSE "dial")
  /\ topics' = {} /\ net' = [net EXCEPT ![conn] = "closed"]
  /\ quit' = (quit \/ (t = App /\ Quiet))
  /\ UNCHANGED <<conn, pingTicker, pingStopper, dials, subs, replies, running, loops, held,
                 on, reader, program, overlapped, early, failed, gaveUp>>

\* Mutant of Fails: nobody counts the attempts.
FailsForever(t) ==
  /\ failed' = TRUE /\ on' = [on EXCEPT ![t] = 0] /\ TaskTo(t, "copy")
  /\ held' = [held EXCEPT ![t] = [Nothing EXCEPT !.tries = held[t].tries + 1]]
  /\ UNCHANGED <<overlapped, early, gaveUp, quit>>

\* The attempt has failed: the goroutine sleeps and tries again, or gives up.
Fails(t) ==
  /\ failed' = TRUE /\ on' = [on EXCEPT ![t] = 0]
  /\ LET tries == held[t].tries + 1
         last == tries = MaxTries
     IN /\ gaveUp' = (gaveUp \/ last) /\ TaskTo(t, IF last THEN "idle" ELSE "copy")
        /\ held' = [held EXCEPT ![t] = IF last THEN Nothing
                                      ELSE [Nothing EXCEPT !.tries = tries]]
  /\ UNCHANGED <<overlapped, early, quit>>

\* Mutant of Dial: no loop watches the new connection.
DialNoLoop(t) ==
  /\ task[t] = "dial" /\ dials < MaxDials /\ TaskTo(t, "subscribe")
  /\ dials' = dials + 1 /\ conn' = dials + 1
  /\ net' = [net EXCEPT ![dials + 1] = "up"]
  /\ UNCHANGED <<pingTicker, pingStopper, topics, subs, replies, running, loops, held, on, reader, program, ghosts>>

\* connect: the field is set, and the loop of the new connection started.
Dial(t) ==
  /\ task[t] = "dial" /\ dials < MaxDials /\ TaskTo(t, "subscribe")
  /\ dials' = dials + 1 /\ conn' = dials + 1
  /\ net' = [net EXCEPT ![dials + 1] = "up"] /\ LoopTo(dials + 1, "new")
  /\ UNCHANGED <<pingTicker, pingStopper, topics, subs, replies, running, listen, held, on, reader, program, ghosts>>

DialFails(t) ==
  /\ task[t] = "dial" /\ Fails(t)
  /\ UNCHANGED <<fields, netVars, running, loops, reader, program>>
-----------------------------------------------------------------------------
(* PSubscribe, one copied topic after the other.                           *)

\* Every ReadResponse has a buffer of its own (108): what it has read beyond the
\* first response is lost.
ReadResponse(c) ==
  \E n \in 1..replies[c] : replies' = [replies EXCEPT ![c] = @ - n]

Pattern(t) == CHOOSE p \in held[t].left : TRUE

Subscribe(t) ==
  /\ task[t] = "subscribe" /\ held[t].left # {} /\ TaskTo(t, "writing")
  /\ BeginWrite(t)
  /\ UNCHANGED <<fields, dials, subs, replies, running, loops, held, reader, program, ghosts>>

SubscribeEnd(t) ==
  /\ task[t] = "writing" /\ TaskTo(t, "reading")
  /\ EndWrite(t) /\ on' = [on EXCEPT ![t] = conn]
  /\ IF on[t] = conn
     THEN /\ subs' = [subs EXCEPT ![conn] = @ \cup {Pattern(t)}]
          /\ replies' = [replies EXCEPT ![conn] = @ + 1]
     ELSE UNCHANGED <<subs, replies>>
  /\ UNCHANGED <<fields, dials, running, loops, held, reader, program, ghosts>>

\* Mutant of Confirmed: the topic is not entered again.
ConfirmedNotKept(t) ==
  /\ task[t] = "reading" /\ ReadResponse(on[t]) /\ TaskTo(t, "subscribe")
  /\ held' = [held EXCEPT ![t].left = @ \ {Pattern(t)}] /\ on' = [on EXCEPT ![t] = 0]
  /\ UNCHANGED <<fields, dials, net, subs, running, loops, reader, program, ghosts>>

\* The confirmation, or another response.
Confirmed(t) ==
  /\ task[t] = "reading" /\ ReadResponse(on[t]) /\ TaskTo(t, "subscribe")
  /\ topics' = topics \cup {Pattern(t)}
  /\ held' = [held EXCEPT ![t].left = @ \ {Pattern(t)}] /\ on' = [on EXCEPT ![t] = 0]
  /\ UNCHANGED <<conn, pingTicker, pingStopper, dials, net, subs, running, loops, reader, program, ghosts>>

\* The connection is gone, nothing comes for pongWait, or what comes is no response:
\* the rest of a message that a short read (161) has cut.
SubscribeFails(t) ==
  /\ \/ task[t] \in {"subscribe", "writing"} /\ held[t].left # {} /\ ~Up(conn)
     \/ task[t] = "reading"
  /\ Fails(t)
  /\ UNCHANGED <<fields, netVars, running, loops, reader, program>>

Reconnected(t) ==
  /\ task[t] = "subscribe" /\ held[t].left = {} /\ TaskTo(t, "idle")
  /\ held' = [held EXCEPT ![t] = Nothing]
  /\ UNCHANGED <<fields, netVars, running, loops, on, reader, program, ghosts>>
-----------------------------------------------------------------------------
(* Publish, by the application: a command and the next response, whosever. *)

Publish ==
  /\ task[App] = "idle" /\ ~CloseCalled /\ TaskTo(App, "publishing")
  /\ replies[conn] <= MaxUnread /\ BeginWrite(App)
  /\ UNCHANGED <<fields, dials, subs, replies, running, loops, held, reader, program, ghosts>>

PublishEnd ==
  /\ task[App] = "publishing" /\ TaskTo(App, "published")
  /\ EndWrite(App) /\ on' = [on EXCEPT ![App] = conn]
  /\ replies' = [replies EXCEPT ![conn] = IF on[App] = conn THEN @ + 1 ELSE @]
  /\ UNCHANGED <<fields, dials, subs, running, loops, held, reader, program, ghosts>>

\* There is a response, or an error.
Published ==
  /\ on' = [on EXCEPT ![App] = 0] /\ TaskTo(App, "idle")
  /\ \/ task[App] = "publishing" /\ ~Up(conn) /\ UNCHANGED replies
     \/ task[App] = "published" /\ (ReadResponse(on[App]) \/ UNCHANGED replies)
  /\ UNCHANGED <<fields, dials, net, subs, running, loops, held, reader, program, ghosts>>
-----------------------------------------------------------------------------
(* The listener: ReadResponse in a loop.  What it reads is a message for   *)
(* the WebSocket topics, or a confirmation that somebody waits for.  After *)
(* an error, also that of a message cut by a short read, it looks at the   *)
(* first string of a result that has none, and panics.                     *)

ListenerReads ==
  /\ reader = 0 /\ reader' = conn
  /\ UNCHANGED <<fields, netVars, running, loops, tasks, on, program, ghosts>>

ListenerGets ==
  /\ reader \in Dials /\ Up(reader) /\ reader' = 0
  /\ ReadResponse(reader) \/ UNCHANGED replies
  /\ UNCHANGED <<fields, dials, net, subs, running, loops, tasks, on, program, ghosts>>

ListenerFails ==
  /\ reader \in Dials /\ program' = "ended"
  /\ UNCHANGED <<fields, netVars, running, loops, tasks, on, reader, ghosts>>
-----------------------------------------------------------------------------
LoopStep(d) ==
  \/ MakeStopper(d) \/ MakeTicker(d) \/ Select(d) \/ TakeTick(d)
  \/ PingBegin(d) \/ PingEnd(d) \/ PingFails(d)

CallerStep(t) ==
  \/ CloseTicker(t) \/ StopLoop(t) \/ CloseConn(t)

TaskStep(t) ==
  \/ CallerStep(t) \/ Dial(t) \/ DialFails(t)
  \/ Subscribe(t) \/ SubscribeEnd(t) \/ Confirmed(t) \/ SubscribeFails(t) \/ Reconnected(t)

Listener == ListenerReads \/ ListenerGets \/ ListenerFails

Running(A) == program = "run" /\ A

Next ==
  Running(\/ \E d \in Dials : LoopStep(d) \/ Break(d)
          \/ \E t \in Tasks : TaskStep(t)
          \/ AppClose \/ CallerStep(App) \/ Publish \/ PublishEnd \/ Published
          \/ Listener)

Spec == Init /\ [][Next]_vars
-----------------------------------------------------------------------------
\* Every variable has a value of its type.
TypeOK ==
  /\ conn \in Dials /\ pingTicker \in 0..MaxDials /\ pingStopper \in 0..MaxDials
  /\ topics \subseteq Patterns /\ dials \in Dials
  /\ net \in [Dials -> {"none", "up", "broken", "closed"}]
  /\ subs \in [Dials -> SUBSET Patterns] /\ replies \in [Dials -> Nat]
  /\ running \subseteq Dials
  /\ loop \in [Dials -> {"none", "new", "ticker", "top", "select", "ping", "pinging"}]
  /\ listen \in [Dials -> [ticker : 0..MaxDials, stopper : 0..MaxDials]]
  /\ task \in [Callers -> {"idle", "copy", "stop", "close", "dial", "subscribe",
                           "writing", "reading", "publishing", "published"}]
  /\ held \in [Callers -> [left : SUBSET Patterns,
                           stopper : 0..MaxDials, tries : 0..MaxTries]]
  /\ on \in [Dials \cup Callers -> 0..MaxDials]
  /\ reader \in 0..MaxDials /\ program \in {"run", "ended"}
  /\ overlapped \in BOOLEAN /\ early \in BOOLEAN /\ failed \in BOOLEAN
  /\ gaveUp \in BOOLEAN /\ quit \in BOOLEAN

Alone == ~overlapped /\ ~CloseCalled

\* A client that has reconnected is subscribed to what it was subscribed to, and
\* still knows it for the next time.  After an attempt that fails it is not:
\* Close has emptied the topics the next attempt copies.
TopicsKept ==
  Alone /\ ~failed /\ Busy = {} =>
    topics = Patterns /\ (Up(conn) => subs[conn] = Patterns)

\* A loop that is going to look at the ticker the field holds.
Watches(d) ==
  \/ loop[d] \in {"new", "ticker"}
  \/ /\ loop[d] # "none" /\ pingTicker \in running
     /\ loop[d] = "select" => listen[d].ticker = pingTicker

\* Loops of older dials live on and set and read the same fields, but the
\* connection is never without one that pings it, also after attempts that
\* failed, unless goroutines overlap or the last attempt was made.
Watched == Alone /\ ~gaveUp /\ Busy = {} => \E d \in Dials : Watches(d)

\* A loop is going to receive from the stopper t sends to.
Heard(t) ==
  \E d \in Dials :
    /\ loop[d] \notin {"none", "new", "ticker"}
    /\ held[t].stopper = IF loop[d] = "select" THEN listen[d].stopper ELSE pingStopper

\* Close does not wait forever for a loop (redis/client.go 199), unless it runs
\* at the same time as another one, or before the loop of a connection has
\* started.
CloserHeard ==
  ~overlapped /\ ~early => \A t \in Callers : task[t] = "stop" => Heard(t)

\* A Close that finds no ping and no reconnection under way is final: no loop, though none of them
\* ends, brings the connection back.
ClosedForGood == quit => net[conn] = "closed" /\ Busy = {}
-----------------------------------------------------------------------------
\* Tickers tick, Go runs every goroutine, and calls of the network end; but some
\* programs have no listener.
Fairness ==
  /\ \A d \in Dials : WF_vars(Running(LoopStep(d)))
  /\ \A t \in Tasks : WF_vars(Running(TaskStep(t)))

FairSpec == Spec /\ Fairness

\* A connection that breaks is replaced, or the goroutine has tried its fifty
\* times.  It is not if goroutines overlap or a Close waits for a loop that no
\* longer listens; and a listener ends the program with the first error.
Recovers ==
  \A d \in Dials :
    net[d] = "broken" ~>
      \/ Up(conn) \/ gaveUp \/ ~Alone
      \/ program = "ended" \/ \E t \in Tasks : task[t] = "stop" /\ ~Heard(t)
=============================================================================
