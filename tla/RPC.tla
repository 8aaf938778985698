-------------------------------- MODULE RPC --------------------------------
(***************************************************************************)
(* The RPC socket of cmd/server (main.go 157-194) and its PHP client       *)
(* (php/Runner/RPC.php): a PHP program asks the server to run a job and is *)
(* told "true" at once, while the job goes to the pool in a goroutine of   *)
(* its own.  The pool is the JobService that WorkerPool implements; a call *)
(* is a job of it.                                                         *)
(*                                                                         *)
(* A client makes one call at a time.  It connects with its first call and *)
(* its socket, once closed, stays in its field, so a client has at most    *)
(* one connection, which is named by the client.                           *)
(***************************************************************************)
EXTENDS Naturals, Sequences, FiniteSets

CONSTANTS Clients, Calls, Workers, QueueCap, Nil

ASSUME RPCAssumption ==
  /\ Nil \notin Clients \cup Calls \cup Workers
  /\ Calls \cap {"none", "mixed", "err", "timeout"} = {}

VARIABLES
  waiting, sent, server, outcome, answered,   \* the pool: see JobService
  jobsPool,   \* is there one?  Only if the server was given a program for jobs
  program,    \* "start" until it listens, "serve", "ended"
  at,         \* [k]: where RPC::send of k is
  by,         \* [k]: the client that makes k
  kind,       \* [k]: what its request is
  reply,      \* [k]: what k returned
  socket,     \* [c]: the socket field of client c
  conn,       \* [c]: the server's side of the connection of c
  requests,   \* [c]: what is under way from c to the server
  replies,    \* [c]: what is under way from the server to c
  cut,        \* the clients that were once left with a part of a line
  run,        \* [k]: where the server's call of RunJob for k is
  job         \* [k]: where the goroutine that RunJob started is

poolVars == <<waiting, sent, server, outcome, answered>>
clientVars == <<at, by, kind, reply, socket, cut>>
lineVars == <<conn, requests, replies>>
runVars == <<run, job>>
vars == <<poolVars, jobsPool, program, clientVars, lineVars, runVars>>

Failures == {"err", "timeout"}

Pool == INSTANCE JobService WITH
  Jobs <- Calls, Results <- Calls \cup {"mixed"}, Spoilers <- {"timeout"}

\* A request to run a job; one whose arguments are not what RunJob takes them for;
\* one for another method; and one that json_encode refuses, which is sent as "".
Kinds == {"job", "bad", "unknown", "mute"}

\* A line for a client; the "rest" is what follows a part that fgets has returned.
Replies == [to : Calls, value : {"true", "error", "rest"}]

Init ==
  /\ Pool!Init
  /\ jobsPool \in BOOLEAN /\ program = "start"
  /\ at = [k \in Calls |-> "new"]
  /\ by = [k \in Calls |-> Nil]
  /\ kind = [k \in Calls |-> "job"]
  /\ reply = [k \in Calls |-> Nil]
  /\ socket = [c \in Clients |-> "null"]
  /\ conn = [c \in Clients |-> "none"]
  /\ requests = [c \in Clients |-> <<>>]
  /\ replies = [c \in Clients |-> <<>>]
  /\ cut = {}
  /\ run = [k \in Calls |-> "none"]
  /\ job = [k \in Calls |-> "none"]

Busy(c) == \E k \in Calls : by[k] = c /\ at[k] = "wait"
-----------------------------------------------------------------------------
(* The client: RPC::send, connect and close.                               *)

\* fwrite of the request, and then send waits in fgets.
Write(k, c, q) ==
  /\ at' = [at EXCEPT ![k] = "wait"]
  /\ requests' = IF q = "mute" THEN requests
                 ELSE [requests EXCEPT ![c] = Append(@, k)]

Throw(k) == at' = [at EXCEPT ![k] = "thrown"]

\* send of a client: it connects if it has no socket, which may fail; a socket that
\* it has closed makes fwrite throw.
Send(k, c, q) ==
  /\ at[k] = "new" /\ ~Busy(c)
  /\ by' = [by EXCEPT ![k] = c]
  /\ kind' = [kind EXCEPT ![k] = q]
  /\ \/ /\ socket[c] = "null" /\ program = "serve"
        /\ socket' = [socket EXCEPT ![c] = "open"]
        /\ conn' = [conn EXCEPT ![c] = "pending"]
        /\ Write(k, c, q)
     \/ /\ socket[c] = "open"
        /\ Write(k, c, q)
        /\ UNCHANGED <<socket, conn>>
     \/ /\ socket[c] \in {"null", "closed"}
        /\ Throw(k)
        /\ UNCHANGED <<socket, conn, requests>>
  /\ UNCHANGED <<poolVars, jobsPool, program, reply, cut, replies, runVars>>

\* fgets returns a line; nobody compares its id with that of the request.  The rest
\* of a line is no JSON, and deserialize throws.
Take(k) ==
  /\ at[k] = "wait" /\ replies[by[k]] # <<>>
  /\ IF Head(replies[by[k]]).value = "rest"
     THEN Throw(k) /\ UNCHANGED reply
     ELSE /\ at' = [at EXCEPT ![k] = "told"]
          /\ reply' = [reply EXCEPT ![k] = Head(replies[by[k]])]
  /\ replies' = [replies EXCEPT ![by[k]] = Tail(@)]
  /\ UNCHANGED <<poolVars, jobsPool, program, by, kind, socket, cut, conn, requests, runVars>>

\* default_socket_timeout is over when a part of the line has come: fgets returns the
\* part, deserialize throws, and the socket stays open for the rest.
TakePart(k) ==
  /\ at[k] = "wait" /\ replies[by[k]] # <<>>
  /\ Throw(k)
  /\ replies' = [replies EXCEPT ![by[k]][1] = [to |-> @.to, value |-> "rest"]]
  /\ cut' = cut \cup {by[k]}
  /\ UNCHANGED <<poolVars, jobsPool, program, by, kind, reply, socket, conn, requests,
                 runVars>>

\* Mutant of Fail: the client throws and keeps its socket.
FailKeepSocket(k) ==
  /\ at[k] = "wait"
  /\ Throw(k)
  /\ UNCHANGED <<poolVars, jobsPool, program, by, kind, reply, socket, cut, lineVars, runVars>>

\* fgets returns false, because default_socket_timeout is over before anything has come,
\* or the connection is: the client closes it and throws.
Fail(k) ==
  /\ at[k] = "wait"
  /\ Throw(k)
  /\ socket' = [socket EXCEPT ![by[k]] = "closed"]
  /\ UNCHANGED <<poolVars, jobsPool, program, by, kind, reply, cut, lineVars, runVars>>

\* The PHP program calls close.
Close(c) ==
  /\ socket[c] = "open" /\ ~Busy(c)
  /\ socket' = [socket EXCEPT ![c] = "closed"]
  /\ UNCHANGED <<poolVars, jobsPool, program, at, by, kind, reply, cut, lineVars, runVars>>
-----------------------------------------------------------------------------
(* The server: startRPC, net/rpc with its JSON codec, and RunJob.          *)

\* net.Listen succeeds or log.Fatal ends the program.
Listen ==
  /\ program = "start"
  /\ program' \in {"serve", "ended"}
  /\ UNCHANGED <<poolVars, jobsPool, clientVars, lineVars, runVars>>

Accept(c) ==
  /\ program = "serve" /\ conn[c] = "pending"
  /\ conn' = [conn EXCEPT ![c] = "served"]
  /\ UNCHANGED <<poolVars, jobsPool, program, clientVars, requests, replies, runVars>>

\* Accept fails, which is logged, and the goroutine that is to serve the connection
\* there is not panics (170); or another part of the program ends it.
End ==
  /\ program = "serve"
  /\ program' = "ended"
  /\ UNCHANGED <<poolVars, jobsPool, clientVars, lineVars, runVars>>

\* ServeConn reads a request and starts a goroutine for the method, or answers that
\* there is none.
Read(c) ==
  /\ program = "serve" /\ conn[c] = "served" /\ requests[c] # <<>>
  /\ requests' = [requests EXCEPT ![c] = Tail(@)]
  /\ LET k == Head(requests[c])
     IN IF kind[k] = "unknown"
        THEN /\ replies' = [replies EXCEPT ![c] = Append(@, [to |-> k, value |-> "error"])]
             /\ UNCHANGED run
        ELSE /\ run' = [run EXCEPT ![k] = "called"]
             /\ UNCHANGED replies
  /\ UNCHANGED <<poolVars, jobsPool, program, clientVars, conn, job>>

\* The client has closed its end: ServeConn returns, and what it has not read by
\* then it may never read.
Hangup(c) ==
  /\ program = "serve" /\ conn[c] = "served" /\ socket[c] = "closed"
  /\ conn' = [conn EXCEPT ![c] = "over"]
  /\ UNCHANGED <<poolVars, jobsPool, program, clientVars, requests, replies, runVars>>

\* Mutant of RunJob: without a pool there is nothing to do.
RunJobNoPool(k) ==
  /\ program = "serve" /\ run[k] = "called"
  /\ IF kind[k] = "bad"
     THEN program' = "ended" /\ UNCHANGED runVars
     ELSE /\ run' = [run EXCEPT ![k] = "reply"]
          /\ job' = IF jobsPool THEN [job EXCEPT ![k] = "send"] ELSE job
          /\ UNCHANGED program
  /\ UNCHANGED <<poolVars, jobsPool, clientVars, lineVars>>

\* RunJob: arguments of other types end the program, since net/rpc catches no panic;
\* otherwise the job has its goroutine, and RunJob returns.
RunJob(k) ==
  /\ program = "serve" /\ run[k] = "called"
  /\ IF kind[k] = "bad"
     THEN program' = "ended" /\ UNCHANGED runVars
     ELSE /\ run' = [run EXCEPT ![k] = "reply"]
          /\ job' = [job EXCEPT ![k] = "send"]
          /\ UNCHANGED program
  /\ UNCHANGED <<poolVars, jobsPool, clientVars, lineVars>>

\* Mutant of Answer: the answer waits for the job.
AnswerLate(k) ==
  /\ program = "serve" /\ run[k] = "reply" /\ job[k] = "done"
  /\ run' = [run EXCEPT ![k] = "done"]
  /\ replies' = [replies EXCEPT ![by[k]] = Append(@, [to |-> k, value |-> "true"])]
  /\ UNCHANGED <<poolVars, jobsPool, program, clientVars, conn, requests, job>>

\* What RunJob returned goes to the client.
Answer(k) ==
  /\ program = "serve" /\ run[k] = "reply"
  /\ run' = [run EXCEPT ![k] = "done"]
  /\ replies' = [replies EXCEPT ![by[k]] = Append(@, [to |-> k, value |-> "true"])]
  /\ UNCHANGED <<poolVars, jobsPool, program, clientVars, conn, requests, job>>

\* Mutant of JobSend: a job whose client has gone is not sent.
JobSendIfHeard(k) ==
  /\ program = "serve" /\ job[k] = "send" /\ socket[by[k]] = "open"
  /\ IF jobsPool
     THEN Pool!Send(k) /\ job' = [job EXCEPT ![k] = "wait"] /\ UNCHANGED program
     ELSE program' = "ended" /\ UNCHANGED <<poolVars, job>>
  /\ UNCHANGED <<jobsPool, clientVars, lineVars, run>>

\* jobsPool.Call: the job waits for room in the queue; without a pool the nil pointer
\* ends the program.
JobSend(k) ==
  /\ program = "serve" /\ job[k] = "send"
  /\ IF jobsPool
     THEN Pool!Send(k) /\ job' = [job EXCEPT ![k] = "wait"] /\ UNCHANGED program
     ELSE program' = "ended" /\ UNCHANGED <<poolVars, job>>
  /\ UNCHANGED <<jobsPool, clientVars, lineVars, run>>

\* The outcome is logged, whatever it is.
JobDone(k) ==
  /\ program = "serve" /\ job[k] = "wait" /\ k \in answered
  /\ job' = [job EXCEPT ![k] = "done"]
  /\ UNCHANGED <<poolVars, jobsPool, program, clientVars, lineVars, run>>

\* The pool begins jobs, ends them and answers.
PoolBegins ==
  /\ program = "serve" /\ \E w \in Workers : Pool!Begin(w)
  /\ UNCHANGED <<jobsPool, program, clientVars, lineVars, runVars>>
PoolAnswers(k) ==
  /\ program = "serve"
  /\ \/ \E o \in Calls \cup {"mixed"} : Pool!Succeed(k, o)
     \/ \E o \in Failures : Pool!Fail(k, o)
     \/ Pool!AnswerFailed(k)
  /\ UNCHANGED <<jobsPool, program, clientVars, lineVars, runVars>>
-----------------------------------------------------------------------------
Client(k) == Take(k) \/ TakePart(k) \/ Fail(k)
Serve(c) == Accept(c) \/ Read(c)
Handler(k) == RunJob(k) \/ Answer(k)
Job(k) == JobSend(k) \/ JobDone(k)

Next ==
  \/ \E k \in Calls, c \in Clients, q \in Kinds : Send(k, c, q)
  \/ \E c \in Clients : Close(c) \/ Serve(c) \/ Hangup(c)
  \/ \E k \in Calls : Client(k) \/ Handler(k) \/ Job(k) \/ PoolAnswers(k)
  \/ Listen \/ End \/ PoolBegins

Spec == Init /\ [][Next]_vars
-----------------------------------------------------------------------------
\* Every variable has a value of its type.
TypeOK ==
  /\ waiting \in Seq(Calls) /\ sent \subseteq Calls /\ answered \subseteq Calls
  /\ server \in [Calls -> Workers \cup {Nil}]
  /\ outcome \in [Calls -> {"none", "mixed"} \cup Failures \cup Calls]
  /\ jobsPool \in BOOLEAN /\ program \in {"start", "serve", "ended"}
  /\ at \in [Calls -> {"new", "wait", "told", "thrown"}]
  /\ by \in [Calls -> Clients \cup {Nil}] /\ kind \in [Calls -> Kinds]
  /\ reply \in [Calls -> Replies \cup {Nil}]
  /\ socket \in [Clients -> {"null", "open", "closed"}]
  /\ conn \in [Clients -> {"none", "pending", "served", "over"}]
  /\ requests \in [Clients -> Seq(Calls)] /\ replies \in [Clients -> Seq(Replies)]
  /\ cut \subseteq Clients
  /\ run \in [Calls -> {"none", "called", "reply", "done"}]
  /\ job \in [Calls -> {"none", "send", "wait", "done"}]

\* A call returns the reply to its own request, although nobody looks at ids and
\* replies may come after a client has given up (RPC.php 31); unless that client has
\* once been left with a part of a line, after which its socket is out of step.
OwnReply == \A k \in Calls : at[k] = "told" => reply[k].to = k \/ by[k] \in cut

\* The call for which a client is told "true" has a job: on its way to the pool, in it,
\* or answered; only the end of the program loses it.  The one for which it is told of
\* an error has none.  A client that gets an exception cannot know.
RepliesTrue ==
  \A k \in Calls : at[k] = "told" =>
    LET j == reply[k].to IN
    /\ reply[k].value = "error" => j \notin sent /\ job[j] = "none"
    /\ reply[k].value = "true" /\ program = "serve" =>
         job[j] = "send" \/ (jobsPool /\ j \in sent)
-----------------------------------------------------------------------------
(* Progress.                                                               *)

\* The client is told that the program at the other end is gone.
Eof(k) == program = "ended" /\ Fail(k)

\* The Go scheduler runs what can run, and PHP reads what is there.  Nobody promises
\* that the pool works.
Fairness ==
  /\ \A c \in Clients : WF_vars(Serve(c))
  /\ \A k \in Calls : WF_vars(Take(k) \/ Eof(k)) /\ WF_vars(Handler(k)) /\ WF_vars(Job(k))

FairSpec == Spec /\ Fairness

PoolFairness == WF_vars(PoolBegins) /\ \A k \in Calls : WF_vars(PoolAnswers(k))

\* A call that has been sent returns, also if no worker ever does anything and with
\* the queue full; one that sent nothing has only the timeout of its socket.
CallsReturn ==
  \A k \in Calls : at[k] = "wait" /\ kind[k] # "mute" ~> at[k] \in {"told", "thrown"}

\* If the pool begins and answers its jobs, every job that RunJob accepts ends, also
\* if its client has gone, unless the program ends.
JobsEnd ==
  PoolFairness => \A k \in Calls : job[k] = "send" ~> (job[k] = "done" \/ program = "ended")
=============================================================================
