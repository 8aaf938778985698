----------------------------- MODULE WorkerPool -----------------------------
(***************************************************************************)
(* worker.go: the pool of workers that corerunner sends its jobs to.  A    *)
(* worker owns one PHP process and talks to it through a pair of pipes.    *)
(*                                                                         *)
(* Three kinds of goroutines share a Worker: its job loops (jobLoop,       *)
(* timedSend, Restart, Start), one send goroutine per job (send, writeMsg, *)
(* readMsg), and whoever calls Pool.Stop.  Only send and Worker.Stop take  *)
(* the mutex; Restart and Start do not.  An action is the code between two *)
(* uses of a shared field (cmd, read, write), of a channel or of a pipe,   *)
(* so the races on those fields are interleavings of actions.              *)
(*                                                                         *)
(* A job is handled by one job loop iteration and by one send goroutine,   *)
(* so both are named by the job.  A process, its stdin and its stdout are  *)
(* named by who started them: the worker for the process of Pool.Start, a  *)
(* job for the process its Restart started.  The Go values wrk.cmd,        *)
(* wrk.read and wrk.write name the process they belong to.                 *)
(***************************************************************************)
EXTENDS Naturals, Sequences, FiniteSets

CONSTANTS
  Workers,      \* the workers of the pool
  Jobs,         \* the jobs that clients send
  QueueCap,     \* capacity of the queue channel (n*512 in the code)
  Nil,          \* Go's nil
  Stops,        \* does the application call Pool.Stop?
  StrayOutput,  \* do PHP programs print anything but answers on stdout?
  Frames,       \* can the data of a job, without the length in front of it, be
                \* taken for messages?
  MaxFaults     \* bound on processes that die, or do not start, on their own

Stopper == "stopper"    \* Pool.Stop as the holder of a mutex
Outcomes == {"none", "err", "timeout", "mixed"}

ASSUME PoolAssumption ==
  /\ Workers \cap Jobs = {}
  /\ Nil \notin Workers \cup Jobs
  /\ Jobs \cap (Outcomes \cup {Stopper}) = {} /\ Nil # Stopper
  /\ QueueCap \in Nat \ {0}
  /\ {Stops, StrayOutput, Frames} \subseteq BOOLEAN
  /\ MaxFaults \in Nat

VARIABLES
  queue,    \* the channel Pool.queue
  closed,   \* has Stop closed it?
  idle,     \* [w]: the job loops of w that wait in select on the queue
  owner,    \* [j]: the worker whose loop took j
  loop,     \* [j]: where the loop iteration of j is
  reply,    \* [j]: the WorkerResult that iteration returns to the client
  target,   \* [j]: the process whose cmd or reader that iteration has loaded
  send,     \* [j]: where the send goroutine of j is
  pipe,     \* [j]: the process whose writer or reader it has loaded
  got,      \* [j]: what it read
  cmd, read, write,     \* [w]: the fields of the Worker
  mu,       \* [w]: who holds the mutex of the Worker
  proc,     \* [p]: life of process p
  stdin, stdout,        \* [p]: what its pipes hold
  pool,     \* the workers Stop has not stopped yet
  stop,     \* where Pool.Stop is
  stopAt,   \* the worker it is stopping
  waits,    \* the process it waits for, or whose writer it has loaded
  faults,   \* how many processes have died, or not started, on their own
  crashed   \* has a goroutine panicked?  That ends the Go program

queueVars == <<queue, closed, idle>>
loopVars  == <<owner, loop, reply, target>>
sendVars  == <<send, pipe, got>>
fields    == <<cmd, read, write>>
procVars  == <<proc, stdin, stdout, faults>>
stopVars  == <<pool, stop, stopAt, waits>>
vars == <<queueVars, loopVars, sendVars, fields, mu, procVars, stopVars, crashed>>

Procs == Workers \cup Jobs

\* What travels through the pipes.  An answer is a length line and a body.
Token(k, j) == [kind |-> k, job |-> j]
Answer(j) == <<Token("len", j), Token("body", j)>>

Down(p) == proc[p] \in {"dead", "reaped"}

\* A read of p's stdout may return EOF: the process is gone and the pipe is
\* drained, or cmd.Wait has closed the pipe (what bufio holds may still be read).
Eof(p) == \/ proc[p] = "dead" /\ stdout[p] = <<>>
          \/ proc[p] = "reaped"

\* Process p ends; what its stdin holds is lost.
Die(p) ==
  /\ proc' = [proc EXCEPT ![p] = "dead"]
  /\ stdin' = [stdin EXCEPT ![p] = <<>>]

\* A failure that nothing in the Go program caused.
Fault == faults < MaxFaults /\ faults' = faults + 1

Panic ==
  /\ crashed' = TRUE
  /\ UNCHANGED <<queueVars, loopVars, sendVars, fields, mu, procVars, stopVars>>

Goto(j, l) == loop' = [loop EXCEPT ![j] = l]
SendGoto(j, l) == send' = [send EXCEPT ![j] = l]
-----------------------------------------------------------------------------
\* A pool whose Start has returned: every process runs and waits for a job.
Init ==
  /\ queue = <<>> /\ closed = FALSE
  /\ idle = [w \in Workers |-> 1]
  /\ owner = [j \in Jobs |-> Nil]
  /\ loop = [j \in Jobs |-> "new"]
  /\ reply = [j \in Jobs |-> "none"]
  /\ target = [j \in Jobs |-> Nil]
  /\ send = [j \in Jobs |-> "none"]
  /\ pipe = [j \in Jobs |-> Nil]
  /\ got = [j \in Jobs |-> "none"]
  /\ cmd = [w \in Workers |-> w]
  /\ read = [w \in Workers |-> w]
  /\ write = [w \in Workers |-> w]
  /\ mu = [w \in Workers |-> Nil]
  /\ proc = [p \in Procs |-> IF p \in Workers THEN "up" ELSE "none"]
  /\ stdin = [p \in Procs |-> <<>>]
  /\ stdout = [p \in Procs |-> <<>>]
  /\ pool = Workers /\ stop = "none" /\ stopAt = Nil /\ waits = Nil
  /\ faults = 0 /\ crashed = FALSE
-----------------------------------------------------------------------------
(* Clients and the job loop. *)

\* Pool.Send: blocks while the queue is full; panics on a closed channel.
Submit(j) ==
  /\ loop[j] = "new"
  /\ IF closed
     THEN Panic
     ELSE /\ Len(queue) < QueueCap
          /\ queue' = Append(queue, j)
          /\ Goto(j, "queued")
          /\ UNCHANGED <<closed, idle, owner, reply, target, sendVars, fields,
                         mu, procVars, stopVars, crashed>>

\* A loop takes a job, starts the timer and the send goroutine.
Take(w, j) ==
  /\ idle[w] > 0 /\ queue # <<>> /\ j = Head(queue)
  /\ queue' = Tail(queue)
  /\ idle' = [idle EXCEPT ![w] = @ - 1]
  /\ owner' = [owner EXCEPT ![j] = w]
  /\ Goto(j, "select")
  /\ SendGoto(j, "lock")
  /\ UNCHANGED <<closed, reply, target, pipe, got, fields, mu, procVars,
                 stopVars, crashed>>

\* Mutant of LoopExit: the closed queue ends a loop that is not waiting on it.
LoopExitTwice(w) ==
  /\ closed /\ queue = <<>>
  /\ idle' = [idle EXCEPT ![w] = @ - 1]
  /\ UNCHANGED <<queue, closed, loopVars, sendVars, fields, mu, procVars,
                 stopVars, crashed>>

\* The queue is closed and drained: the loop returns.
LoopExit(w) ==
  /\ idle[w] > 0 /\ closed /\ queue = <<>>
  /\ idle' = [idle EXCEPT ![w] = @ - 1]
  /\ UNCHANGED <<queue, closed, loopVars, sendVars, fields, mu, procVars,
                 stopVars, crashed>>

\* Mutant of Answered: jobLoop returns after its answer.
AnsweredAndReturn(j, r) ==
  /\ reply' = [reply EXCEPT ![j] = r]
  /\ Goto(j, "done") /\ UNCHANGED idle

\* jobLoop hands the result r to the waiting client and goes back to the
\* queue.
Answered(j, r) ==
  /\ reply' = [reply EXCEPT ![j] = r]
  /\ Goto(j, "done")
  /\ idle' = [idle EXCEPT ![owner[j]] = @ + 1]

\* Mutant of Receive: an error is answered without a restart.
ReceiveNoRestart(j) ==
  /\ loop[j] = "select" /\ send[j] = "result"
  /\ SendGoto(j, "gone") /\ Answered(j, got[j])
  /\ UNCHANGED <<queue, closed, owner, target, pipe, got, fields, mu, procVars,
                 stopVars, crashed>>

\* timedSend: the send goroutine hands its result over before the timeout.
\* An error restarts the worker.
Receive(j) ==
  /\ loop[j] = "select" /\ send[j] = "result"
  /\ SendGoto(j, "gone")
  /\ IF got[j] = "err"
     THEN /\ reply' = [reply EXCEPT ![j] = "err"]
          /\ Goto(j, "check") /\ UNCHANGED idle
     ELSE Answered(j, got[j])
  /\ UNCHANGED <<queue, closed, owner, target, pipe, got, fields, mu, procVars,
                 stopVars, crashed>>

\* timedSend: the timer fires.  The send goroutine is left behind.
Timeout(j) ==
  /\ loop[j] = "select"
  /\ reply' = [reply EXCEPT ![j] = "timeout"]
  /\ Goto(j, "check")
  /\ UNCHANGED <<queueVars, owner, target, sendVars, fields, mu, procVars,
                 stopVars, crashed>>

\* Mutant of AfterRestart: every failure is formatted with the Pid.
AfterRestartPid(j) ==
  /\ loop[j] = "after"
  /\ IF cmd[owner[j]] = Nil
     THEN Panic
     ELSE /\ Answered(j, reply[j])
          /\ UNCHANGED <<queue, closed, owner, target, sendVars, fields, mu,
                         procVars, stopVars, crashed>>

\* After Restart, whose error is ignored: the timeout branch formats
\* wrk.cmd.Process.Pid.
AfterRestart(j) ==
  /\ loop[j] = "after"
  /\ IF reply[j] = "timeout" /\ cmd[owner[j]] = Nil
     THEN Panic
     ELSE /\ Answered(j, reply[j])
          /\ UNCHANGED <<queue, closed, owner, target, sendVars, fields, mu,
                         procVars, stopVars, crashed>>
-----------------------------------------------------------------------------
(* Restart(true) and Start, run by the loop iteration of j without the     *)
(* mutex.                                                                  *)

\* if wrk.cmd != nil
RestartCheck(j) ==
  /\ loop[j] = "check"
  /\ Goto(j, IF cmd[owner[j]] = Nil THEN "reset" ELSE "kill")
  /\ UNCHANGED <<queueVars, owner, reply, target, sendVars, fields, mu,
                 procVars, stopVars, crashed>>

\* Mutant of RestartKill: the old process is left running.
RestartNoKill(j) ==
  /\ loop[j] = "kill"
  /\ Goto(j, "reset")
  /\ UNCHANGED <<queueVars, owner, reply, target, sendVars, fields, mu,
                 procVars, stopVars, crashed>>

\* wrk.cmd.Process.Kill() fails on a process that was waited for.
RestartKill(j) ==
  LET p == cmd[owner[j]] IN
  /\ loop[j] = "kill"
  /\ IF p = Nil
     THEN Panic
     ELSE /\ IF proc[p] = "reaped"
             THEN Goto(j, "after") /\ UNCHANGED <<proc, stdin>>
             ELSE Goto(j, "wait") /\ Die(p)
          /\ UNCHANGED <<queueVars, owner, reply, target, sendVars, fields, mu,
                         stdout, faults, stopVars, crashed>>

\* wrk.cmd.Wait(): the call loads the field again ...
RestartWait(j) ==
  /\ loop[j] = "wait"
  /\ IF cmd[owner[j]] = Nil
     THEN Panic
     ELSE /\ target' = [target EXCEPT ![j] = cmd[owner[j]]]
          /\ Goto(j, "reap")
          /\ UNCHANGED <<queueVars, owner, reply, sendVars, fields, mu,
                         procVars, stopVars, crashed>>

\* ... and returns when that process is gone.
RestartReap(j) ==
  /\ loop[j] = "reap" /\ Down(target[j])
  /\ proc' = [proc EXCEPT ![target[j]] = "reaped"]
  /\ target' = [target EXCEPT ![j] = Nil]
  /\ Goto(j, "reset")
  /\ UNCHANGED <<queueVars, owner, reply, sendVars, fields, mu, stdin, stdout,
                 faults, stopVars, crashed>>

RestartReset(j) ==
  /\ loop[j] = "reset"
  /\ cmd' = [cmd EXCEPT ![owner[j]] = Nil]
  /\ read' = [read EXCEPT ![owner[j]] = Nil]
  /\ write' = [write EXCEPT ![owner[j]] = Nil]
  /\ Goto(j, "start")
  /\ UNCHANGED <<queueVars, owner, reply, target, sendVars, mu, procVars,
                 stopVars, crashed>>

\* Mutant of StartReader: the reader is shared by all workers.
StartReaderShared(j) ==
  /\ loop[j] = "start"
  /\ read' = [w \in Workers |-> j]
  /\ Goto(j, "spawn")
  /\ UNCHANGED <<queueVars, owner, reply, target, sendVars, cmd, write, mu,
                 procVars, stopVars, crashed>>

\* Start: "already started", or the new stdout reader.
StartReader(j) ==
  /\ loop[j] = "start"
  /\ IF cmd[owner[j]] # Nil
     THEN Goto(j, "after") /\ UNCHANGED read
     ELSE /\ read' = [read EXCEPT ![owner[j]] = j]
          /\ Goto(j, "spawn")
  /\ UNCHANGED <<queueVars, owner, reply, target, sendVars, cmd, write, mu,
                 procVars, stopVars, crashed>>

\* The new stdin writer and cmd.Start(), which may fail.
StartSpawn(j) ==
  /\ loop[j] = "spawn"
  /\ write' = [write EXCEPT ![owner[j]] = j]
  /\ \/ /\ proc' = [proc EXCEPT ![j] = "starting"]
        /\ Goto(j, "read") /\ UNCHANGED faults
     \/ /\ Fault /\ proc' = [proc EXCEPT ![j] = "reaped"]
        /\ Goto(j, "after")
  /\ UNCHANGED <<queueVars, owner, reply, target, sendVars, cmd, read, mu,
                 stdin, stdout, stopVars, crashed>>

\* wrk.read.ReadString and io.ReadAll(wrk.read): the calls load the field
\* again ...
StartRead(j) ==
  /\ loop[j] \in {"read", "other"}
  /\ IF read[owner[j]] = Nil
     THEN Panic
     ELSE /\ target' = [target EXCEPT ![j] = read[owner[j]]]
          /\ Goto(j, IF loop[j] = "read" THEN "line" ELSE "drain")
          /\ UNCHANGED <<queueVars, owner, reply, sendVars, fields, mu,
                         procVars, stopVars, crashed>>


\* ... ReadString returns with a line or with EOF.  A body may have no end of
\* line, then ReadString goes on.
StartLine(j) ==
  /\ loop[j] = "line"
  /\ \/ /\ stdout[target[j]] # <<>>
        /\ stdout' = [stdout EXCEPT ![target[j]] = Tail(@)]
        /\ \/ /\ Goto(j, IF Head(stdout[target[j]]).kind = "ok"
                         THEN "ready" ELSE "other")
              /\ target' = [target EXCEPT ![j] = Nil]
           \/ /\ Head(stdout[target[j]]).kind = "body"
              /\ UNCHANGED <<loop, target>>
     \/ /\ Eof(target[j])
        /\ Goto(j, "after") /\ target' = [target EXCEPT ![j] = Nil]
        /\ UNCHANGED stdout
  /\ UNCHANGED <<queueVars, owner, reply, sendVars, fields, mu, proc, stdin,
                 faults, stopVars, crashed>>

\* The line is not "ok": io.ReadAll takes all that comes, until EOF.
StartDrain(j) ==
  /\ loop[j] = "drain"
  /\ \/ /\ stdout[target[j]] # <<>>
        /\ stdout' = [stdout EXCEPT ![target[j]] = Tail(@)]
        /\ UNCHANGED <<loop, target>>
     \/ /\ Eof(target[j])
        /\ target' = [target EXCEPT ![j] = Nil]
        /\ Goto(j, "after") /\ UNCHANGED stdout
  /\ UNCHANGED <<queueVars, owner, reply, sendVars, fields, mu, proc, stdin,
                 faults, stopVars, crashed>>

\* wrk.cmd = cmd; go wrk.jobLoop() -- one more loop for the same worker.
StartDone(j) ==
  /\ loop[j] = "ready"
  /\ cmd' = [cmd EXCEPT ![owner[j]] = j]
  /\ idle' = [idle EXCEPT ![owner[j]] = @ + 1]
  /\ Goto(j, "after")
  /\ UNCHANGED <<queue, closed, owner, reply, target, sendVars, read, write,
                 mu, procVars, stopVars, crashed>>
-----------------------------------------------------------------------------
(* The send goroutine of j.                                                *)

\* send returns r: the deferred Unlock, then the goroutine offers r to
\* timedSend -- for ever if that has timed out.
Finish(j, r) ==
  /\ SendGoto(j, "result")
  /\ got' = [got EXCEPT ![j] = r]
  /\ pipe' = [pipe EXCEPT ![j] = Nil]
  /\ mu' = [mu EXCEPT ![owner[j]] = Nil]

\* The next step of send has loaded the pipes of p.
Load(j, p, l) ==
  /\ pipe' = [pipe EXCEPT ![j] = p]
  /\ SendGoto(j, l)

\* Mutant of SendLock: send does not wait for the mutex.
SendNoLock(j) ==
  /\ send[j] = "lock"
  /\ mu' = [mu EXCEPT ![owner[j]] = j]
  /\ SendGoto(j, "write")
  /\ UNCHANGED <<queueVars, loopVars, pipe, got, fields, procVars, stopVars,
                 crashed>>

SendLock(j) ==
  /\ send[j] = "lock" /\ mu[owner[j]] = Nil
  /\ mu' = [mu EXCEPT ![owner[j]] = j]
  /\ SendGoto(j, "write")
  /\ UNCHANGED <<queueVars, loopVars, pipe, got, fields, procVars, stopVars,
                 crashed>>

\* writeMsg: the nil check, and the length into the writer's buffer.
SendWrite(j) ==
  LET p == write[owner[j]] IN
  /\ send[j] = "write"
  /\ IF p = Nil
     THEN Finish(j, "err")
     ELSE Load(j, p, "flush") /\ UNCHANGED <<got, mu>>
  /\ UNCHANGED <<queueVars, loopVars, fields, procVars, stopVars, crashed>>

\* writeMsg: the body and Flush load wrk.write again.  A body whose length
\* went to another writer is garbage to the process that receives it.
SendFlush(j) ==
  LET p == write[owner[j]]
      kind == IF p = pipe[j] THEN "msg" ELSE "garbage"
  IN
  /\ send[j] = "flush"
  /\ IF p = Nil
     THEN Panic
     ELSE /\ IF Down(p)
             THEN Finish(j, "err") /\ UNCHANGED stdin
             ELSE /\ stdin' = [stdin EXCEPT ![p] = Append(@, Token(kind, j))]
                  /\ Load(j, Nil, "read") /\ UNCHANGED <<got, mu>>
          /\ UNCHANGED <<queueVars, loopVars, fields, proc, stdout, faults,
                         stopVars, crashed>>

\* readMsg: the nil check and the reader of the length line.
SendRead(j) ==
  LET p == read[owner[j]] IN
  /\ send[j] = "read"
  /\ IF p = Nil
     THEN Finish(j, "err")
     ELSE Load(j, p, "length") /\ UNCHANGED <<got, mu>>
  /\ UNCHANGED <<queueVars, loopVars, fields, procVars, stopVars, crashed>>

\* A length, a line that is no number, or EOF.  A body may have no end of line,
\* then ReadString goes on and what it returns is no number.
SendLength(j) ==
  LET p == pipe[j]
      IsLength == Head(stdout[p]).kind = "len" /\ got[j] = "none"
  IN
  /\ send[j] = "length"
  /\ \/ /\ stdout[p] # <<>>
        /\ stdout' = [stdout EXCEPT ![p] = Tail(@)]
        /\ \/ /\ IsLength
              /\ got' = [got EXCEPT ![j] = Head(stdout[p]).job]
              /\ Load(j, Nil, "body") /\ UNCHANGED mu
           \/ ~IsLength /\ Finish(j, "err")
           \/ /\ Head(stdout[p]).kind = "body"
              /\ got' = [got EXCEPT ![j] = "mixed"]
              /\ UNCHANGED <<send, pipe, mu>>
     \/ Eof(p) /\ Finish(j, "err") /\ UNCHANGED stdout
  /\ UNCHANGED <<queueVars, loopVars, fields, proc, stdin, faults, stopVars,
                 crashed>>

\* io.CopyN loads wrk.read again ...
SendBody(j) ==
  LET p == read[owner[j]] IN
  /\ send[j] = "body"
  /\ IF p = Nil
     THEN Panic
     ELSE /\ Load(j, p, "copy")
          /\ UNCHANGED <<queueVars, loopVars, got, fields, mu, procVars,
                         stopVars, crashed>>

\* ... and returns with ln bytes or with EOF.  Bytes that are not the body the
\* length announced make a mixed answer, once there are enough of them.
SendCopy(j) ==
  LET p == pipe[j] IN
  /\ send[j] = "copy"
  /\ \/ /\ stdout[p] # <<>>
        /\ stdout' = [stdout EXCEPT ![p] = Tail(@)]
        /\ IF Head(stdout[p]) = Token("body", got[j])
           THEN Finish(j, got[j])
           ELSE Finish(j, "mixed") \/ UNCHANGED <<send, pipe, got, mu>>
     \/ Eof(p) /\ Finish(j, "err") /\ UNCHANGED stdout
  /\ UNCHANGED <<queueVars, loopVars, fields, proc, stdin, faults, stopVars,
                 crashed>>
-----------------------------------------------------------------------------
(* PHP processes (Dispatcher.php).                                         *)

\* Print output that is not an answer: a warning, an echo in the handler.
ProcStray(p) ==
  /\ StrayOutput /\ proc[p] \in {"starting", "up"}
  /\ \A i \in DOMAIN stdout[p] : stdout[p][i].kind # "noise"
  /\ stdout' = [stdout EXCEPT ![p] = Append(@, Token("noise", Nil))]
  /\ UNCHANGED <<queueVars, loopVars, sendVars, fields, mu, proc, stdin, faults,
                 stopVars, crashed>>

\* Dispatcher::run announces itself.
ProcReady(p) ==
  /\ proc[p] = "starting"
  /\ proc' = [proc EXCEPT ![p] = "up"]
  /\ stdout' = [stdout EXCEPT ![p] = Append(@, Token("ok", Nil))]
  /\ UNCHANGED <<queueVars, loopVars, sendVars, fields, mu, stdin, faults,
                 stopVars, crashed>>

\* A body without its length.  Any line that begins with a number, or is blank,
\* passes for a length, so PHP may answer a message that nobody sent (bound: one
\* such answer is pending); after that it is in step with its input again, or is
\* not, or has read the next item as part of the body.
ProcFrames(p) ==
  /\ Frames /\ Head(stdin[p]).kind = "garbage"
  /\ \/ UNCHANGED stdout
     \/ /\ \A i \in DOMAIN stdout[p] : stdout[p][i].job # "mixed"
        /\ stdout' = [stdout EXCEPT ![p] = @ \o Answer("mixed")]
  /\ \/ stdin' = [stdin EXCEPT ![p] = Tail(@)]
     \/ UNCHANGED stdin
     \/ /\ Tail(stdin[p]) # <<>>
        /\ stdin' = [stdin EXCEPT ![p] = <<Head(@)>> \o Tail(Tail(@))]
  /\ UNCHANGED proc

\* Dispatcher::run handles one message and sends the answer, or ends on the
\* empty line of Stop and on anything it cannot parse.
ProcHandle(p) ==
  /\ proc[p] = "up" /\ stdin[p] # <<>>
  /\ \/ /\ Head(stdin[p]).kind = "msg"
        /\ stdout' = [stdout EXCEPT ![p] = @ \o Answer(Head(stdin[p]).job)]
        /\ stdin' = [stdin EXCEPT ![p] = Tail(@)]
        /\ UNCHANGED proc
     \/ Head(stdin[p]).kind # "msg" /\ Die(p) /\ UNCHANGED stdout
     \/ ProcFrames(p)
  /\ UNCHANGED <<queueVars, loopVars, sendVars, fields, mu, faults, stopVars,
                 crashed>>

\* The process dies: an exception in the handler, exhausted memory, a signal;
\* perhaps after the length of an answer.
ProcDie(p) ==
  /\ proc[p] \in {"starting", "up"} /\ Fault
  /\ Die(p)
  /\ \/ UNCHANGED stdout
     \/ /\ proc[p] = "up" /\ stdin[p] # <<>> /\ Head(stdin[p]).kind = "msg"
        /\ stdout' = [stdout EXCEPT ![p] =
                        Append(@, Token("len", Head(stdin[p]).job))]
  /\ UNCHANGED <<queueVars, loopVars, sendVars, fields, mu, stopVars, crashed>>
-----------------------------------------------------------------------------
(* Pool.Stop, which calls Worker.Stop for every worker in turn.            *)

StopClose ==
  /\ Stops /\ stop = "none"
  /\ closed' = TRUE
  /\ stop' = "next"
  /\ UNCHANGED <<queue, idle, loopVars, sendVars, fields, mu, procVars, pool,
                 stopAt, waits, crashed>>

\* Take the mutex of the next worker; the pool is empty after the last.
StopNext ==
  /\ stop = "next"
  /\ \/ /\ pool = {} /\ stop' = "stopped"
        /\ UNCHANGED <<pool, stopAt, mu>>
     \/ \E w \in pool :
          /\ mu[w] = Nil
          /\ mu' = [mu EXCEPT ![w] = Stopper]
          /\ pool' = pool \ {w} /\ stopAt' = w /\ stop' = "check"
  /\ UNCHANGED <<queueVars, loopVars, sendVars, fields, procVars, waits, crashed>>

StopUnlock ==
  /\ mu' = [mu EXCEPT ![stopAt] = Nil]
  /\ stop' = "next"

\* if wrk.cmd == nil
StopCheck ==
  /\ stop = "check"
  /\ IF cmd[stopAt] = Nil THEN StopUnlock ELSE stop' = "write" /\ UNCHANGED mu
  /\ UNCHANGED <<queueVars, loopVars, sendVars, fields, procVars, pool, stopAt,
                 waits, crashed>>

\* An empty line, which asks the process to end, into the writer's buffer.
StopWrite ==
  /\ stop = "write"
  /\ IF write[stopAt] = Nil
     THEN Panic
     ELSE /\ waits' = write[stopAt] /\ stop' = "flush"
          /\ UNCHANGED <<queueVars, loopVars, sendVars, fields, mu, procVars,
                         pool, stopAt, crashed>>

\* Mutant of StopFlush: the empty line is not sent and nobody waits.
StopNoFlush ==
  /\ stop = "flush"
  /\ waits' = Nil /\ StopUnlock
  /\ UNCHANGED <<queueVars, loopVars, sendVars, fields, procVars, pool, stopAt,
                 crashed>>

\* Flush loads wrk.write again; another writer has nothing to send.
StopFlush ==
  LET p == write[stopAt] IN
  /\ stop = "flush"
  /\ IF p = Nil
     THEN Panic
     ELSE /\ waits' = Nil
          /\ IF p = waits /\ Down(p)
             THEN StopUnlock /\ UNCHANGED stdin
             ELSE /\ stdin' = IF p = waits
                              THEN [stdin EXCEPT ![p] = Append(@, Token("quit", Nil))]
                              ELSE stdin
                  /\ stop' = "wait" /\ UNCHANGED mu
          /\ UNCHANGED <<queueVars, loopVars, sendVars, fields, proc, stdout,
                         faults, pool, stopAt, crashed>>

\* wrk.cmd.Wait(): the call loads the field again ...
StopWait ==
  /\ stop = "wait"
  /\ IF cmd[stopAt] = Nil
     THEN Panic
     ELSE /\ waits' = cmd[stopAt] /\ stop' = "reap"
          /\ UNCHANGED <<queueVars, loopVars, sendVars, fields, mu, procVars,
                         pool, stopAt, crashed>>

\* ... and returns when that process is gone; a clean exit is followed by
\* reset, any other (or an earlier Wait) by an error.
StopReap ==
  /\ stop = "reap" /\ Down(waits)
  /\ proc' = [proc EXCEPT ![waits] = "reaped"]
  /\ \/ /\ proc[waits] = "dead"
        /\ cmd' = [cmd EXCEPT ![stopAt] = Nil]
        /\ read' = [read EXCEPT ![stopAt] = Nil]
        /\ write' = [write EXCEPT ![stopAt] = Nil]
     \/ UNCHANGED fields
  /\ waits' = Nil /\ StopUnlock
  /\ UNCHANGED <<queueVars, loopVars, sendVars, stdin, stdout, faults, pool,
                 stopAt, crashed>>
-----------------------------------------------------------------------------
Restart(j) ==
  \/ RestartCheck(j) \/ RestartKill(j) \/ RestartWait(j) \/ RestartReap(j)
  \/ RestartReset(j)
  \/ StartReader(j) \/ StartSpawn(j) \/ StartRead(j) \/ StartLine(j)
  \/ StartDrain(j) \/ StartDone(j)

Loop(j) ==
  \/ Receive(j) \/ Timeout(j) \/ Restart(j) \/ AfterRestart(j)

Sender(j) ==
  \/ SendLock(j) \/ SendWrite(j) \/ SendFlush(j) \/ SendRead(j)
  \/ SendLength(j) \/ SendBody(j) \/ SendCopy(j)

Process(p) ==
  ProcStray(p) \/ ProcReady(p) \/ ProcHandle(p) \/ ProcDie(p)

Stop ==
  \/ StopClose \/ StopNext \/ StopCheck \/ StopWrite \/ StopFlush \/ StopWait
  \/ StopReap

Next ==
  /\ ~crashed
  /\ \/ \E j \in Jobs : Submit(j) \/ Loop(j) \/ Sender(j)
     \/ \E w \in Workers : LoopExit(w) \/ \E j \in Jobs : Take(w, j)
     \/ \E p \in Procs : Process(p)
     \/ Stop

Spec == Init /\ [][Next]_vars
-----------------------------------------------------------------------------
Tokens == [kind : {"ok", "noise", "quit"}, job : {Nil}]
          \cup [kind : {"msg", "garbage"}, job : Jobs]
          \cup [kind : {"len", "body"}, job : Jobs \cup {"mixed"}]

QueueType ==
  /\ queue \in Seq(Jobs) /\ closed \in BOOLEAN
  /\ idle \in [Workers -> Nat]

LoopType ==
  /\ owner \in [Jobs -> Workers \cup {Nil}]
  /\ loop \in [Jobs -> {"new", "queued", "select", "check", "kill", "wait",
                        "reap", "reset", "start", "spawn", "read", "line",
                        "other", "drain", "ready", "after", "done"}]
  /\ reply \in [Jobs -> Outcomes \cup Jobs]
  /\ target \in [Jobs -> Procs \cup {Nil}]

SendType ==
  /\ send \in [Jobs -> {"none", "lock", "write", "flush", "read", "length",
                        "body", "copy", "result", "gone"}]
  /\ pipe \in [Jobs -> Procs \cup {Nil}]
  /\ got \in [Jobs -> Outcomes \cup Jobs]

FieldType ==
  /\ cmd \in [Workers -> Procs \cup {Nil}]
  /\ read \in [Workers -> Procs \cup {Nil}]
  /\ write \in [Workers -> Procs \cup {Nil}]

MutexType == mu \in [Workers -> Jobs \cup {Stopper, Nil}]

ProcType ==
  /\ proc \in [Procs -> {"none", "starting", "up", "dead", "reaped"}]
  /\ stdin \in [Procs -> Seq(Tokens)]
  /\ stdout \in [Procs -> Seq(Tokens)]
  /\ faults \in Nat

StopType ==
  /\ pool \subseteq Workers
  /\ stop \in {"none", "next", "check", "write", "flush", "wait", "reap", "stopped"}
  /\ stopAt \in Workers \cup {Nil}
  /\ waits \in Procs \cup {Nil}

\* Every variable has a value of its type; in particular no job loop is counted
\* away that is not there, and an answer read in two parts still has an owner.
TypeOK ==
  /\ QueueType /\ LoopType /\ SendType /\ FieldType
  /\ MutexType /\ ProcType /\ StopType
  /\ crashed \in BOOLEAN

QueueWell ==
  /\ \A i \in DOMAIN queue : loop[queue[i]] = "queued"
  /\ \A i, k \in DOMAIN queue : queue[i] = queue[k] => i = k

JobWell(j) ==
  /\ loop[j] \in {"new", "queued"} <=> owner[j] = Nil
  /\ owner[j] = Nil => send[j] = "none" /\ target[j] = Nil /\ pipe[j] = Nil
  /\ loop[j] \in {"reap", "line", "drain"} => target[j] # Nil
  /\ send[j] \in {"length", "copy"} => pipe[j] # Nil

\* Where Worker.Stop holds the mutex of a worker.
Stopping == {"check", "write", "flush", "wait", "reap"}

StopWell ==
  /\ stop \in Stopping => stopAt # Nil
  /\ stop \in {"flush", "reap"} <=> waits # Nil

\* A job is in one place: in the queue once, in no goroutine and without a
\* worker, or out of the queue for good.  A goroutine that waits on a process has
\* one to wait on.
WellFormed == QueueWell /\ (\A j \in Jobs : JobWell(j)) /\ StopWell
-----------------------------------------------------------------------------
(* Who works with whose pipes.                                             *)

\* The processes of a worker: the one Pool.Start started, and those its own
\* restarts started.
ProcsOf(w) == {w} \cup {j \in Jobs : owner[j] = w}

\* The send goroutines of w that hold or use its pipes.
InSend(w) ==
  {j \in Jobs : owner[j] = w
     /\ send[j] \in {"write", "flush", "read", "length", "body", "copy"}}

InStop(w) == stopAt = w /\ stop \in Stopping

\* Of the send goroutines of a worker (one per job that has timed out may still
\* be around) and of Pool.Stop, only the holder of the mutex is between writeMsg
\* and the end of readMsg: a message is followed by its answer, not by another
\* message.
OneSender ==
  \A w \in Workers :
    /\ InSend(w) = {j \in Jobs : mu[w] = j}
    /\ InStop(w) <=> mu[w] = Stopper

\* Workers run restarts and sends at the same time, but whatever the order no
\* field, loaded pipe or pending Wait of a worker is of another worker's process.
Isolation ==
  /\ \A w \in Workers : {cmd[w], read[w], write[w]} \subseteq ProcsOf(w) \cup {Nil}
  /\ \A j \in Jobs : owner[j] # Nil =>
       {target[j], pipe[j]} \subseteq ProcsOf(owner[j]) \cup {Nil}
  /\ stopAt # Nil => waits \in ProcsOf(stopAt) \cup {Nil}
-----------------------------------------------------------------------------
(* What restarts do to a worker.                                           *)

Active(w) == {j \in Jobs : owner[j] = w /\ loop[j] # "done"}

\* The jobs of w whose restart got as far as a new process.
Restarted(w) == {j \in Jobs : owner[j] = w /\ proc[j] # "none"}

\* A worker never loses its job loop before the queue is closed, whatever fails in
\* timedSend, Restart or Start.  It may gain one with every successful Start
\* (worker.go 179), but no more than that.
LoopsKept ==
  \A w \in Workers :
    /\ ~closed => idle[w] + Cardinality(Active(w)) >= 1
    /\ idle[w] + Cardinality(Active(w)) <= 1 + Cardinality(Restarted(w))

Failures == {"err", "timeout"}
Failed(w) == {j \in Jobs : owner[j] = w /\ reply[j] \in Failures}
Restarting(w) == {j \in Active(w) : loop[j] # "select"}

Alive(p) == proc[p] \in {"starting", "up"}

\* The first failure of a worker leaves it in one piece, although the send
\* goroutine that timed out runs on while Restart replaces the pipes under it, and
\* Pool.Stop may reset them: the worker has at most one live process, and once the
\* restart is over its fields name the same process or it has none.
FirstFailureContained ==
  \A w \in Workers : Cardinality(Failed(w)) <= 1 =>
    /\ Cardinality({p \in ProcsOf(w) : Alive(p)}) <= 1
    /\ Restarting(w) = {} /\ cmd[w] # Nil => cmd[w] = read[w] /\ read[w] = write[w]

\* No client gets the answer to the data of another (worker.go 254: send sends
\* data to the process, "waits for its answer and returns it").
NoCrossTalk == \A j, k \in Jobs : reply[j] = k => j = k

\* No goroutine panics: a timeout restarts the worker and returns an error
\* (worker.go 70-72).
NoPanic == ~crashed

\* A panic needs Pool.Stop, a timeout, or a second failure of one worker: a process
\* that dies costs the answer to one job (worker.go 359), also if it cannot be
\* started again.
PanicCauses ==
  crashed =>
    \/ closed
    \/ \E w \in Workers : Cardinality(Failed(w)) > 1 \/ \E j \in Failed(w) : reply[j] = "timeout"

\* Pool.Stop stops all started processes (worker.go 79).
StopStops == stop = "stopped" => \A p \in Procs : ~Alive(p)

\* Stop leaves no process behind if no job has failed, whatever processes have
\* died on their own.
CleanStop ==
  stop = "stopped" /\ (\A w \in Workers : Failed(w) = {}) => \A p \in Procs : ~Alive(p)

\* To a client the pool is a JobService: it loses, repeats and reorders no job, and
\* if PHP programs print nothing but answers it gives no wrong answer before a
\* worker has failed twice, or once by a timeout if data may be taken for messages.
Service == INSTANCE JobService WITH
  waiting <- queue,
  sent <- {j \in Jobs : loop[j] # "new"},
  server <- owner,
  outcome <- reply,
  answered <- {j \in Jobs : loop[j] = "done"},
  Spoilers <- IF Frames THEN {"timeout"} ELSE {},
  Results <- Jobs \cup {"mixed"}

ServiceSpec == Service!Spec
-----------------------------------------------------------------------------
(* Progress.                                                               *)

Running(A) == ~crashed /\ A

\* The Go scheduler runs every job loop that can go on, the timer fires, and a
\* PHP process that has been started says "ok" or dies.  Neither the handlers of
\* the PHP program nor the send goroutines that wait for them need to finish.
Fairness ==
  /\ \A j \in Jobs : WF_vars(Running(Loop(j)))
  /\ \A w \in Workers : WF_vars(Running(\E j \in Jobs : Take(w, j)))
  /\ \A p \in Procs : WF_vars(Running(ProcReady(p)))

FairSpec == Spec /\ Fairness

\* Start waits for the line of a process that has nothing left to say: another
\* goroutine has read it.
Robbed(j) ==
  /\ loop[j] \in {"line", "drain"}
  /\ proc[target[j]] = "up" /\ stdout[target[j]] = <<>>


\* Every job that is sent is answered if no goroutine panics
\* (worker.go 70-72: the worker is restarted and an error returned).
AlwaysAnswered ==
  \A j \in Jobs : loop[j] = "queued" ~> (loop[j] = "done" \/ crashed)
=============================================================================
