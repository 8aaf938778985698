----------------------------- MODULE HTTPServer -----------------------------
(***************************************************************************)
(* The HTTP side of cmd/server: main starts the pool (worker.go 38-68) and *)
(* then serves requests, first from files (http/static.go), then from the  *)
(* PHP workers (http/worker.go).  The pool appears as the JobService that  *)
(* WorkerPool implements; a request is a job of it.                        *)
(*                                                                         *)
(* Every request runs in a goroutine of its own.  What they share is       *)
(* timeoutsCount, read and written without a lock, and the program, which  *)
(* any of them may end.                                                    *)
(***************************************************************************)
EXTENDS Naturals, Sequences, FiniteSets

CONSTANTS
  Requests, Workers, QueueCap, Nil,
  MaxTimeouts   \* maxTimeouts: 2 per worker in the server

ASSUME HTTPAssumption ==
  /\ IsFiniteSet(Requests) /\ Nil \notin Workers
  /\ Requests \cap {"none", "mixed", "err", "timeout"} = {}
  /\ MaxTimeouts \in Nat \ {0}

VARIABLES
  waiting, sent, server, outcome, answered,   \* the pool: see JobService
  tried,       \* the workers whose Start has returned
  pool,        \* p.pool: those that run
  werr,        \* has Pool.Start an error to return?
  program,     \* "start", "serve", or why the program has ended
  at,          \* [r]: where ServeHTTP of r is
  status,      \* [r]: the response
  count,       \* timeoutsCount
  mine,        \* [r]: what r is going to store in it
  history,     \* what the handlers have received from the pool, in that order
  overlapped   \* has one received something while another worked on the counter?

poolVars == <<waiting, sent, server, outcome, answered>>
startVars == <<tried, pool, werr>>
countVars == <<count, mine>>
pastVars == <<history, overlapped>>
vars == <<poolVars, startVars, program, at, status, countVars, pastVars>>

Failures == {"err", "timeout"}

Pool == INSTANCE JobService WITH
  Jobs <- Requests, Results <- Requests \cup {"mixed"}, Spoilers <- {"timeout"}

Init ==
  /\ Pool!Init
  /\ tried = {} /\ pool = {} /\ werr = FALSE /\ program = "start"
  /\ at = [r \in Requests |-> "new"]
  /\ status = [r \in Requests |-> "none"]
  /\ count = 0 /\ mine = [r \in Requests |-> 0]
  /\ history = <<>> /\ overlapped = FALSE

Goto(r, l) == at' = [at EXCEPT ![r] = l]

Respond(r, s) ==
  /\ status' = [status EXCEPT ![r] = s]
  /\ Goto(r, "done")
-----------------------------------------------------------------------------
(* Pool.Start: one goroutine per worker, and main waits for all of them.   *)

\* Mutant of StartWorker: werr is assigned whether or not there is an error.
StartWorkerLastErr(w) ==
  /\ program = "start" /\ w \notin tried
  /\ tried' = tried \cup {w}
  /\ \/ pool' = pool \cup {w} /\ werr' = FALSE
     \/ werr' = TRUE /\ UNCHANGED pool
  /\ UNCHANGED <<poolVars, program, at, status, countVars, pastVars>>

\* A worker starts and joins the pool, or its error becomes the one to return.
StartWorker(w) ==
  /\ program = "start" /\ w \notin tried
  /\ tried' = tried \cup {w}
  /\ \/ pool' = pool \cup {w} /\ UNCHANGED werr
     \/ werr' = TRUE /\ UNCHANGED pool
  /\ UNCHANGED <<poolVars, program, at, status, countVars, pastVars>>

\* log.Fatal, or the handlers are registered and the server listens.
StartDone ==
  /\ program = "start" /\ tried = Workers
  /\ program' = IF werr THEN "not started" ELSE "serve"
  /\ UNCHANGED <<poolVars, startVars, at, status, countVars, pastVars>>
-----------------------------------------------------------------------------
(* ServeHTTP of the two handlers.                                          *)

\* What os.Stat says of the path, and of the path with ".html".
Files == {"plain", "special", "missing", "error"}

\* serveFile: a plain file that is not executable is served; any error but a
\* missing file ends the request with an empty response.
Served(file) == CASE file = "plain" -> "file" [] file = "error" -> "empty" [] OTHER -> "none"

\* StaticHandler: GET looks for a file, unless the path is hidden, and for one
\* with ".html" if the path has no extension; what it does not find is for the
\* workers.
Static(r) ==
  /\ at[r] = "new"
  /\ \E visibleGet, ext \in BOOLEAN : \E file, html \in Files :
       LET found == IF ~visibleGet THEN "none"
                    ELSE IF Served(file) # "none" \/ ext THEN Served(file)
                    ELSE Served(html)
       IN IF found = "none" THEN Goto(r, "form") /\ UNCHANGED status
          ELSE Respond(r, found)
  /\ UNCHANGED <<poolVars, startVars, program, countVars, pastVars>>

\* formRequest and Write: a body that cannot be read is answered 500; an uploaded
\* file that is no file of its own fails the assertion of its type (171), and
\* net/http catches the panic.
Form(r) ==
  /\ at[r] = "form"
  /\ \/ Goto(r, "send") /\ UNCHANGED status
     \/ \E s \in {"500", "aborted"} : Respond(r, s)
  /\ UNCHANGED <<poolVars, startVars, program, countVars, pastVars>>

\* wrks.Send waits for room in the queue.
SendJob(r) ==
  /\ at[r] = "send"
  /\ Pool!Send(r)
  /\ Goto(r, "wait")
  /\ UNCHANGED <<startVars, program, status, countVars, pastVars>>

\* The requests whose handlers work on the counter.
Counting == {r \in Requests : at[r] \in {"load", "store", "compare", "reset"}}

\* <-wrkCh: the handler of r receives what the pool has for it.
Arrive(r) ==
  /\ at[r] = "wait" /\ r \in answered
  /\ history' = Append(history, IF outcome[r] \in Failures THEN outcome[r] ELSE "answer")
  /\ overlapped' = (overlapped \/ Counting # {})

\* Mutant of Receive: an error that is no timeout is taken for an answer.
ReceiveIgnoreErr(r) ==
  /\ Arrive(r)
  /\ Goto(r, IF outcome[r] = "timeout" THEN "load" ELSE "reset")
  /\ UNCHANGED <<poolVars, startVars, program, status, countVars>>

\* Mutant of Receive: a timeout is no answer, the handler waits on.
ReceiveNoTimeout(r) ==
  /\ Arrive(r) /\ outcome[r] # "timeout"
  /\ IF outcome[r] = "err" THEN Respond(r, "500") ELSE Goto(r, "reset") /\ UNCHANGED status
  /\ UNCHANGED <<poolVars, startVars, program, countVars>>

Receive(r) ==
  /\ Arrive(r)
  /\ CASE outcome[r] = "timeout" -> Goto(r, "load") /\ UNCHANGED status
       [] outcome[r] = "err" -> Respond(r, "500")
       [] OTHER -> Goto(r, "reset") /\ UNCHANGED status
  /\ UNCHANGED <<poolVars, startVars, program, countVars>>

\* h.timeoutsCount = h.timeoutsCount + 1: the load ...
Load(r) ==
  /\ at[r] = "load"
  /\ mine' = [mine EXCEPT ![r] = count + 1]
  /\ Goto(r, "store")
  /\ UNCHANGED <<poolVars, startVars, program, status, count, pastVars>>

\* Mutant of Store: the counter jumps to the limit.
StoreLimit(r) ==
  /\ at[r] = "store"
  /\ count' = MaxTimeouts
  /\ mine' = [mine EXCEPT ![r] = MaxTimeouts]
  /\ Goto(r, "compare")
  /\ UNCHANGED <<poolVars, startVars, program, status, pastVars>>

\* ... and the store.
Store(r) ==
  /\ at[r] = "store"
  /\ count' = mine[r]
  /\ Goto(r, "compare")
  /\ UNCHANGED <<poolVars, startVars, program, status, mine, pastVars>>

\* Mutant of Compare: the limit is reached one timeout late.
CompareLate(r) ==
  /\ at[r] = "compare"
  /\ IF count > MaxTimeouts
     THEN program' = "timeouts" /\ UNCHANGED <<at, status>>
     ELSE Respond(r, "500") /\ UNCHANGED program
  /\ UNCHANGED <<poolVars, startVars, countVars, pastVars>>

\* if h.timeoutsCount == h.maxTimeouts: a build compares the value it has just
\* stored, or loads the counter again.
Compare(r) ==
  /\ at[r] = "compare"
  /\ \E seen \in {mine[r], count} :
       IF seen = MaxTimeouts
       THEN program' = "timeouts" /\ UNCHANGED <<at, status>>
       ELSE Respond(r, "500") /\ UNCHANGED program
  /\ UNCHANGED <<poolVars, startVars, countVars, pastVars>>

\* An answer resets the counter.  One that cannot be parsed is answered 500; a
\* status that HTTP does not know makes WriteHeader panic, which net/http
\* catches.
Reset(r) ==
  /\ at[r] = "reset"
  /\ count' = 0
  /\ \E s \in {"answer", "500", "aborted"} : Respond(r, s)
  /\ UNCHANGED <<poolVars, startVars, program, mine, pastVars>>
-----------------------------------------------------------------------------
Handler(r) ==
  /\ program = "serve"
  /\ \/ Form(r) \/ SendJob(r) \/ Receive(r)
     \/ Load(r) \/ Store(r) \/ Compare(r) \/ Reset(r)

\* The pool begins jobs, ends them and answers.
PoolBegins ==
  /\ program = "serve" /\ \E w \in pool : Pool!Begin(w)
  /\ UNCHANGED <<startVars, program, at, status, countVars, pastVars>>
PoolAnswers(r) ==
  /\ program = "serve"
  /\ \/ \E o \in Requests \cup {"mixed"} : Pool!Succeed(r, o)
     \/ \E o \in Failures : Pool!Fail(r, o)
     \/ Pool!AnswerFailed(r)
  /\ UNCHANGED <<startVars, program, at, status, countVars, pastVars>>

Next ==
  \/ StartDone \/ \E w \in Workers : StartWorker(w)
  \/ \E r \in Requests : program = "serve" /\ Static(r)
  \/ PoolBegins
  \/ \E r \in Requests : Handler(r) \/ PoolAnswers(r)

Spec == Init /\ [][Next]_vars
-----------------------------------------------------------------------------
\* Every variable has a value of its type.
TypeOK ==
  /\ waiting \in Seq(Requests) /\ sent \subseteq Requests /\ answered \subseteq Requests
  /\ server \in [Requests -> Workers \cup {Nil}]
  /\ outcome \in [Requests -> {"none", "mixed"} \cup Failures \cup Requests]
  /\ tried \subseteq Workers /\ pool \subseteq tried /\ werr \in BOOLEAN
  /\ program \in {"start", "serve", "not started", "timeouts"}
  /\ at \in [Requests -> {"new", "form", "send", "wait", "load", "store",
                          "compare", "reset", "done"}]
  /\ status \in [Requests -> {"none", "file", "empty", "answer", "500", "aborted"}]
  /\ count \in Nat /\ mine \in [Requests -> Nat]
  /\ history \in Seq(Failures \cup {"answer"}) /\ overlapped \in BOOLEAN

\* Whatever the order in which workers start and fail, the program serves only
\* with all of them: one error is enough to end it (worker.go 52, main.go 60).
AllWorkersOrNone == program = "serve" => pool = Workers

TimedOut == {r \in Requests : outcome[r] = "timeout" /\ r \in answered}

\* Increments and resets get lost between concurrent requests, but the counter
\* never runs ahead: the program is not ended before MaxTimeouts requests have
\* timed out.
ExitNeedsTimeouts ==
  program = "timeouts" => Cardinality(TimedOut) >= MaxTimeouts

\* The timeouts that handlers have received since the last answer.
Since ==
  {i \in DOMAIN history :
     history[i] = "timeout" /\ \A k \in i..Len(history) : history[k] # "answer"}

\* While no handler receives anything as another works on the counter, the program
\* ends exactly when MaxTimeouts requests have timed out since the last answer,
\* whatever other errors came between them: only an answer resets the counter, which
\* is not the "in a row" ("подряд") of the code's own comment (http/worker.go 29-30,
\* 78-89).  After that neither half need hold.
LimitKept ==
  ~overlapped =>
    /\ program = "timeouts" => Cardinality(Since) = MaxTimeouts
    /\ Cardinality(Since) >= MaxTimeouts => program = "timeouts" \/ Counting # {}

\* A client gets the answer of PHP only if there was one, and that of another
\* request only from a worker that has failed twice, or once by a timeout.
OwnAnswer ==
  \A r \in Requests : status[r] = "answer" =>
    /\ outcome[r] \in Requests \cup {"mixed"}
    /\ outcome[r] = r \/ Pool!Spoiled(server[r])
-----------------------------------------------------------------------------
(* Progress.                                                               *)

\* The Go scheduler runs the handlers.
Fairness == \A r \in Requests : WF_vars(Handler(r))

FairSpec == Spec /\ Fairness

\* The pool begins jobs and answers those it has begun.  WorkerPool does so unless
\* a goroutine panics or a Start has lost its "ok" (EventuallyAnswered).
PoolFairness == WF_vars(PoolBegins) /\ \A r \in Requests : WF_vars(PoolAnswers(r))

\* If the pool does, every request that arrives is answered, one way or the other,
\* unless the program ends, also while more requests wait than the queue can hold.
EventuallyResponded ==
  PoolFairness =>
    \A r \in Requests : at[r] # "new" ~> (at[r] = "done" \/ program = "timeouts")
=============================================================================
