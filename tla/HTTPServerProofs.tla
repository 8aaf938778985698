-------------------------- MODULE HTTPServerProofs --------------------------
(***************************************************************************)
(* Safety of HTTPServer for any number of requests and workers and any     *)
(* limit of timeouts.                                                      *)
(*                                                                         *)
(* The inductive invariant IInv has a part for the start of the pool       *)
(* (StartInv), one for the jobs of the pool (JobInv), one for what a       *)
(* handler knows of its job (HandlerInv) and two for the counter: what it  *)
(* can be at most (CountInv), and how it follows the history while no two  *)
(* requests have worked on it at once (StreakInv).                         *)
(***************************************************************************)
EXTENDS HTTPServer, FiniteSetTheorems, SequenceTheorems, TLAPS

Answers == Requests \cup {"mixed"}

\* The jobs that worker w has failed, given who serves the jobs and how they ended.
FailedBy(w, srv, out) == {j \in Requests : srv[j] = w /\ out[j] \in Failures}

SpoiledBy(w, srv, out) ==
  \/ Cardinality(FailedBy(w, srv, out)) > 1
  \/ \E j \in FailedBy(w, srv, out) : out[j] = "timeout"

StartInv ==
  /\ program = "start" /\ ~werr => pool = tried
  /\ AllWorkersOrNone

\* A job waits once and has no worker before it is begun; how it ended is not
\* changed again.
JobInv ==
  /\ \A i, k \in DOMAIN waiting : waiting[i] = waiting[k] => i = k
  /\ \A i \in DOMAIN waiting : waiting[i] \in sent /\ server[waiting[i]] = Nil
  /\ \A j \in Requests : j \notin sent => server[j] = Nil
  /\ \A j \in Requests : server[j] = Nil => outcome[j] = "none"
  /\ \A j \in Requests : outcome[j] \in Answers =>
       outcome[j] = j \/ SpoiledBy(server[j], server, outcome)
  /\ \A j \in answered : outcome[j] # "none"

HandlerInv ==
  \A r \in Requests :
    /\ at[r] \in {"load", "store", "compare"} => r \in TimedOut
    /\ at[r] = "reset" \/ status[r] = "answer" => outcome[r] \in Answers

\* The requests whose timeout has been stored in the counter.
Stored == {r \in TimedOut : at[r] \in {"compare", "done"}}

CountInv ==
  /\ count <= Cardinality(Stored)
  /\ \A r \in Requests : at[r] = "store" => mine[r] <= Cardinality(Stored) + 1
  /\ \A r \in Requests : at[r] = "compare" => mine[r] <= Cardinality(Stored)
  /\ ExitNeedsTimeouts

Streak == Cardinality(Since)

StreakInv ==
  ~overlapped =>
    /\ \A r, s \in Counting : r = s
    /\ Streak <= MaxTimeouts
    /\ Counting = {} => count = Streak /\ Streak < MaxTimeouts
    /\ \A r \in Requests : at[r] = "load" => count + 1 = Streak
    /\ \A r \in Requests : at[r] = "store" => mine[r] = Streak
    /\ \A r \in Requests : at[r] = "compare" => mine[r] = Streak /\ count = Streak
    /\ \A r \in Requests : at[r] = "reset" => Streak = 0
    /\ program = "timeouts" => Streak = MaxTimeouts

IInv == TypeOK /\ StartInv /\ JobInv /\ HandlerInv /\ CountInv /\ StreakInv
-----------------------------------------------------------------------------
(* Types.                                                                  *)

\* Every step keeps the types.
THEOREM TypeStep == ASSUME HTTPAssumption, TypeOK, [Next]_vars PROVE TypeOK'
<1>. USE DEF TypeOK, poolVars, startVars, countVars, pastVars
<1>1. CASE StartDone \/ \E w \in Workers : StartWorker(w)
  BY <1>1 DEF StartDone, StartWorker
<1>2. ASSUME NEW r \in Requests, Static(r) PROVE TypeOK'
  <2>1. \E found \in {"none", "file", "empty"} :
          IF found = "none" THEN Goto(r, "form") /\ UNCHANGED status
          ELSE Respond(r, found)
    BY <1>2, ZenonT(30) DEF Static, Served
  <2>2. /\ at' \in [Requests -> {"new", "form", "send", "wait", "load", "store",
                                "compare", "reset", "done"}]
        /\ status' \in [Requests -> {"none", "file", "empty", "answer", "500", "aborted"}]
    BY <2>1 DEF Goto, Respond
  <2>. QED
    BY <1>2, <2>2 DEF Static
<1>3. CASE PoolBegins
  <2>1. PICK w \in pool : Pool!Begin(w)
    BY <1>3 DEF PoolBegins
  <2>2. Head(waiting) \in Requests /\ Tail(waiting) \in Seq(Requests)
    BY <2>1, HeadTailProperties DEF Pool!Begin
  <2>. QED
    BY <1>3, <2>1, <2>2 DEF PoolBegins, Pool!Begin
<1>4. ASSUME NEW r \in Requests, PoolAnswers(r) PROVE TypeOK'
  BY <1>4 DEF PoolAnswers, Pool!Succeed, Pool!Fail, Pool!AnswerFailed, Failures
<1>5. ASSUME NEW r \in Requests, Form(r) PROVE TypeOK'
  <2>1. /\ at' \in [Requests -> {"new", "form", "send", "wait", "load", "store",
                                "compare", "reset", "done"}]
        /\ status' \in [Requests -> {"none", "file", "empty", "answer", "500", "aborted"}]
    <3>1. CASE Goto(r, "send") /\ UNCHANGED status
      BY <3>1 DEF Goto
    <3>2. ASSUME NEW a \in {"500", "aborted"}, Respond(r, a) 
           PROVE /\ at' \in [Requests -> {"new", "form", "send", "wait", "load", "store",
                                         "compare", "reset", "done"}]
                 /\ status' \in [Requests -> {"none", "file", "empty", "answer", "500", "aborted"}]
      BY <3>2 DEF Goto, Respond
    <3>. QED
      BY <1>5, <3>1, <3>2, Zenon DEF Form
  <2>. QED
    BY <1>5, <2>1 DEF Form
<1>6. ASSUME NEW r \in Requests, SendJob(r) PROVE TypeOK'
  <2>1. Append(waiting, r) \in Seq(Requests)
    BY AppendProperties
  <2>. QED
    BY <1>6, <2>1 DEF SendJob, Pool!Send, Goto
<1>7. ASSUME NEW r \in Requests, Receive(r) PROVE TypeOK'
  <2>1. history' \in Seq(Failures \cup {"answer"}) /\ overlapped' \in BOOLEAN
    <3>1. \E e \in Failures \cup {"answer"} : history' = Append(history, e)
      BY <1>7 DEF Receive, Arrive
    <3>2. overlapped' \in BOOLEAN
      BY <1>7, Zenon DEF Receive, Arrive
    <3>3. PICK e \in Failures \cup {"answer"} : history' = Append(history, e)
      BY <3>1
    <3>4. history \in Seq(Failures \cup {"answer"})
      OBVIOUS
    <3>5. Append(history, e) \in Seq(Failures \cup {"answer"})
      BY ONLY <3>4, e \in Failures \cup {"answer"}, AppendProperties
    <3>. QED
      BY <3>2, <3>3, <3>5, Zenon
  <2>2. /\ at' \in [Requests -> {"new", "form", "send", "wait", "load", "store",
                                "compare", "reset", "done"}]
        /\ status' \in [Requests -> {"none", "file", "empty", "answer", "500", "aborted"}]
    BY <1>7 DEF Receive, Goto, Respond
  <2>. QED
    BY <1>7, <2>1, <2>2 DEF Receive
<1>8. ASSUME NEW r \in Requests, Load(r) \/ Store(r) PROVE TypeOK'
  <2>1. /\ count' \in {count, mine[r]}
        /\ UNCHANGED mine \/ mine' = [mine EXCEPT ![r] = count + 1]
    BY <1>8 DEF Load, Store
  <2>2. count' \in Nat /\ mine' \in [Requests -> Nat]
    <3>1. count \in Nat /\ mine \in [Requests -> Nat]
      OBVIOUS
    <3>. QED
      BY ONLY <2>1, <3>1, r \in Requests
  <2>. QED
    BY <1>8, <2>2 DEF Load, Store, Goto
<1>9. ASSUME NEW r \in Requests, Compare(r) \/ Reset(r) PROVE TypeOK'
  <2>1. /\ at' \in [Requests -> {"new", "form", "send", "wait", "load", "store",
                                "compare", "reset", "done"}]
        /\ status' \in [Requests -> {"none", "file", "empty", "answer", "500", "aborted"}]
        /\ program' \in {"start", "serve", "not started", "timeouts"}
    BY <1>9, ZenonT(30) DEF Compare, Reset, Respond, Goto
  <2>2. count' \in {0, count} /\ UNCHANGED <<poolVars, startVars, mine, pastVars>>
    BY <1>9, Zenon DEF Compare, Reset
  <2>3. /\ waiting' \in Seq(Requests) /\ sent' \subseteq Requests
        /\ answered' \subseteq Requests
        /\ server' \in [Requests -> Workers \cup {Nil}]
        /\ outcome' \in [Requests -> {"none", "mixed"} \cup Failures \cup Requests]
        /\ tried' \subseteq Workers /\ pool' \subseteq tried' /\ werr' \in BOOLEAN
    BY <2>2
  <2>4. /\ count' \in Nat /\ mine' \in [Requests -> Nat]
        /\ history' \in Seq(Failures \cup {"answer"}) /\ overlapped' \in BOOLEAN
    <3>1. /\ count \in Nat /\ mine \in [Requests -> Nat] /\ count' \in {0, count}
          /\ history \in Seq(Failures \cup {"answer"}) /\ overlapped \in BOOLEAN
          /\ mine' = mine /\ history' = history /\ overlapped' = overlapped
      BY <2>2
    <3>. QED
      BY ONLY <3>1
  <2>. QED
    BY <2>1, <2>3, <2>4, Zenon
<1>10. CASE UNCHANGED vars
  BY <1>10 DEF vars
<1>. QED
  BY <1>1, <1>2, <1>3, <1>4, <1>5, <1>6, <1>7, <1>8, <1>9, <1>10 DEF Next, Handler
-----------------------------------------------------------------------------
(* The pool.                                                               *)

\* JobService counts the way this module does.
LEMMA SameCardinality == \A S : Pool!Cardinality(S) = Cardinality(S)
  BY DEF Pool!Cardinality, Cardinality

\* What a step does to the variables of the pool.
LEMMA PoolFrame ==
  ASSUME [Next]_vars
  PROVE  \/ UNCHANGED poolVars
         \/ \E r \in Requests : Pool!Send(r)
         \/ \E w \in pool : Pool!Begin(w)
         \/ \E r \in Requests :
              \/ \E o \in Answers : Pool!Succeed(r, o)
              \/ \E o \in Failures : Pool!Fail(r, o)
              \/ Pool!AnswerFailed(r)
<1>1. ASSUME StartDone \/ \E w \in Workers : StartWorker(w) PROVE UNCHANGED poolVars
  BY <1>1 DEF StartDone, StartWorker
<1>2. ASSUME NEW r \in Requests, Static(r) \/ Form(r) \/ Receive(r) PROVE UNCHANGED poolVars
  BY <1>2 DEF Static, Form, Receive
<1>3. ASSUME NEW r \in Requests, Load(r) \/ Store(r) \/ Compare(r) \/ Reset(r)
      PROVE  UNCHANGED poolVars
  BY <1>3 DEF Load, Store, Compare, Reset
<1>. QED
  BY <1>1, <1>2, <1>3 DEF Next, Handler, SendJob, PoolBegins, PoolAnswers, Answers, vars

\* The first job that waits.
LEMMA HeadFacts ==
  ASSUME NEW S, NEW s \in Seq(S), s # <<>>
  PROVE  /\ Len(s) \in Nat \ {0} /\ DOMAIN s = 1..Len(s)
         /\ Head(s) = s[1] /\ s[1] \in S /\ 1 \in DOMAIN s
         /\ Tail(s) \in Seq(S) /\ DOMAIN Tail(s) = 1..(Len(s) - 1)
         /\ \A i \in DOMAIN Tail(s) :
              i + 1 \in DOMAIN s /\ Tail(s)[i] = s[i + 1] /\ s[i + 1] \in S
<1>1. Len(s) \in Nat \ {0} /\ DOMAIN s = 1..Len(s) /\ \A i \in 1..Len(s) : s[i] \in S
  BY EmptySeq, LenProperties, ElementOfSeq
<1>2. Head(s) = s[1]
  OBVIOUS
<1>3. /\ Tail(s) \in Seq(S) /\ Len(Tail(s)) = Len(s) - 1
      /\ \A i \in 1..Len(Tail(s)) : Tail(s)[i] = s[i + 1]
  BY HeadTailProperties
<1>4. DOMAIN Tail(s) = 1..(Len(s) - 1)
  BY <1>3, LenProperties
<1>. QED
  BY <1>1, <1>2, <1>3, <1>4

\* Outcomes and answers stay, and so does the worker of a job that has ended.
LEMMA OutcomesStay ==
  ASSUME HTTPAssumption, TypeOK, JobInv, [Next]_vars
  PROVE  /\ \A j \in Requests : outcome[j] # "none" =>
              outcome'[j] = outcome[j] /\ server'[j] = server[j]
         /\ answered \subseteq answered'
<1>1. CASE UNCHANGED poolVars
  BY <1>1 DEF poolVars
<1>2. ASSUME NEW w \in pool, Pool!Begin(w)
      PROVE  /\ \A j \in Requests : outcome[j] # "none" => server'[j] = server[j]
             /\ UNCHANGED <<outcome, answered>>
  <2>1. Head(waiting) = waiting[1] /\ 1 \in DOMAIN waiting /\ waiting[1] \in Requests
    BY <1>2, HeadFacts DEF Pool!Begin, TypeOK
  <2>2. outcome[Head(waiting)] = "none"
    BY <2>1 DEF JobInv
  <2>. QED
    BY <1>2, <2>2 DEF Pool!Begin, TypeOK
<1>3. ASSUME NEW r \in Requests,
             \/ \E o \in Answers : Pool!Succeed(r, o)
             \/ \E o \in Failures : Pool!Fail(r, o)
             \/ Pool!AnswerFailed(r) \/ Pool!Send(r)
      PROVE  /\ \A j \in Requests : outcome[j] # "none" => outcome'[j] = outcome[j]
             /\ UNCHANGED server /\ answered \subseteq answered'
  BY <1>3 DEF Pool!Succeed, Pool!Fail, Pool!AnswerFailed, Pool!Send, TypeOK
<1>. QED
  BY <1>1, <1>2, <1>3, PoolFrame

\* A worker that has failed jobs has failed them for good.
LEMMA SpoiledStays ==
  ASSUME HTTPAssumption, TypeOK, JobInv, [Next]_vars, NEW w,
         SpoiledBy(w, server, outcome)
  PROVE  SpoiledBy(w, server', outcome')
<1>1. /\ FailedBy(w, server, outcome) \subseteq FailedBy(w, server', outcome')
      /\ \A j \in FailedBy(w, server, outcome) : outcome'[j] = outcome[j]
  BY OutcomesStay DEF FailedBy, Failures
<1>2. IsFiniteSet(FailedBy(w, server', outcome'))
  BY FS_Subset DEF FailedBy, HTTPAssumption
<1>3. /\ Cardinality(FailedBy(w, server, outcome)) \in Nat
      /\ Cardinality(FailedBy(w, server', outcome')) \in Nat
      /\ Cardinality(FailedBy(w, server, outcome)) <= Cardinality(FailedBy(w, server', outcome'))
  BY <1>1, <1>2, FS_Subset, FS_CardinalityType
<1>. QED
  BY <1>1, <1>3 DEF SpoiledBy

\* What spoils a worker here is what spoils it for JobService.
LEMMA SpoiledSame == \A w : Pool!Spoiled(w) <=> SpoiledBy(w, server, outcome)
<1>1. \A w : Pool!Failed(w) = FailedBy(w, server, outcome)
  BY DEF Pool!Failed, FailedBy
<1>2. \A w : Pool!Spoiled(w) <=> \/ Cardinality(Pool!Failed(w)) > 1
                                \/ \E j \in Pool!Failed(w) : outcome[j] \in {"timeout"}
  BY SameCardinality, Zenon DEF Pool!Spoiled
<1>. QED
  BY <1>1, <1>2 DEF SpoiledBy

\* Every step keeps JobInv.
THEOREM JobStep == ASSUME HTTPAssumption, TypeOK, JobInv, [Next]_vars PROVE JobInv'
<1>a. \A w : SpoiledBy(w, server, outcome) => SpoiledBy(w, server', outcome')
  BY SpoiledStays
<1>b. \A j \in Requests : outcome[j] \in Answers =>
        outcome[j] = j \/ SpoiledBy(server[j], server', outcome')
  BY <1>a DEF JobInv
<1>c. "none" \notin Answers /\ Failures \cap Answers = {}
  BY DEF Answers, Failures, HTTPAssumption
<1>d. /\ \A i, k \in DOMAIN waiting' : waiting'[i] = waiting'[k] => i = k
      /\ \A i \in DOMAIN waiting' : waiting'[i] \in sent' /\ server'[waiting'[i]] = Nil
      /\ \A j \in Requests : j \notin sent' => server'[j] = Nil
      /\ \A j \in Requests : server'[j] = Nil => outcome'[j] = "none"
      /\ \A j \in Requests : outcome'[j] \in Answers =>
           outcome'[j] = j \/ SpoiledBy(server'[j], server', outcome')
      /\ \A j \in answered' : outcome'[j] # "none"
      => JobInv'
  BY DEF JobInv
<1>1. CASE UNCHANGED poolVars
  BY <1>1, <1>b DEF poolVars, JobInv
<1>2. ASSUME NEW r \in Requests, Pool!Send(r) PROVE JobInv'
  <2>1. /\ waiting' = Append(waiting, r) /\ sent' = sent \cup {r} /\ r \notin sent
        /\ UNCHANGED <<server, outcome, answered>>
    BY <1>2 DEF Pool!Send
  <2>2. waiting \in Seq(Requests) /\ DOMAIN waiting = 1..Len(waiting) /\ Len(waiting) \in Nat
    BY LenProperties DEF TypeOK
  <2>3. /\ waiting' \in Seq(Requests) /\ Len(waiting') = Len(waiting) + 1
        /\ \A i \in DOMAIN waiting : waiting'[i] = waiting[i]
        /\ waiting'[Len(waiting) + 1] = r
    BY <2>1, <2>2, AppendProperties
  <2>4. DOMAIN waiting' = 1..(Len(waiting) + 1)
    BY <2>3, LenProperties
  <2>5. /\ \A i, k \in DOMAIN waiting' : waiting'[i] = waiting'[k] => i = k
        /\ \A i \in DOMAIN waiting' : waiting'[i] \in sent' /\ server'[waiting'[i]] = Nil
    BY <2>1, <2>2, <2>3, <2>4 DEF JobInv
  <2>. QED
    BY <1>b, <1>d, <2>1, <2>5 DEF JobInv
<1>3. ASSUME NEW w \in pool, Pool!Begin(w) PROVE JobInv'
  <2>1. /\ waiting # <<>> /\ waiting' = Tail(waiting) /\ UNCHANGED <<sent, outcome, answered>>
        /\ server' = [server EXCEPT ![Head(waiting)] = w]
    BY <1>3 DEF Pool!Begin
  <2>2. /\ Len(waiting) \in Nat \ {0} /\ DOMAIN waiting = 1..Len(waiting)
        /\ Head(waiting) = waiting[1] /\ waiting[1] \in Requests /\ 1 \in DOMAIN waiting
        /\ DOMAIN waiting' = 1..(Len(waiting) - 1)
        /\ \A i \in DOMAIN waiting' :
             i + 1 \in DOMAIN waiting /\ waiting'[i] = waiting[i + 1] /\ waiting'[i] \in Requests
    <3>1. waiting \in Seq(Requests)
      BY DEF TypeOK
    <3>. QED
      BY <2>1, <3>1, HeadFacts
  <2>3. \A i \in DOMAIN waiting' : waiting'[i] # Head(waiting)
    BY <2>2 DEF JobInv
  <2>4. \A j \in Requests : server'[j] = IF j = Head(waiting) THEN w ELSE server[j]
    BY <2>1 DEF TypeOK
  <2>5. Head(waiting) \in sent /\ outcome[Head(waiting)] = "none"
    BY <2>2 DEF JobInv
  <2>6. w # Nil
    BY DEF TypeOK, HTTPAssumption
  <2>7. \A i, k \in DOMAIN waiting' : waiting'[i] = waiting'[k] => i = k
    BY <2>2 DEF JobInv
  <2>8. \A i \in DOMAIN waiting' : waiting'[i] \in sent' /\ server'[waiting'[i]] = Nil
    BY <2>1, <2>2, <2>3, <2>4 DEF JobInv
  <2>9. \A j \in Requests : outcome'[j] \in Answers =>
          outcome'[j] = j \/ SpoiledBy(server'[j], server', outcome')
    BY <1>b, <1>c, <2>1, <2>4, <2>5
  <2>10. /\ \A j \in Requests : j \notin sent' => server'[j] = Nil
         /\ \A j \in Requests : server'[j] = Nil => outcome'[j] = "none"
         /\ \A j \in answered' : outcome'[j] # "none"
    BY <2>1, <2>4, <2>5, <2>6 DEF JobInv
  <2>. QED
    BY <1>d, <2>7, <2>8, <2>9, <2>10
<1>4. ASSUME NEW r \in Requests, NEW o \in Answers, Pool!Succeed(r, o) PROVE JobInv'
  <2>1. /\ o = r \/ SpoiledBy(server[r], server, outcome)
        /\ outcome' = [outcome EXCEPT ![r] = o] /\ answered' = answered \cup {r}
        /\ UNCHANGED <<waiting, sent, server>>
    BY <1>4, SpoiledSame DEF Pool!Succeed
  <2>2. \A j \in Requests : outcome'[j] = IF j = r THEN o ELSE outcome[j]
    BY <2>1 DEF TypeOK
  <2>3. server[r] # Nil /\ o # "none"
    BY <1>c, <1>4 DEF Pool!Succeed
  <2>4. \A j \in Requests : outcome'[j] \in Answers =>
          outcome'[j] = j \/ SpoiledBy(server'[j], server', outcome')
    BY <1>a, <1>b, <2>1, <2>2
  <2>. QED
    BY <1>d, <2>1, <2>2, <2>3, <2>4 DEF JobInv, TypeOK
<1>5. ASSUME NEW r \in Requests, NEW o \in Failures, Pool!Fail(r, o) PROVE JobInv'
  <2>1. /\ server[r] # Nil /\ outcome' = [outcome EXCEPT ![r] = o]
        /\ UNCHANGED <<waiting, sent, server, answered>>
    BY <1>5 DEF Pool!Fail
  <2>2. \A j \in Requests : outcome'[j] = IF j = r THEN o ELSE outcome[j]
    BY <2>1 DEF TypeOK
  <2>3. o # "none" /\ o \notin Answers
    BY <1>c DEF Failures
  <2>4. \A j \in Requests : outcome'[j] \in Answers =>
          outcome'[j] = j \/ SpoiledBy(server'[j], server', outcome')
    BY <1>b, <2>1, <2>2, <2>3
  <2>. QED
    BY <1>d, <2>1, <2>2, <2>3, <2>4 DEF JobInv, TypeOK
<1>6. ASSUME NEW r \in Requests, Pool!AnswerFailed(r) PROVE JobInv'
  <2>1. /\ outcome[r] # "none" /\ answered' = answered \cup {r}
        /\ UNCHANGED <<waiting, sent, server, outcome>>
    BY <1>6 DEF Pool!AnswerFailed, Failures
  <2>. QED
    BY <1>b, <1>d, <2>1 DEF JobInv
<1>. QED
  BY <1>1, <1>2, <1>3, <1>4, <1>5, <1>6, PoolFrame
-----------------------------------------------------------------------------
(* The start, and what the handlers know.                                  *)

\* A step changes the fields of at most one handler; this is where it may go.
LEMMA HandlerFrame ==
  ASSUME TypeOK, [Next]_vars
  PROVE  \/ /\ UNCHANGED <<at, status, countVars, pastVars>>
            /\ program' = "timeouts" => program = "timeouts"
         \/ /\ UNCHANGED <<countVars, program>> /\ program = "serve"
            /\ \E r \in Requests : Static(r) \/ Form(r) \/ SendJob(r) \/ Receive(r)
         \/ /\ program = "serve"
            /\ \E r \in Requests : Load(r) \/ Store(r) \/ Compare(r) \/ Reset(r)
<1>1. CASE StartDone \/ \E w \in Workers : StartWorker(w)
  BY <1>1 DEF StartDone, StartWorker
<1>2. CASE PoolBegins \/ \E r \in Requests : PoolAnswers(r)
  BY <1>2 DEF PoolBegins, PoolAnswers
<1>3. ASSUME NEW r \in Requests, Static(r) \/ Form(r) \/ SendJob(r) \/ Receive(r)
      PROVE  UNCHANGED <<countVars, program>>
  BY <1>3 DEF Static, Form, SendJob, Receive
<1>. QED
  BY <1>1, <1>2, <1>3, Zenon DEF Next, Handler, vars

\* Every step keeps StartInv.
THEOREM StartStep == ASSUME TypeOK, StartInv, [Next]_vars PROVE StartInv'
<1>1. ASSUME NEW w \in Workers, StartWorker(w) PROVE StartInv'
  BY <1>1 DEF StartWorker, StartInv, AllWorkersOrNone
<1>2. CASE StartDone
  BY <1>2 DEF StartDone, StartInv, AllWorkersOrNone, startVars
<1>3. CASE ~(StartDone \/ \E w \in Workers : StartWorker(w))
  <2>1. UNCHANGED startVars
    BY <1>3 DEF Next, Handler, Static, PoolBegins, PoolAnswers, Form, SendJob, Receive,
       Load, Store, Compare, Reset, vars
  <2>2. program' = program \/ program' = "timeouts"
    BY <1>3 DEF Next, Handler, Static, PoolBegins, PoolAnswers, Form, SendJob, Receive,
       Load, Store, Compare, Reset, vars
  <2>. QED
    BY <2>1, <2>2 DEF StartInv, AllWorkersOrNone, startVars
<1>. QED
  BY <1>1, <1>2, <1>3

\* Timeouts that clients have been told stay.
LEMMA TimedOutGrows ==
  ASSUME HTTPAssumption, TypeOK, JobInv, [Next]_vars
  PROVE  TimedOut \subseteq TimedOut'
  BY OutcomesStay DEF TimedOut

\* Every step keeps HandlerInv.
THEOREM HandlerStep ==
  ASSUME HTTPAssumption, TypeOK, JobInv, HandlerInv, [Next]_vars PROVE HandlerInv'
<1>a. TimedOut \subseteq TimedOut'
  BY TimedOutGrows
<1>b. \A r \in Requests : outcome[r] \in Answers => outcome'[r] \in Answers
  BY OutcomesStay DEF Answers, HTTPAssumption
<1>c. \A r \in Requests :
        /\ at[r] \in {"load", "store", "compare"} => r \in TimedOut'
        /\ at[r] = "reset" \/ status[r] = "answer" => outcome'[r] \in Answers
  BY <1>a, <1>b DEF HandlerInv
<1>1. CASE UNCHANGED <<at, status>>
  BY <1>c, <1>1 DEF HandlerInv
<1>2. ASSUME NEW r \in Requests, Static(r) PROVE HandlerInv'
  <2>1. \E found \in {"none", "file", "empty"} :
          IF found = "none" THEN Goto(r, "form") /\ UNCHANGED status
          ELSE Respond(r, found)
    BY <1>2 DEF Static, Served
  <2>. QED
    BY <1>c, <2>1 DEF HandlerInv, Goto, Respond, TypeOK
<1>3. ASSUME NEW r \in Requests, Form(r) \/ SendJob(r) PROVE HandlerInv'
  BY <1>c, <1>3 DEF Form, SendJob, HandlerInv, Goto, Respond, TypeOK
<1>4. ASSUME NEW r \in Requests, Receive(r) PROVE HandlerInv'
  <2>1. UNCHANGED <<outcome, answered>> /\ TimedOut' = TimedOut
    BY <1>4 DEF Receive, poolVars, TimedOut
  <2>2. r \in answered /\ outcome[r] # "none"
    BY <1>4 DEF Receive, Arrive, JobInv
  <2>3. outcome[r] \notin Failures => outcome[r] \in Answers
    BY <2>2 DEF TypeOK, Answers
  <2>4. CASE outcome[r] = "timeout"
    <3>1. Goto(r, "load") /\ UNCHANGED status /\ r \in TimedOut'
      BY <1>4, <2>1, <2>2, <2>4 DEF Receive, TimedOut
    <3>. QED
      BY <1>c, <3>1 DEF HandlerInv, Goto, TypeOK
  <2>5. CASE outcome[r] = "err"
    <3>1. Respond(r, "500")
      BY <1>4, <2>5 DEF Receive
    <3>. QED
      BY <1>c, <3>1 DEF HandlerInv, Goto, Respond, TypeOK
  <2>6. CASE outcome[r] \notin Failures
    <3>1. Goto(r, "reset") /\ UNCHANGED status /\ outcome'[r] \in Answers
      BY <1>4, <2>1, <2>3, <2>6 DEF Receive, Failures
    <3>. QED
      BY <1>c, <3>1 DEF HandlerInv, Goto, TypeOK
  <2>. QED
    BY <2>4, <2>5, <2>6 DEF Failures
<1>5. ASSUME NEW r \in Requests, Load(r) \/ Store(r) \/ Compare(r) PROVE HandlerInv'
  <2>1. \/ at[r] \in {"load", "store"} /\ UNCHANGED status
             /\ (Goto(r, "store") \/ Goto(r, "compare"))
        \/ UNCHANGED <<at, status>> \/ Respond(r, "500")
    BY <1>5, Zenon DEF Load, Store, Compare
  <2>. QED
    BY <1>c, <2>1 DEF HandlerInv, Goto, Respond, TypeOK
<1>6. ASSUME NEW r \in Requests, Reset(r) PROVE HandlerInv'
  <2>1. at[r] = "reset" /\ \E a \in {"answer", "500", "aborted"} : Respond(r, a)
    BY <1>6, Zenon DEF Reset
  <2>. QED
    BY <1>c, <2>1 DEF HandlerInv, Goto, Respond, TypeOK
<1>. QED
  BY <1>1, <1>2, <1>3, <1>4, <1>5, <1>6, HandlerFrame
-----------------------------------------------------------------------------
(* The counter.                                                            *)

\* Sets of requests and their sizes.
LEMMA Sizes ==
  ASSUME HTTPAssumption, NEW S \in SUBSET Requests, NEW T \in SUBSET Requests, S \subseteq T
  PROVE  /\ Cardinality(S) \in Nat /\ Cardinality(T) \in Nat
         /\ Cardinality(S) <= Cardinality(T)
         /\ \A r \in T : r \notin S => Cardinality(S) + 1 <= Cardinality(T)
<1>1. IsFiniteSet(T) /\ IsFiniteSet(S)
  BY FS_Subset DEF HTTPAssumption
<1>2. /\ Cardinality(S) \in Nat /\ Cardinality(T) \in Nat
      /\ Cardinality(S) <= Cardinality(T)
  BY <1>1, FS_CardinalityType, FS_Subset
<1>3. ASSUME NEW r \in T, r \notin S PROVE Cardinality(S) + 1 <= Cardinality(T)
  <2>1. Cardinality(S \cup {r}) = Cardinality(S) + 1
    BY <1>1, <1>3, FS_AddElement
  <2>. QED
    BY <1>1, <1>3, <2>1, FS_Subset
<1>. QED
  BY <1>2, <1>3

\* A step that changes neither the counter nor who works on it keeps CountInv.
LEMMA CountSame ==
  ASSUME HTTPAssumption, TypeOK, JobInv, CountInv, [Next]_vars,
         Stored \subseteq Stored', UNCHANGED <<count, mine>>,
         \A r \in Requests : at'[r] \in {"store", "compare"} => at[r] = at'[r],
         program' = "timeouts" => program = "timeouts"
  PROVE  CountInv'
<1>1. /\ Cardinality(Stored) \in Nat /\ Cardinality(Stored') \in Nat
      /\ Cardinality(Stored) <= Cardinality(Stored')
  BY Sizes DEF Stored, TimedOut
<1>2. /\ Cardinality(TimedOut) \in Nat /\ Cardinality(TimedOut') \in Nat
      /\ Cardinality(TimedOut) <= Cardinality(TimedOut')
  BY Sizes, TimedOutGrows DEF TimedOut
<1>3. ExitNeedsTimeouts'
  BY <1>2 DEF CountInv, ExitNeedsTimeouts, HTTPAssumption
<1>4. /\ count \in Nat /\ count' = count /\ mine' = mine
      /\ \A r \in Requests : mine[r] \in Nat
  BY DEF TypeOK
<1>5. count' <= Cardinality(Stored)'
  BY <1>1, <1>4 DEF CountInv
<1>6. \A r \in Requests : at'[r] = "store" => mine'[r] <= Cardinality(Stored)' + 1
  BY <1>1, <1>4 DEF CountInv
<1>7. \A r \in Requests : at'[r] = "compare" => mine'[r] <= Cardinality(Stored)'
  BY <1>1, <1>4 DEF CountInv
<1>. QED
  BY <1>3, <1>5, <1>6, <1>7 DEF CountInv

\* A step of a handler that does not change where the others are.
At(r, l) == \A s \in Requests : at'[s] = IF s = r THEN l ELSE at[s]

\* Goto and Respond move one handler.
LEMMA Moves ==
  ASSUME TypeOK, NEW r \in Requests
  PROVE  /\ \A l : Goto(r, l) => At(r, l)
         /\ \A s : Respond(r, s) => At(r, "done")
  BY DEF TypeOK, Goto, Respond, At

\* Where the handlers that do not touch the counter can go.
LEMMA Elsewhere ==
  ASSUME TypeOK, NEW r \in Requests, Static(r) \/ Form(r) \/ SendJob(r) \/ Receive(r)
  PROVE  /\ at[r] \in {"new", "form", "send", "wait"}
         /\ \E l \in {"form", "send", "wait", "load", "reset", "done"} : At(r, l)
<1>1. CASE Static(r)
  <2>1. \E found \in {"none", "file", "empty"} :
          IF found = "none" THEN Goto(r, "form") ELSE Respond(r, found)
    BY <1>1 DEF Static, Served
  <2>. QED
    BY <1>1, <2>1, Moves DEF Static
<1>2. CASE Form(r) \/ SendJob(r)
  BY <1>2, Moves DEF Form, SendJob
<1>3. CASE Receive(r)
  <2>1. Goto(r, "load") \/ Goto(r, "reset") \/ Respond(r, "500")
    BY <1>3 DEF Receive
  <2>. QED
    BY <1>3, <2>1, Moves DEF Receive, Arrive
<1>. QED
  BY <1>1, <1>2, <1>3

\* Every step keeps CountInv.
THEOREM CountStep ==
  ASSUME HTTPAssumption, TypeOK, JobInv, HandlerInv, CountInv, [Next]_vars PROVE CountInv'
<1>a. TimedOut \subseteq TimedOut'
  BY TimedOutGrows
<1>b. count \in Nat /\ \A r \in Requests : mine[r] \in Nat
  BY DEF TypeOK
<1>1. CASE UNCHANGED <<at, status, countVars>> /\ (program' = "timeouts" => program = "timeouts")
  <2>1. Stored \subseteq Stored'
    BY <1>a, <1>1 DEF Stored
  <2>. QED
    BY <1>1, <2>1, CountSame DEF countVars
<1>2. ASSUME UNCHANGED <<countVars, program>>,
             NEW r \in Requests, Static(r) \/ Form(r) \/ SendJob(r) \/ Receive(r)
      PROVE  CountInv'
  <2>1. /\ at[r] \in {"new", "form", "send", "wait"}
        /\ \E l \in {"form", "send", "wait", "load", "reset", "done"} : At(r, l)
    BY <1>2, Elsewhere
  <2>2. Stored \subseteq Stored'
    BY <1>a, <2>1 DEF Stored, TimedOut, At
  <2>3. \A s \in Requests : at'[s] \in {"store", "compare"} => at[s] = at'[s]
    BY <2>1 DEF At
  <2>. QED
    BY <1>2, <2>2, <2>3, CountSame DEF countVars
<1>3. ASSUME NEW r \in Requests, Load(r) PROVE CountInv'
  <2>1. /\ at[r] = "load" /\ At(r, "store") /\ mine' = [mine EXCEPT ![r] = count + 1]
        /\ UNCHANGED <<poolVars, program, count>>
    BY <1>3, Moves, Zenon DEF Load
  <2>2. Stored = Stored' /\ TimedOut' = TimedOut
    BY <2>1 DEF Stored, TimedOut, At, poolVars
  <2>3. Cardinality(Stored) \in Nat /\ Cardinality(Stored)' = Cardinality(Stored)
    BY <2>2, Sizes DEF Stored, TimedOut
  <2>4. \A s \in Requests : mine'[s] = IF s = r THEN count + 1 ELSE mine[s]
    BY <2>1 DEF TypeOK
  <2>5. ExitNeedsTimeouts'
    BY <2>1, <2>2 DEF CountInv, ExitNeedsTimeouts
  <2>6. count' <= Cardinality(Stored)'
    BY <2>1, <2>3 DEF CountInv
  <2>7. \A s \in Requests : at'[s] = "store" => mine'[s] <= Cardinality(Stored)' + 1
    BY <1>b, <2>1, <2>3, <2>4 DEF CountInv, At
  <2>8. \A s \in Requests : at'[s] = "compare" => mine'[s] <= Cardinality(Stored)'
    BY <1>b, <2>1, <2>3, <2>4 DEF CountInv, At
  <2>. QED
    BY <2>5, <2>6, <2>7, <2>8 DEF CountInv
<1>4. ASSUME NEW r \in Requests, Store(r) PROVE CountInv'
  <2>1. /\ at[r] = "store" /\ At(r, "compare") /\ count' = mine[r]
        /\ UNCHANGED <<poolVars, program, mine>>
    BY <1>4, Moves DEF Store
  <2>2. TimedOut' = TimedOut /\ r \in TimedOut
    BY <2>1 DEF TimedOut, HandlerInv, poolVars
  <2>3. Stored \subseteq Stored' /\ r \in Stored' /\ r \notin Stored
    BY <2>1, <2>2 DEF Stored, TimedOut, At
  <2>4. /\ Cardinality(Stored) \in Nat /\ Cardinality(Stored)' \in Nat
        /\ Cardinality(Stored) + 1 <= Cardinality(Stored)'
    BY <2>3, Sizes DEF Stored, TimedOut
  <2>5. ExitNeedsTimeouts'
    BY <2>1, <2>2 DEF CountInv, ExitNeedsTimeouts
  <2>6. mine[r] <= Cardinality(Stored) + 1
    BY <2>1 DEF CountInv
  <2>7. count' <= Cardinality(Stored)'
    BY <1>b, <2>1, <2>4, <2>6
  <2>8. \A s \in Requests : at'[s] = "store" => mine'[s] <= Cardinality(Stored)' + 1
    BY <1>b, <2>1, <2>4 DEF CountInv, At
  <2>9. \A s \in Requests : at'[s] = "compare" => mine'[s] <= Cardinality(Stored)'
    BY <1>b, <2>1, <2>4, <2>6 DEF CountInv, At
  <2>. QED
    BY <2>5, <2>7, <2>8, <2>9 DEF CountInv
<1>5. ASSUME NEW r \in Requests, Compare(r) PROVE CountInv'
  <2>1. /\ at[r] = "compare" /\ UNCHANGED <<poolVars, countVars>>
        /\ \/ UNCHANGED at /\ (mine[r] = MaxTimeouts \/ count = MaxTimeouts)
           \/ At(r, "done") /\ UNCHANGED program
    BY <1>5, Moves DEF Compare
  <2>2. TimedOut' = TimedOut /\ Stored' = Stored
    BY <2>1 DEF Stored, TimedOut, At, poolVars
  <2>3. /\ Cardinality(Stored) \in Nat /\ Cardinality(TimedOut) \in Nat
        /\ Cardinality(Stored) <= Cardinality(TimedOut)
    BY Sizes DEF Stored, TimedOut
  <2>4. ExitNeedsTimeouts'
    <3>1. CASE UNCHANGED program
      BY <2>2, <3>1 DEF CountInv, ExitNeedsTimeouts
    <3>2. CASE ~UNCHANGED program
      <4>1. MaxTimeouts <= Cardinality(Stored)
        BY <2>1, <3>2 DEF CountInv
      <4>2. MaxTimeouts <= Cardinality(TimedOut)
        BY <2>3, <4>1 DEF HTTPAssumption
      <4>. QED
        BY <2>2, <4>2 DEF ExitNeedsTimeouts
    <3>. QED
      BY <3>1, <3>2
  <2>5. \A s \in Requests : at'[s] \in {"store", "compare"} => at[s] = at'[s]
    BY <2>1 DEF At
  <2>. QED
    BY <2>1, <2>2, <2>4, <2>5 DEF CountInv, countVars
<1>6. ASSUME NEW r \in Requests, Reset(r) PROVE CountInv'
  <2>1. /\ at[r] = "reset" /\ At(r, "done") /\ count' = 0
        /\ UNCHANGED <<poolVars, program, mine>>
    BY <1>6, Moves, Zenon DEF Reset
  <2>2. TimedOut' = TimedOut /\ Stored \subseteq Stored'
    BY <2>1 DEF Stored, TimedOut, At, poolVars
  <2>3. /\ Cardinality(Stored) \in Nat /\ Cardinality(Stored)' \in Nat
        /\ Cardinality(Stored) <= Cardinality(Stored)'
    BY <2>2, Sizes DEF Stored, TimedOut
  <2>4. ExitNeedsTimeouts'
    BY <2>1, <2>2 DEF CountInv, ExitNeedsTimeouts
  <2>5. count' <= Cardinality(Stored)'
    BY <2>1, <2>3
  <2>6. \A s \in Requests : at'[s] = "store" => mine'[s] <= Cardinality(Stored)' + 1
    BY <1>b, <2>1, <2>3 DEF CountInv, At
  <2>7. \A s \in Requests : at'[s] = "compare" => mine'[s] <= Cardinality(Stored)'
    BY <1>b, <2>1, <2>3 DEF CountInv, At
  <2>. QED
    BY <2>4, <2>5, <2>6, <2>7 DEF CountInv
<1>. QED
  BY <1>1, <1>2, <1>3, <1>4, <1>5, <1>6, HandlerFrame

\* Streak is a number.
LEMMA StreakType == ASSUME TypeOK PROVE Streak \in Nat /\ IsFiniteSet(Since)
<1>1. Since \subseteq 1..Len(history) /\ Len(history) \in Nat
  BY LenProperties DEF TypeOK, Since
<1>2. IsFiniteSet(Since)
  <2>1. IsFiniteSet(1..Len(history))
    BY <1>1, FS_Interval
  <2>. QED
    BY <1>1, <2>1, FS_Subset
<1>. QED
  BY <1>2, FS_CardinalityType DEF Streak

\* The timeouts since the last answer after one more thing has been received.
LEMMA SinceAppend ==
  ASSUME TypeOK, NEW e \in Failures \cup {"answer"}, history' = Append(history, e)
  PROVE  /\ Streak \in Nat
         /\ e = "timeout" => Streak' = Streak + 1
         /\ e = "err" => Streak' = Streak
         /\ e = "answer" => Streak' = 0
<1> DEFINE n == Len(history)
<1>1. /\ n \in Nat /\ DOMAIN history = 1..n
      /\ Len(history') = n + 1 /\ DOMAIN history' = 1..(n + 1)
      /\ \A i \in 1..n : history'[i] = history[i]
      /\ history'[n + 1] = e
  <2>1. history \in Seq(Failures \cup {"answer"})
    BY DEF TypeOK
  <2>2. history' \in Seq(Failures \cup {"answer"})
    BY <2>1, AppendProperties
  <2>. QED
    BY <2>1, <2>2, AppendProperties, LenProperties
<1> HIDE DEF n
<1>2. Since \subseteq 1..n /\ IsFiniteSet(Since) /\ n + 1 \notin Since
  <2>1. Since \subseteq 1..n
    BY <1>1 DEF Since
  <2>. QED
    BY <1>1, <2>1, StreakType
<1>3. Since = {i \in 1..n : history[i] = "timeout" /\ \A k \in i..n : history[k] # "answer"}
  BY <1>1 DEF Since, n
<1>4. Since' = {i \in 1..(n + 1) : history'[i] = "timeout"
                                  /\ \A k \in i..(n + 1) : history'[k] # "answer"}
  BY <1>1 DEF Since
<1>5. ASSUME e = "answer" PROVE Since' = {}
  <2>1. \A i \in 1..(n + 1) : n + 1 \in i..(n + 1)
    BY <1>1
  <2>. QED
    BY <1>1, <1>4, <1>5, <2>1
<1>6. ASSUME e # "answer" PROVE Since' \ {n + 1} = Since
  <2>1. \A i \in 1..n : (\A k \in i..(n + 1) : history'[k] # "answer")
                         <=> (\A k \in i..n : history[k] # "answer")
    <3>1. \A i \in 1..n : i..(n + 1) = (i..n) \cup {n + 1}
      BY <1>1
    <3>2. \A i \in 1..n : i..n \subseteq 1..n
      BY <1>1
    <3>. QED
      BY <1>1, <1>6, <3>1, <3>2
  <2>2. 1..n = (1..(n + 1)) \ {n + 1}
    BY <1>1
  <2>. QED
    BY <1>1, <1>3, <1>4, <2>1, <2>2
<1>7. n + 1 \in Since' <=> e = "timeout"
  <2>1. n + 1 \in 1..(n + 1) /\ (n + 1)..(n + 1) = {n + 1}
    BY <1>1
  <2>. QED
    BY <1>1, <1>4, <2>1
<1>8. e = "timeout" => Since' = Since \cup {n + 1}
  BY <1>6, <1>7
<1>9. e = "err" => Since' = Since
  BY <1>6, <1>7
<1>10. /\ Cardinality(Since) \in Nat
       /\ Cardinality(Since \cup {n + 1}) = Cardinality(Since) + 1
       /\ Cardinality({}) = 0
  BY <1>2, FS_AddElement, FS_EmptySet, FS_CardinalityType
<1>. QED
  BY <1>5, <1>8, <1>9, <1>10 DEF Streak

\* Every step keeps StreakInv.
THEOREM StreakStep ==
  ASSUME HTTPAssumption, TypeOK, StreakInv, [Next]_vars PROVE StreakInv'
<1>a. MaxTimeouts \in Nat \ {0}
  BY DEF HTTPAssumption
<1>b. \A f, g \in Requests : f \in Counting /\ g \in Counting /\ ~overlapped => f = g
  BY DEF StreakInv
<1>c. UNCHANGED history => Streak' = Streak
  BY DEF Streak, Since
<1>1. CASE /\ UNCHANGED <<at, status, countVars, pastVars>>
           /\ program' = "timeouts" => program = "timeouts"
  <2>1. Counting' = Counting
    BY <1>1 DEF Counting
  <2>. QED
    BY <1>1, <1>c, <2>1 DEF StreakInv, countVars, pastVars
<1>2. ASSUME UNCHANGED <<countVars, program>>,
             NEW r \in Requests, Static(r) \/ Form(r) \/ SendJob(r)
      PROVE  StreakInv'
  <2>1. /\ at[r] \in {"new", "form", "send"} /\ UNCHANGED pastVars
        /\ \E l \in {"form", "wait", "send", "done"} : At(r, l)
    <3>1. CASE Static(r)
      <4>1. \E found \in {"none", "file", "empty"} :
              IF found = "none" THEN Goto(r, "form") ELSE Respond(r, found)
        BY <3>1 DEF Static, Served
      <4>. QED
        BY <3>1, <4>1, Moves DEF Static
    <3>2. CASE Form(r) \/ SendJob(r)
      BY <3>2, Moves DEF Form, SendJob
    <3>. QED
      BY <1>2, <3>1, <3>2
  <2>2. \A s \in Requests, l \in {"load", "store", "compare", "reset"} : at'[s] = l <=> at[s] = l
    BY <2>1 DEF At
  <2>3. Counting' = Counting
    BY <2>2 DEF Counting
  <2>. QED
    BY <1>2, <1>c, <2>1, <2>2, <2>3 DEF StreakInv, countVars, pastVars
<1>3. ASSUME UNCHANGED <<countVars, program>>, program = "serve",
             NEW r \in Requests, Receive(r)
      PROVE  StreakInv'
  <2>. SUFFICES ASSUME ~overlapped' PROVE StreakInv'
    BY DEF StreakInv
  <2>1. ~overlapped /\ Counting = {} /\ at[r] = "wait"
    BY <1>3 DEF Receive, Arrive
  <2>2. \A s \in Requests : at[s] \notin {"load", "store", "compare", "reset"}
    BY <2>1 DEF Counting
  <2>3. /\ count' = count /\ count = Streak /\ Streak < MaxTimeouts
        /\ program' = program
    BY <1>3, <2>1 DEF StreakInv, countVars
  <2>4. CASE outcome[r] = "timeout"
    <3>1. At(r, "load") /\ history' = Append(history, "timeout")
      BY <1>3, <2>4, Moves DEF Receive, Arrive, Failures
    <3>2. Streak \in Nat /\ Streak' = Streak + 1
      BY <3>1, SinceAppend DEF Failures
    <3>3. \A s \in Requests : at'[s] \in {"load", "store", "compare", "reset"} => s = r
      BY <2>2, <3>1 DEF At
    <3>4. at'[r] = "load" /\ Counting' = {r}
      BY <3>1, <3>3 DEF At, Counting
    <3>. QED
      BY <1>3, <1>a, <2>3, <3>2, <3>3, <3>4 DEF StreakInv
  <2>5. CASE outcome[r] = "err"
    <3>1. At(r, "done") /\ history' = Append(history, "err")
      BY <1>3, <2>5, Moves DEF Receive, Arrive, Failures
    <3>2. Streak' = Streak
      BY <3>1, SinceAppend DEF Failures
    <3>3. \A s \in Requests : at'[s] \notin {"load", "store", "compare", "reset"}
      BY <2>2, <3>1 DEF At
    <3>4. Counting' = {}
      BY <3>3 DEF Counting
    <3>. QED
      BY <1>3, <1>a, <2>3, <3>2, <3>3, <3>4, StreakType DEF StreakInv
  <2>6. CASE outcome[r] \notin Failures
    <3>1. At(r, "reset") /\ history' = Append(history, "answer")
      BY <1>3, <2>6, Moves DEF Receive, Arrive, Failures
    <3>2. Streak' = 0
      BY <3>1, SinceAppend
    <3>3. \A s \in Requests : at'[s] \in {"load", "store", "compare", "reset"} => s = r
      BY <2>2, <3>1 DEF At
    <3>4. at'[r] = "reset" /\ Counting' = {r}
      BY <3>1, <3>3 DEF At, Counting
    <3>. QED
      BY <1>3, <1>a, <2>3, <3>2, <3>3, <3>4 DEF StreakInv
  <2>. QED
    BY <2>4, <2>5, <2>6 DEF Failures
<1>4. ASSUME NEW r \in Requests, Load(r), program = "serve" PROVE StreakInv'
  <2>1. /\ at[r] = "load" /\ At(r, "store") /\ mine' = [mine EXCEPT ![r] = count + 1]
        /\ UNCHANGED <<program, count, pastVars>> /\ Streak' = Streak
    BY <1>4, <1>c, Moves DEF Load, pastVars
  <2>. SUFFICES ASSUME ~overlapped PROVE StreakInv'
    BY <2>1 DEF StreakInv, pastVars
  <2>2. r \in Counting /\ Counting' = Counting
    BY <2>1 DEF Counting, At
  <2>3. \A s \in Requests : at'[s] \in {"load", "store", "compare", "reset"} => s = r
    BY <1>b, <2>2 DEF Counting
  <2>4. mine'[r] = Streak /\ Streak <= MaxTimeouts /\ at'[r] = "store"
    BY <2>1 DEF TypeOK, StreakInv, At
  <2>. QED
    BY <1>4, <1>b, <2>1, <2>2, <2>3, <2>4 DEF StreakInv
<1>5. ASSUME NEW r \in Requests, Store(r), program = "serve" PROVE StreakInv'
  <2>1. /\ at[r] = "store" /\ At(r, "compare") /\ count' = mine[r]
        /\ UNCHANGED <<program, mine, pastVars>> /\ Streak' = Streak
    BY <1>5, <1>c, Moves DEF Store, pastVars
  <2>. SUFFICES ASSUME ~overlapped PROVE StreakInv'
    BY <2>1 DEF StreakInv, pastVars
  <2>2. r \in Counting /\ Counting' = Counting
    BY <2>1 DEF Counting, At
  <2>3. \A s \in Requests : at'[s] \in {"load", "store", "compare", "reset"} => s = r
    BY <1>b, <2>2 DEF Counting
  <2>4. mine[r] = Streak /\ Streak <= MaxTimeouts /\ at'[r] = "compare"
    BY <2>1 DEF StreakInv, At
  <2>. QED
    BY <1>5, <1>b, <2>1, <2>2, <2>3, <2>4 DEF StreakInv
<1>6. ASSUME NEW r \in Requests, Compare(r), program = "serve" PROVE StreakInv'
  <2>1. /\ at[r] = "compare" /\ UNCHANGED <<count, mine, pastVars>> /\ Streak' = Streak
        /\ \E seen \in {mine[r], count} :
             \/ seen = MaxTimeouts /\ UNCHANGED at /\ program' = "timeouts"
             \/ seen # MaxTimeouts /\ At(r, "done") /\ UNCHANGED program
    BY <1>6, <1>c, Moves DEF Compare, countVars, pastVars
  <2>. SUFFICES ASSUME ~overlapped PROVE StreakInv'
    BY <2>1 DEF StreakInv, pastVars
  <2>2. mine[r] = Streak /\ count = Streak /\ Streak <= MaxTimeouts
    BY <2>1 DEF StreakInv
  <2>3. \A s \in Requests : at[s] \in {"load", "store", "compare", "reset"} => s = r
    BY <1>b, <2>1 DEF Counting
  <2>4. CASE Streak = MaxTimeouts
    <3>1. UNCHANGED at /\ program' = "timeouts"
      BY <2>1, <2>2, <2>4
    <3>2. Counting' = Counting
      BY <3>1 DEF Counting
    <3>. QED
      BY <2>1, <2>4, <3>1, <3>2 DEF StreakInv
  <2>5. CASE Streak # MaxTimeouts
    <3>1. At(r, "done") /\ UNCHANGED program
      BY <2>1, <2>2, <2>5
    <3>2. \A s \in Requests : at'[s] \notin {"load", "store", "compare", "reset"}
      BY <2>3, <3>1 DEF At
    <3>3. Counting' = {}
      BY <3>2 DEF Counting
    <3>4. Streak < MaxTimeouts
      <4>1. Streak \in Nat
        BY StreakType
      <4>. QED
        BY <1>a, <2>2, <2>5, <4>1
    <3>. QED
      BY <1>6, <2>1, <2>2, <3>1, <3>2, <3>3, <3>4 DEF StreakInv
  <2>. QED
    BY <2>4, <2>5
<1>7. ASSUME NEW r \in Requests, Reset(r), program = "serve" PROVE StreakInv'
  <2>1. /\ at[r] = "reset" /\ At(r, "done") /\ count' = 0
        /\ UNCHANGED <<program, mine, pastVars>> /\ Streak' = Streak
    BY <1>7, <1>c, Moves DEF Reset, pastVars
  <2>. SUFFICES ASSUME ~overlapped PROVE StreakInv'
    BY <2>1 DEF StreakInv, pastVars
  <2>2. \A s \in Requests : at[s] \in {"load", "store", "compare", "reset"} => s = r
    BY <1>b, <2>1 DEF Counting
  <2>3. \A s \in Requests : at'[s] \notin {"load", "store", "compare", "reset"}
    BY <2>1, <2>2 DEF At
  <2>4. Counting' = {} /\ Streak = 0
    BY <2>1, <2>3 DEF Counting, StreakInv
  <2>. QED
    BY <1>7, <1>a, <2>1, <2>3, <2>4 DEF StreakInv
<1>. QED
  BY <1>1, <1>2, <1>3, <1>4, <1>5, <1>6, <1>7, HandlerFrame
-----------------------------------------------------------------------------
(* The inductive invariant and what follows from it.                       *)

\* The initial states satisfy it.
LEMMA InitIInv == ASSUME HTTPAssumption, Init PROVE IInv
<1>1. TypeOK
  BY EmptySeq DEF Init, Pool!Init, TypeOK
<1>2. StartInv
  BY DEF Init, StartInv, AllWorkersOrNone
<1>3. JobInv
  <2>1. waiting = <<>> /\ DOMAIN waiting = {}
    BY DEF Init, Pool!Init
  <2>2. "none" \notin Answers
    BY DEF Answers, HTTPAssumption
  <2>. QED
    BY <2>1, <2>2 DEF Init, Pool!Init, JobInv
<1>4. HandlerInv /\ TimedOut = {} /\ Stored = {}
  BY DEF Init, Pool!Init, HandlerInv, TimedOut, Stored
<1>5. CountInv
  BY <1>4, FS_EmptySet DEF Init, CountInv, ExitNeedsTimeouts
<1>6. StreakInv
  <2>1. Since = {} /\ Counting = {}
    BY DEF Init, Since, Counting
  <2>. QED
    BY <2>1, FS_EmptySet DEF Init, StreakInv, Streak, HTTPAssumption
<1>. QED
  BY <1>1, <1>2, <1>3, <1>4, <1>5, <1>6 DEF IInv

\* Every step keeps it.
LEMMA StepIInv == ASSUME HTTPAssumption, IInv, [Next]_vars PROVE IInv'
  BY TypeStep, StartStep, JobStep, HandlerStep, CountStep, StreakStep DEF IInv

\* What it implies.
LEMMA IInvImplies ==
  ASSUME HTTPAssumption, IInv
  PROVE  TypeOK /\ AllWorkersOrNone /\ ExitNeedsTimeouts /\ LimitKept /\ OwnAnswer
<1>1. LimitKept
  <2>. SUFFICES ASSUME ~overlapped
                PROVE  /\ program = "timeouts" => Streak = MaxTimeouts
                       /\ Streak >= MaxTimeouts => program = "timeouts" \/ Counting # {}
    BY DEF LimitKept, Streak
  <2>1. Streak \in Nat /\ MaxTimeouts \in Nat
    BY StreakType DEF IInv, HTTPAssumption
  <2>2. /\ program = "timeouts" => Streak = MaxTimeouts
        /\ Counting = {} => Streak < MaxTimeouts
    BY DEF IInv, StreakInv
  <2>. QED
    BY <2>1, <2>2
<1>2. OwnAnswer
  BY SpoiledSame DEF IInv, HandlerInv, JobInv, OwnAnswer, Answers
<1>. QED
  BY <1>1, <1>2 DEF IInv, StartInv, CountInv

\* IInv always holds.
THEOREM Invariance == Spec => []IInv
  BY InitIInv, StepIInv, HTTPAssumption, PTL DEF Spec

\* Type correctness of the handlers, the counter and the pool behind them.
THEOREM TypeCorrect == Spec => []TypeOK
  BY Invariance, IInvImplies, HTTPAssumption, PTL

\* The program serves with all of its workers or not at all (worker.go 52).
THEOREM ServesWithAll == Spec => []AllWorkersOrNone
  BY Invariance, IInvImplies, HTTPAssumption, PTL

\* Lost updates never end the program early (http/worker.go 80-83).
THEOREM NeverEndsEarly == Spec => []ExitNeedsTimeouts
  BY Invariance, IInvImplies, HTTPAssumption, PTL

\* Without overlaps the limit counts the timeouts since the last answer.
THEOREM LimitExact == Spec => []LimitKept
  BY Invariance, IInvImplies, HTTPAssumption, PTL

\* No client gets the answer of another one before its worker has failed twice, or
\* once by a timeout.
THEOREM AnswersMatch == Spec => []OwnAnswer
  BY Invariance, IInvImplies, HTTPAssumption, PTL
=============================================================================
