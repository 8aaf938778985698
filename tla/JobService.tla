----------------------------- MODULE JobService -----------------------------
(***************************************************************************)
(* What Pool.Send promises its clients (worker.go 70-77), whatever the     *)
(* pool does inside: jobs wait in a bounded queue, workers begin them in   *)
(* the order they were sent, and each gets exactly one answer.             *)
(*                                                                         *)
(* A worker that fails a job restarts its process before it answers.  A    *)
(* job that does not fail gets the answer to its own data as long as its   *)
(* worker has failed at most one job, and that not by one of the Spoilers; *)
(* after that any answer may come.                                         *)
(***************************************************************************)
EXTENDS Naturals, Sequences, FiniteSets

CONSTANTS Jobs, Workers, QueueCap, Nil, Failures, Spoilers, Results

VARIABLES
  waiting,   \* the jobs that wait for a worker, in order
  sent,      \* the jobs sent so far
  server,    \* [j]: the worker that has begun j
  outcome,   \* [j]: how j ended
  answered   \* the jobs whose clients have the outcome

vars == <<waiting, sent, server, outcome, answered>>

Init ==
  /\ waiting = <<>> /\ sent = {}
  /\ server = [j \in Jobs |-> Nil]
  /\ outcome = [j \in Jobs |-> "none"]
  /\ answered = {}

Send(j) ==
  /\ j \notin sent /\ Len(waiting) < QueueCap
  /\ sent' = sent \cup {j}
  /\ waiting' = Append(waiting, j)
  /\ UNCHANGED <<server, outcome, answered>>

Begin(w) ==
  /\ waiting # <<>>
  /\ server' = [server EXCEPT ![Head(waiting)] = w]
  /\ waiting' = Tail(waiting)
  /\ UNCHANGED <<sent, outcome, answered>>

\* The jobs that worker w has failed.
Failed(w) == {j \in Jobs : server[j] = w /\ outcome[j] \in Failures}

Spoiled(w) ==
  \/ Cardinality(Failed(w)) > 1
  \/ \E j \in Failed(w) : outcome[j] \in Spoilers

Succeed(j, r) ==
  /\ server[j] # Nil /\ outcome[j] = "none"
  /\ r = j \/ Spoiled(server[j])
  /\ outcome' = [outcome EXCEPT ![j] = r]
  /\ answered' = answered \cup {j}
  /\ UNCHANGED <<waiting, sent, server>>

Fail(j, r) ==
  /\ server[j] # Nil /\ outcome[j] = "none"
  /\ outcome' = [outcome EXCEPT ![j] = r]
  /\ UNCHANGED <<waiting, sent, server, answered>>

AnswerFailed(j) ==
  /\ outcome[j] \in Failures /\ j \notin answered
  /\ answered' = answered \cup {j}
  /\ UNCHANGED <<waiting, sent, server, outcome>>

Next ==
  \/ \E j \in Jobs :
       \/ Send(j) \/ AnswerFailed(j)
       \/ \E r \in Results : Succeed(j, r)
       \/ \E r \in Failures : Fail(j, r)
  \/ \E w \in Workers : Begin(w)

Spec == Init /\ [][Next]_vars
=============================================================================
