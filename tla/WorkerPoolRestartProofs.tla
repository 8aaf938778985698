---------------------- MODULE WorkerPoolRestartProofs ----------------------
(***************************************************************************)
(* What failures, restarts and Pool.Stop do to the workers of WorkerPool,  *)
(* for any number of workers and jobs.                                     *)
(*                                                                         *)
(* To IInv of WorkerPoolProofs come more invariants: LoopsInv counts the   *)
(* job loops of a worker against the processes its restarts got; FailedInv *)
(* says that a failure, once it is there, stays; StopInv is what Stop does *)
(* to workers without failures; FirstInv follows the restart of the first  *)
(* failure of a worker from place to place; SentInv and PipedInv say who   *)
(* is there to see the fields of a worker while they are nil.              *)
(***************************************************************************)
EXTENDS WorkerPoolProofs, FiniteSetTheorems
-----------------------------------------------------------------------------
(* The job loops.                                                          *)

Taken(w) == {j \in Jobs : owner[j] = w}

\* The jobs whose Start has got a process and has returned.
Gained(w) == {j \in Taken(w) : proc[j] # "none" /\ loop[j] \in {"after", "done"}}

Began == {"read", "line", "other", "drain", "ready"}
Spawned == \A j \in Jobs : loop[j] \in Began => proc[j] # "none"

Counted(w) ==
  /\ IsFiniteSet(Taken(w))
  /\ ~closed => idle[w] + Cardinality(Active(w)) >= 1
  /\ idle[w] + Cardinality(Active(w)) <= 1 + Cardinality(Gained(w))

LoopsInv == Spawned /\ \A w \in Workers : Counted(w)

\* The sets of jobs of a worker are finite.
LEMMA FiniteJobs ==
  ASSUME NEW w, IsFiniteSet(Taken(w))
  PROVE  /\ IsFiniteSet(Active(w)) /\ Cardinality(Active(w)) \in Nat
         /\ IsFiniteSet(Gained(w)) /\ Cardinality(Gained(w)) \in Nat
         /\ IsFiniteSet(Restarted(w)) /\ Cardinality(Restarted(w)) \in Nat
         /\ IsFiniteSet(Failed(w))
<1>1. /\ Active(w) \in SUBSET Taken(w) /\ Gained(w) \in SUBSET Taken(w)
      /\ Restarted(w) \in SUBSET Taken(w) /\ Failed(w) \in SUBSET Taken(w)
  BY DEF Active, Gained, Restarted, Failed, Taken
<1>2. \A S \in SUBSET Taken(w) : IsFiniteSet(S)
  BY FS_Subset
<1>. QED
  BY <1>1, <1>2, FS_CardinalityType

\* A step that leaves the jobs of w where they are, or lets them get processes.
LEMMA CountedSame ==
  ASSUME TypeOK, NEW w \in Workers, Counted(w), Taken(w)' = Taken(w), idle'[w] = idle[w],
         Active(w)' = Active(w), Gained(w) \subseteq Gained(w)', ~closed' => ~closed
  PROVE  Counted(w)'
<1>1. IsFiniteSet(Taken(w)')
  BY DEF Counted
<1>2. /\ IsFiniteSet(Gained(w)') /\ Cardinality(Gained(w)') \in Nat
      /\ Cardinality(Gained(w)) \in Nat
  <2>1. Gained(w)' \in SUBSET (Taken(w)')
    BY DEF Gained
  <2>. QED
    BY <1>1, <2>1, FS_Subset, FS_CardinalityType, FiniteJobs DEF Counted
<1>3. Cardinality(Gained(w)) <= Cardinality(Gained(w)')
  BY <1>2, FS_Subset
<1>4. idle[w] \in Nat /\ Cardinality(Active(w)) \in Nat
  BY FiniteJobs DEF Counted, TypeOK, QueueType
<1>. QED
  BY <1>1, <1>2, <1>3, <1>4 DEF Counted

\* What the loop iteration of j does to the places of jobs and to the loops that
\* wait.
LEMMA LoopEffect ==
  ASSUME TypeOK, WellFormed, Spawned, NEW j \in Jobs, Loop(j), ~Panic
  PROVE  /\ UNCHANGED <<owner, closed>>
         /\ loop[j] \notin {"new", "queued", "done"}
         /\ \A p \in Procs : proc[p] # "none" => proc'[p] # "none"
         /\ \E l : /\ loop' = [loop EXCEPT ![j] = l]
                   /\ l \in Began => proc'[j] # "none"
                   /\ \/ l # "done" /\ loop[j] # "after" /\ UNCHANGED idle
                      \/ /\ l = "done"
                         /\ idle' = [idle EXCEPT ![owner[j]] = @ + 1]
                      \/ /\ l = "after" /\ loop[j] = "ready"
                         /\ idle' = [idle EXCEPT ![owner[j]] = @ + 1]
<1>0. /\ proc \in [Procs -> {"none", "starting", "up", "dead", "reaped"}] /\ j \in Procs
      /\ loop \in [Jobs -> {"new", "queued", "select", "check", "kill", "wait",
                        "reap", "reset", "start", "spawn", "read", "line",
                        "other", "drain", "ready", "after", "done"}]
  BY DEF TypeOK, ProcType, LoopType, Procs
<1>1. CASE Receive(j) \/ Timeout(j) \/ AfterRestart(j)
  BY <1>0, <1>1 DEF Receive, Timeout, AfterRestart, Answered, Goto, Began, queueVars, procVars
<1>2. CASE RestartCheck(j) \/ RestartWait(j) \/ RestartReset(j)
  BY <1>0, <1>2 DEF RestartCheck, RestartWait, RestartReset, Goto, Began, queueVars, procVars
<1>3. CASE RestartKill(j)
  BY <1>0, <1>3 DEF RestartKill, Die, Goto, Began, queueVars
<1>4. CASE RestartReap(j)
  <2>1. proc' = [proc EXCEPT ![target[j]] = "reaped"]
    BY <1>4 DEF RestartReap
  <2>2. \A p \in Procs : proc'[p] = IF p = target[j] THEN "reaped" ELSE proc[p]
    BY <1>0, <2>1
  <2>3. /\ UNCHANGED <<owner, closed, idle>> /\ loop' = [loop EXCEPT ![j] = "reset"]
        /\ loop[j] = "reap"
    BY <1>4 DEF RestartReap, Goto, queueVars
  <2>4. \A p \in Procs : proc[p] # "none" => proc'[p] # "none"
    BY <2>2
  <2>5. \E l : /\ loop' = [loop EXCEPT ![j] = l] /\ l \notin Began
               /\ l # "done" /\ loop[j] # "after" /\ UNCHANGED idle
    <3>1. "reset" \notin Began /\ "reset" # "done" /\ "reap" # "after"
      BY DEF Began
    <3>. QED
      BY <2>3, <3>1, Zenon
  <2>. QED
    BY <2>3, <2>4, <2>5
<1>5. CASE StartReader(j) \/ StartRead(j)
  BY <1>0, <1>5 DEF StartReader, StartRead, Spawned, Goto, Began, queueVars, procVars
<1>6. CASE StartSpawn(j)
  BY <1>0, <1>6 DEF StartSpawn, Goto, Began, queueVars
<1>7. CASE StartLine(j) \/ StartDrain(j)
  BY <1>0, <1>7 DEF StartLine, StartDrain, Spawned, Goto, Began, queueVars
<1>8. CASE StartDone(j)
  BY <1>0, <1>8 DEF StartDone, Goto, Began, procVars
<1>. QED
  BY <1>1, <1>2, <1>3, <1>4, <1>5, <1>6, <1>7, <1>8 DEF Loop, Restart

\* A loop iteration keeps the count of its worker's loops.
LEMMA CountedLoop ==
  ASSUME TypeOK, WellFormed, Spawned, NEW j \in Jobs, Loop(j), ~Panic,
         NEW w \in Workers, Counted(w)
  PROVE  Counted(w)'
<1>1. /\ UNCHANGED <<owner, closed>> /\ loop[j] \notin {"new", "queued", "done"}
      /\ \A p \in Procs : proc[p] # "none" => proc'[p] # "none"
  BY LoopEffect
<1>2. PICK l : /\ loop' = [loop EXCEPT ![j] = l]
               /\ \/ l # "done" /\ loop[j] # "after" /\ UNCHANGED idle
                  \/ l = "done" /\ idle' = [idle EXCEPT ![owner[j]] = @ + 1]
                  \/ /\ l = "after" /\ loop[j] = "ready"
                     /\ idle' = [idle EXCEPT ![owner[j]] = @ + 1]
  BY LoopEffect
<1>3. loop \in [Jobs -> {"new", "queued", "select", "check", "kill", "wait",
                         "reap", "reset", "start", "spawn", "read", "line",
                         "other", "drain", "ready", "after", "done"}]
      /\ idle \in [Workers -> Nat] /\ Jobs \subseteq Procs
  BY DEF TypeOK, LoopType, QueueType, Procs
<1>4. Taken(w)' = Taken(w)
  BY <1>1 DEF Taken
<1>5. Gained(w) \subseteq Gained(w)'
  BY <1>1, <1>2, <1>3, <1>4 DEF Gained, Taken
<1>6. CASE owner[j] # w \/ (l # "done" /\ UNCHANGED idle)
  <2>1. Active(w)' = Active(w) /\ idle'[w] = idle[w]
    BY <1>1, <1>2, <1>3, <1>6 DEF Active
  <2>. QED
    BY <1>1, <1>4, <1>5, <2>1, CountedSame
<1>7. CASE owner[j] = w /\ l = "done" /\ idle' = [idle EXCEPT ![owner[j]] = @ + 1]
  <2>1. Active(w)' = Active(w) \ {j} /\ j \in Active(w) /\ idle'[w] = idle[w] + 1
    BY <1>1, <1>2, <1>3, <1>7 DEF Active
  <2>2. /\ IsFiniteSet(Active(w)) /\ Cardinality(Active(w)) \in Nat
        /\ Cardinality(Gained(w)) \in Nat
    BY FiniteJobs DEF Counted
  <2>3. Cardinality(Active(w)') = Cardinality(Active(w)) - 1
    BY <2>1, <2>2, FS_RemoveElement
  <2>4. /\ IsFiniteSet(Gained(w)') /\ Cardinality(Gained(w)') \in Nat
        /\ Cardinality(Gained(w)) <= Cardinality(Gained(w)')
    <3>1. Gained(w)' \in SUBSET Taken(w)
      BY <1>4 DEF Gained
    <3>. QED
      BY <1>5, <3>1, FS_Subset, FS_CardinalityType DEF Counted
  <2>. QED
    BY <1>1, <1>3, <1>4, <2>1, <2>2, <2>3, <2>4 DEF Counted
<1>8. CASE /\ owner[j] = w /\ l = "after" /\ loop[j] = "ready"
           /\ idle' = [idle EXCEPT ![owner[j]] = @ + 1]
  <2>1. Active(w)' = Active(w) /\ idle'[w] = idle[w] + 1
    BY <1>1, <1>2, <1>3, <1>8 DEF Active
  <2>2. Gained(w) \cup {j} \subseteq Gained(w)' /\ j \notin Gained(w)
    BY <1>1, <1>2, <1>3, <1>4, <1>5, <1>8 DEF Gained, Taken, Spawned, Began
  <2>3. /\ Cardinality(Active(w)) \in Nat
        /\ IsFiniteSet(Gained(w)) /\ Cardinality(Gained(w)) \in Nat
    BY FiniteJobs DEF Counted
  <2>4. /\ Cardinality(Gained(w)') \in Nat
        /\ Cardinality(Gained(w)) + 1 <= Cardinality(Gained(w)')
    <3>1. Gained(w)' \in SUBSET Taken(w)
      BY <1>4 DEF Gained
    <3>2. IsFiniteSet(Gained(w)') /\ Cardinality(Gained(w)') \in Nat
      BY <3>1, FS_Subset, FS_CardinalityType DEF Counted
    <3>3. Cardinality(Gained(w) \cup {j}) = Cardinality(Gained(w)) + 1
      BY <2>2, <2>3, FS_AddElement
    <3>4. Gained(w) \cup {j} \in SUBSET (Gained(w)')
      BY <2>2
    <3>. QED
      BY <3>2, <3>3, <3>4, FS_Subset
  <2>. QED
    BY <1>1, <1>3, <1>4, <2>1, <2>3, <2>4 DEF Counted
<1>. QED
  BY <1>2, <1>6, <1>7, <1>8

\* A loop that takes a job works for its worker still.
LEMMA CountedTake ==
  ASSUME TypeOK, WellFormed, NEW v \in Workers, NEW j \in Jobs, Take(v, j),
         NEW w \in Workers, Counted(w)
  PROVE  Counted(w)'
<1>1. /\ owner[j] = Nil /\ owner' = [owner EXCEPT ![j] = v] /\ Nil \notin Workers
      /\ loop' = [loop EXCEPT ![j] = "select"] /\ UNCHANGED <<closed, proc>>
      /\ idle[v] > 0 /\ idle' = [idle EXCEPT ![v] = @ - 1]
  <2>1. loop[j] = "queued"
    BY QueueFacts, TakeFrame DEF TypeOK, QueueType, WellFormed
  <2>. QED
    BY <2>1, PoolAssumption DEF Take, Goto, procVars, WellFormed, JobWell
<1>2. owner \in [Jobs -> Workers \cup {Nil}] /\ idle \in [Workers -> Nat] /\ DOMAIN loop = Jobs
  BY DEF TypeOK, LoopType, QueueType
<1>3. CASE w # v
  <2>1. Taken(w)' = Taken(w) /\ idle'[w] = idle[w]
    BY <1>1, <1>2, <1>3 DEF Taken
  <2>2. Active(w)' = Active(w) /\ Gained(w) \subseteq Gained(w)'
    BY <1>1, <1>2, <1>3 DEF Active, Gained, Taken
  <2>. QED
    BY <1>1, <2>1, <2>2, CountedSame
<1>4. CASE w = v
  <2>1. Taken(w)' = Taken(w) \cup {j} /\ j \notin Active(w) /\ Active(w)' = Active(w) \cup {j}
    BY <1>1, <1>2, <1>4 DEF Taken, Active
  <2>2. Gained(w)' = Gained(w)
    BY <1>1, <1>2, <1>4 DEF Taken, Gained
  <2>3. /\ IsFiniteSet(Active(w)) /\ Cardinality(Active(w)) \in Nat
        /\ Cardinality(Gained(w)) \in Nat
    BY FiniteJobs DEF Counted
  <2>4. Cardinality(Active(w)') = Cardinality(Active(w)) + 1
    BY <2>1, <2>3, FS_AddElement
  <2>5. IsFiniteSet(Taken(w)')
    BY <2>1, FS_AddElement DEF Counted
  <2>6. idle'[w] = idle[w] - 1 /\ idle[w] \in Nat
    BY <1>1, <1>2, <1>4
  <2>. QED
    BY <1>1, <2>2, <2>3, <2>4, <2>5, <2>6 DEF Counted
<1>. QED
  BY <1>3, <1>4

\* A process that has started never becomes one that has not.
LEMMA StartedStays ==
  ASSUME TypeOK, (\E p \in Procs : Process(p)) \/ Stop
  PROVE  \A q \in Procs : proc[q] # "none" => proc'[q] # "none"
<1>0. proc \in [Procs -> {"none", "starting", "up", "dead", "reaped"}]
  BY DEF TypeOK, ProcType
<1>1. ASSUME NEW p \in Procs, Process(p)
      PROVE  \A q \in Procs : proc[q] # "none" => proc'[q] # "none"
  <2>1. UNCHANGED proc \/ \E l \in {"up", "dead"} : proc' = [proc EXCEPT ![p] = l]
    BY <1>1 DEF Process, ProcStray, ProcReady, ProcHandle, ProcFrames, ProcDie, Die
  <2>. QED
    BY <1>0, <2>1
<1>2. ASSUME Stop PROVE \A q \in Procs : proc[q] # "none" => proc'[q] # "none"
  <2>1. UNCHANGED proc \/ proc' = [proc EXCEPT ![waits] = "reaped"]
    BY <1>2 DEF Stop, StopClose, StopNext, StopCheck, StopWrite, StopFlush,
       StopWait, StopReap, Panic, procVars
  <2>. QED
    BY <1>0, <2>1
<1>. QED
  BY <1>1, <1>2

\* Every step keeps the count of the loops of every worker: a restart adds at
\* most the one loop of its Start.
LEMMA LoopsStep ==
  ASSUME TypeOK, WellFormed, LoopsInv, [Next]_vars
  PROVE  LoopsInv'
<1>0. /\ proc \in [Procs -> {"none", "starting", "up", "dead", "reaped"}]
      /\ owner \in [Jobs -> Workers \cup {Nil}] /\ DOMAIN loop = Jobs
      /\ Jobs \subseteq Procs /\ Nil \notin Workers
  BY PoolAssumption DEF TypeOK, ProcType, LoopType, Procs
<1>. DEFINE Kept == \A q \in Procs : proc[q] # "none" => proc'[q] # "none"
<1>1. ASSUME UNCHANGED <<owner, loop, idle>>, Kept, ~closed' => ~closed
      PROVE  LoopsInv'
  <2>1. Spawned'
    BY <1>0, <1>1 DEF Spawned, LoopsInv
  <2>2. ASSUME NEW w \in Workers PROVE Counted(w)'
    <3>1. Taken(w)' = Taken(w) /\ Active(w)' = Active(w) /\ Gained(w) \subseteq Gained(w)'
      BY <1>0, <1>1 DEF Taken, Active, Gained
    <3>. QED
      BY <1>1, <3>1, CountedSame DEF LoopsInv
  <2>. QED
    BY <2>1, <2>2 DEF LoopsInv
<1>2. CASE UNCHANGED vars \/ Panic \/ (\E j \in Jobs : Sender(j) /\ ~Panic)
  <2>1. UNCHANGED <<owner, loop, idle, closed>> /\ Kept
    <3>1. CASE UNCHANGED vars \/ Panic
      BY <3>1 DEF vars, Panic, queueVars, loopVars, procVars
    <3>2. CASE \E j \in Jobs : Sender(j) /\ ~Panic
      BY <3>2 DEF Sender, SendLock, SendWrite, SendFlush, SendRead, SendLength, SendBody,
         SendCopy, queueVars, loopVars, procVars
    <3>. QED
      BY <1>2, <3>1, <3>2
  <2>. QED
    BY <1>1, <2>1
<1>3. CASE Stop \/ \E p \in Procs : Process(p)
  <2>1. UNCHANGED <<owner, loop, idle>> /\ (~closed' => ~closed)
    <3>1. CASE Stop
      BY <3>1 DEF Stop, StopClose, StopNext, StopCheck, StopWrite, StopFlush, StopWait,
         StopReap, Panic,
         queueVars, loopVars
    <3>2. CASE \E p \in Procs : Process(p)
      BY <3>2, ProcessFrame DEF queueVars, loopVars
    <3>. QED
      BY <1>3, <3>1, <3>2
  <2>2. Kept
    BY <1>3, StartedStays
  <2>. QED
    BY <1>1, <2>1, <2>2
<1>4. CASE \E j \in Jobs : Loop(j) /\ ~Panic
  <2>1. PICK j \in Jobs : Loop(j) /\ ~Panic
    BY <1>4
  <2>2. Spawned'
    BY <1>0, <2>1, LoopEffect DEF LoopsInv, Spawned
  <2>. QED
    BY <2>1, <2>2, CountedLoop DEF LoopsInv
<1>5. CASE \E j \in Jobs : Submit(j) /\ ~Panic
  <2>1. PICK j \in Jobs : Submit(j) /\ ~Panic
    BY <1>5
  <2>2. /\ loop[j] = "new" /\ loop' = [loop EXCEPT ![j] = "queued"]
        /\ UNCHANGED <<owner, idle, closed, proc>>
    BY <2>1 DEF Submit, Goto, procVars
  <2>3. owner[j] = Nil
    BY <2>2 DEF WellFormed, JobWell
  <2>4. Spawned'
    BY <1>0, <2>2 DEF LoopsInv, Spawned, Began
  <2>5. ASSUME NEW w \in Workers PROVE Counted(w)'
    <3>1. Taken(w)' = Taken(w) /\ Active(w)' = Active(w) /\ Gained(w) \subseteq Gained(w)'
      BY <1>0, <2>2, <2>3 DEF Taken, Active, Gained
    <3>. QED
      BY <2>2, <3>1, CountedSame DEF LoopsInv
  <2>. QED
    BY <2>4, <2>5 DEF LoopsInv
<1>6. CASE \E v \in Workers, j \in Jobs : Take(v, j)
  <2>1. PICK v \in Workers, j \in Jobs : Take(v, j)
    BY <1>6
  <2>2. loop' = [loop EXCEPT ![j] = "select"] /\ UNCHANGED proc
    BY <2>1 DEF Take, Goto, procVars
  <2>3. Spawned'
    BY <1>0, <2>2 DEF LoopsInv, Spawned, Began
  <2>. QED
    BY <2>1, <2>3, CountedTake DEF LoopsInv
<1>7. CASE \E w \in Workers : LoopExit(w)
  <2>1. closed' /\ UNCHANGED <<owner, loop, proc>>
    BY <1>7 DEF LoopExit, loopVars, procVars
  <2>2. Spawned'
    BY <2>1 DEF LoopsInv, Spawned
  <2>3. ASSUME NEW w \in Workers PROVE Counted(w)'
    <3>1. Taken(w)' = Taken(w) /\ Active(w)' = Active(w) /\ Gained(w)' = Gained(w)
      BY <2>1 DEF Taken, Active, Gained
    <3>2. idle[w] \in Nat /\ idle'[w] \in Nat /\ idle'[w] <= idle[w]
      BY <1>7 DEF LoopExit, TypeOK, QueueType
    <3>3. Cardinality(Active(w)) \in Nat /\ Cardinality(Gained(w)) \in Nat
      BY FiniteJobs DEF LoopsInv, Counted
    <3>. QED
      BY <2>1, <3>1, <3>2, <3>3 DEF LoopsInv, Counted
  <2>. QED
    BY <2>2, <2>3 DEF LoopsInv
<1>. QED
  BY <1>2, <1>3, <1>4, <1>5, <1>6, <1>7, NextCases

\* A pool that has just been started has one loop per worker.
LEMMA LoopsInit == Init => LoopsInv
<1>. SUFFICES ASSUME Init PROVE LoopsInv
  OBVIOUS
<1>1. Spawned
  BY DEF Init, Spawned, Began
<1>2. ASSUME NEW w \in Workers PROVE Counted(w)
  <2>1. Taken(w) = {} /\ Active(w) = {} /\ Gained(w) = {} /\ idle[w] = 1
    BY PoolAssumption DEF Init, Taken, Active, Gained
  <2>. QED
    BY <2>1, FS_EmptySet DEF Counted
<1>. QED
  BY <1>1, <1>2 DEF LoopsInv

\* A worker never loses its job loop before the queue is closed, and gains at most one
\* with every process its restarts get (worker.go 179).
THEOREM LoopsAlwaysKept == Spec => []LoopsKept
<1>. DEFINE Inv == IInv /\ LoopsInv
<1>1. Init => Inv
  BY InitIInv, LoopsInit
<1>2. Inv /\ [Next]_vars => Inv'
  BY NextIInv, LoopsStep DEF IInv
<1>3. Inv => LoopsKept
  <2>. SUFFICES ASSUME Inv, NEW w \in Workers
                PROVE  /\ ~closed => idle[w] + Cardinality(Active(w)) >= 1
                       /\ idle[w] + Cardinality(Active(w)) <= 1 + Cardinality(Restarted(w))
    BY DEF LoopsKept
  <2>1. /\ IsFiniteSet(Taken(w)) /\ (~closed => idle[w] + Cardinality(Active(w)) >= 1)
        /\ idle[w] + Cardinality(Active(w)) <= 1 + Cardinality(Gained(w))
    BY DEF LoopsInv, Counted
  <2>2. Gained(w) \in SUBSET Restarted(w)
    BY DEF Gained, Restarted, Taken
  <2>3. Cardinality(Gained(w)) <= Cardinality(Restarted(w))
    BY <2>1, <2>2, FiniteJobs, FS_Subset
  <2>4. /\ Cardinality(Active(w)) \in Nat /\ Cardinality(Gained(w)) \in Nat
        /\ Cardinality(Restarted(w)) \in Nat /\ idle[w] \in Nat
    BY <2>1, FiniteJobs DEF IInv, TypeOK, QueueType
  <2>. QED
    BY <2>1, <2>3, <2>4
<1>. QED
  BY <1>1, <1>2, <1>3, PTL DEF Spec
-----------------------------------------------------------------------------
(* Failures, and Pool.Stop without them.                                   *)

Restarts == {"check", "kill", "wait", "reap", "reset", "start", "spawn", "after"} \cup Began

\* A job fails once: it has no result before, and keeps the failure.
FailedInv ==
  \A j \in Jobs :
    /\ loop[j] \in {"new", "queued", "select"} => reply[j] = "none"
    /\ loop[j] \in Restarts => reply[j] \in Failures
    /\ got[j] # "timeout"

Calm == \A j \in Jobs : reply[j] \notin Failures

\* As long as no job fails, the workers Stop has not stopped have the process and
\* the pipes they began with, and the others have none that lives.
StopInv ==
  Calm =>
    /\ \A j \in Jobs : proc[j] = "none"
    /\ \A w \in Workers :
         IF w \in pool \/ InStop(w) THEN cmd[w] = w /\ write[w] = w ELSE Down(w)
    /\ stopAt \notin pool /\ (stop \in {"flush", "reap"} => waits = stopAt)
    /\ stop = "stopped" => pool = {}

\* What a loop iteration does with the result: there is none, and it fails or
\* gets one; or it restarts the worker for a failure, which stays.
LEMMA LoopReply ==
  ASSUME TypeOK, NEW j \in Jobs, Loop(j), ~Panic
  PROVE  \/ /\ loop[j] = "select" /\ loop' = [loop EXCEPT ![j] = "check"]
            /\ \E r \in Failures : reply' = [reply EXCEPT ![j] = r]
            /\ UNCHANGED <<target, fields, proc>>
         \/ /\ loop[j] = "select" /\ loop' = [loop EXCEPT ![j] = "done"]
            /\ got[j] # "err" /\ reply' = [reply EXCEPT ![j] = got[j]]
            /\ UNCHANGED <<target, fields, proc>>
         \/ /\ loop[j] \in Restarts /\ UNCHANGED reply
            /\ \E l \in Restarts \cup {"done"} : loop' = [loop EXCEPT ![j] = l]
<1>0. DOMAIN loop = Jobs /\ DOMAIN reply = Jobs /\ loop = [loop EXCEPT ![j] = loop[j]]
      /\ reply = [reply EXCEPT ![j] = reply[j]]
  BY DEF TypeOK, LoopType
<1>1. CASE Receive(j) \/ Timeout(j)
  BY <1>1 DEF Receive, Timeout, Answered, Goto, Failures, loopVars, procVars
<1>2. CASE AfterRestart(j)
  BY <1>0, <1>2 DEF AfterRestart, Answered, Goto, Restarts
<1>3. CASE RestartCheck(j) \/ RestartKill(j) \/ RestartWait(j) \/ RestartReap(j)
           \/ RestartReset(j)
  BY <1>3 DEF RestartCheck, RestartKill, RestartWait, RestartReap, RestartReset, Goto, Restarts
<1>4. CASE StartReader(j) \/ StartSpawn(j) \/ StartRead(j) \/ StartDone(j)
  BY <1>4 DEF StartReader, StartSpawn, StartRead, StartDone, Goto, Restarts, Began
<1>5. CASE StartLine(j) \/ StartDrain(j)
  BY <1>0, <1>5 DEF StartLine, StartDrain, Goto, Restarts, Began
<1>. QED
  BY <1>1, <1>2, <1>3, <1>4, <1>5 DEF Loop, Restart

\* Nobody else touches a result or moves a job, but into and out of the queue.
LEMMA OtherReply ==
  ASSUME TypeOK, WellFormed, [Next]_vars, ~\E j \in Jobs : Loop(j) /\ ~Panic
  PROVE  /\ UNCHANGED <<reply, target>>
         /\ \/ UNCHANGED <<loop, owner>>
            \/ \E j \in Jobs : /\ loop[j] = "new" /\ loop' = [loop EXCEPT ![j] = "queued"]
                               /\ UNCHANGED <<owner, fields, procVars, stopVars, closed>>
            \/ \E w \in Workers, j \in Jobs :
                 /\ loop[j] = "queued" /\ loop' = [loop EXCEPT ![j] = "select"]
                 /\ owner' = [owner EXCEPT ![j] = w]
                 /\ UNCHANGED <<fields, procVars, stopVars, closed>>
<1>1. CASE UNCHANGED vars \/ Panic
  BY <1>1 DEF vars, Panic, loopVars
<1>2. CASE \E j \in Jobs : Submit(j) /\ ~Panic
  BY <1>2 DEF Submit, Goto
<1>3. CASE \E w \in Workers, j \in Jobs : Take(w, j)
  <2>1. PICK w \in Workers, j \in Jobs : Take(w, j)
    BY <1>3
  <2>2. loop[j] = "queued"
    BY <2>1, QueueFacts, TakeFrame DEF TypeOK, QueueType, WellFormed
  <2>. QED
    BY <2>1, <2>2 DEF Take, Goto
<1>4. CASE \E w \in Workers : LoopExit(w)
  BY <1>4 DEF LoopExit, loopVars
<1>5. CASE \E j \in Jobs : Sender(j) /\ ~Panic
  BY <1>5, SenderFrame DEF TypeOK, loopVars
<1>6. CASE Stop
  BY <1>6, StopFrame DEF TypeOK, Panic, loopVars
<1>7. CASE \E p \in Procs : Process(p)
  BY <1>7, ProcessFrame DEF loopVars
<1>. QED
  BY <1>1, <1>2, <1>3, <1>4, <1>5, <1>6, <1>7, NextCases

\* What a send goroutine returns is no timeout.
LEMMA GotStep ==
  ASSUME TypeOK, WellFormed, FailedInv, [Next]_vars
  PROVE  \A j \in Jobs : got'[j] # "timeout"
<1>0. DOMAIN got = Jobs /\ "timeout" \notin Jobs
  BY PoolAssumption DEF TypeOK, SendType, Outcomes
<1>1. CASE UNCHANGED got
  BY <1>1 DEF FailedInv
<1>2. CASE \E j \in Jobs : Sender(j) /\ ~Panic
  <2>1. PICK j \in Jobs : Sender(j) /\ ~Panic
    BY <1>2
  <2>2. ASSUME SendLength(j), stdout[pipe[j]] # <<>>, Head(stdout[pipe[j]]).kind = "len"
        PROVE  Head(stdout[pipe[j]]).job \in Jobs \cup {"mixed"}
    <3>1. pipe[j] \in Procs
      BY <2>2 DEF SendLength, TypeOK, SendType, WellFormed, JobWell
    <3>2. Head(stdout[pipe[j]]) \in Tokens
      BY <2>2, <3>1, SeqFacts DEF TypeOK, ProcType
    <3>. QED
      BY <2>2, <3>2 DEF Tokens
  <2>3. UNCHANGED got \/ \E r \in Jobs \cup {"err", "mixed", got[j]} : got' = [got EXCEPT ![j] = r]
    <3>1. CASE SendLength(j)
      BY <2>2, <3>1 DEF SendLength, Finish
    <3>2. CASE SendLock(j) \/ SendWrite(j) \/ SendFlush(j) \/ SendRead(j) \/ SendBody(j)
      BY <2>1, <3>2 DEF SendLock, SendWrite, SendFlush, SendRead, SendBody, Finish
    <3>3. CASE SendCopy(j)
      BY <3>3 DEF SendCopy, Finish
    <3>. QED
      BY <2>1, <3>1, <3>2, <3>3 DEF Sender
  <2>. QED
    BY <1>0, <2>3 DEF FailedInv
<1>3. CASE \E j \in Jobs : Loop(j) /\ ~Panic
  <2>1. UNCHANGED got
    BY <1>3 DEF Loop, Restart, Receive, Timeout, AfterRestart, RestartCheck,
       RestartKill, RestartWait, RestartReap, RestartReset, StartReader, StartSpawn,
       StartRead, StartLine, StartDrain, StartDone, sendVars
  <2>. QED
    BY <1>1, <2>1
<1>. QED
  <2>1. CASE UNCHANGED vars \/ Panic \/ (\E j \in Jobs : Submit(j) /\ ~Panic)
             \/ (\E w \in Workers : LoopExit(w) \/ \E j \in Jobs : Take(w, j))
    BY <1>1, <2>1 DEF vars, Panic, Submit, LoopExit, Take, sendVars
  <2>2. CASE (\E p \in Procs : Process(p)) \/ Stop
    BY <1>1, <2>2, ProcessFrame, StopFrame DEF TypeOK, sendVars, Panic
  <2>. QED
    BY <1>2, <1>3, <2>1, <2>2, NextCases

\* A step may add a failure, but takes none back.
LEMMA FailedStep ==
  ASSUME TypeOK, WellFormed, FailedInv, [Next]_vars
  PROVE  FailedInv' /\ \A j \in Jobs : reply[j] \in Failures => reply'[j] \in Failures
<1>0. /\ DOMAIN loop = Jobs /\ DOMAIN reply = Jobs /\ "none" \notin Failures
      /\ {"new", "queued", "select"} \cap Restarts = {} /\ "check" \in Restarts
      /\ "done" \notin Restarts
  BY DEF TypeOK, LoopType, Failures, Restarts, Began
<1>1. CASE \E j \in Jobs : Loop(j) /\ ~Panic
  <2>1. PICK j \in Jobs : Loop(j) /\ ~Panic
    BY <1>1
  <2>2. CASE /\ loop[j] = "select" /\ loop' = [loop EXCEPT ![j] = "check"]
             /\ \E r \in Failures : reply' = [reply EXCEPT ![j] = r]
    BY <1>0, <2>2, GotStep DEF FailedInv
  <2>3. CASE /\ loop[j] = "select" /\ loop' = [loop EXCEPT ![j] = "done"]
             /\ reply' = [reply EXCEPT ![j] = got[j]]
    BY <1>0, <2>3, GotStep DEF FailedInv
  <2>4. CASE /\ loop[j] \in Restarts /\ UNCHANGED reply
             /\ \E l \in Restarts \cup {"done"} : loop' = [loop EXCEPT ![j] = l]
    BY <1>0, <2>4, GotStep DEF FailedInv
  <2>. QED
    BY <2>1, <2>2, <2>3, <2>4, LoopReply
<1>2. CASE ~\E j \in Jobs : Loop(j) /\ ~Panic
  BY <1>0, <1>2, OtherReply, GotStep DEF FailedInv
<1>. QED
  BY <1>1, <1>2

\* Every step keeps what Stop needs.
LEMMA StopStep ==
  ASSUME TypeOK, WellFormed, FailedInv, StopInv, [Next]_vars
  PROVE  StopInv'
<1>. SUFFICES ASSUME Calm' PROVE StopInv'
  BY DEF StopInv
<1>0. /\ proc \in [Procs -> {"none", "starting", "up", "dead", "reaped"}]
      /\ cmd \in [Workers -> Procs \cup {Nil}] /\ write \in [Workers -> Procs \cup {Nil}]
      /\ Jobs \subseteq Procs /\ Workers \subseteq Procs /\ Nil \notin Workers
      /\ Workers \cap Jobs = {} /\ pool \subseteq Workers /\ stopAt \in Workers \cup {Nil}
  BY PoolAssumption DEF TypeOK, ProcType, FieldType, StopType, Procs
<1>a. /\ Calm /\ \A j \in Jobs : proc[j] = "none"
      /\ \A w \in Workers :
           IF w \in pool \/ InStop(w) THEN cmd[w] = w /\ write[w] = w ELSE Down(w)
      /\ stopAt \notin pool /\ (stop \in {"flush", "reap"} => waits = stopAt)
      /\ stop = "stopped" => pool = {}
  BY FailedStep DEF StopInv, Calm
<1>1. CASE UNCHANGED <<fields, procVars, stopVars>>
  BY <1>1, <1>a DEF StopInv, InStop, Stopping, Down, fields, procVars, stopVars
<1>2. CASE \E j \in Jobs : Loop(j) /\ ~Panic
  <2>1. PICK j \in Jobs : Loop(j) /\ ~Panic
    BY <1>2
  <2>2. /\ loop[j] = "select" /\ UNCHANGED <<fields, proc>>
    <3>1. DOMAIN reply = Jobs
      BY DEF TypeOK, LoopType
    <3>. QED
      BY <1>a, <2>1, <3>1, LoopReply DEF FailedInv, Calm
  <2>3. UNCHANGED stopVars
    BY <2>1, <2>2 DEF Loop, Restart, Receive, Timeout, AfterRestart, RestartCheck,
       RestartKill, RestartWait, RestartReap, RestartReset, StartReader, StartSpawn,
       StartRead, StartLine, StartDrain, StartDone
  <2>. QED
    BY <1>a, <2>2, <2>3 DEF StopInv, InStop, Stopping, Down, fields, stopVars
<1>3. CASE \E j \in Jobs : Sender(j) /\ ~Panic
  <2>1. UNCHANGED <<fields, stopVars>>
    BY <1>3, SenderFrame DEF TypeOK
  <2>2. UNCHANGED proc
    BY <1>3 DEF Sender, SendLock, SendWrite, SendFlush, SendRead, SendLength, SendBody,
       SendCopy, procVars
  <2>. QED
    BY <1>a, <2>1, <2>2 DEF StopInv, InStop, Stopping, Down, fields, stopVars
<1>4. CASE \E p \in Procs : Process(p)
  <2>1. PICK p \in Procs : Process(p)
    BY <1>4
  <2>2. UNCHANGED <<fields, stopVars>>
    BY <2>1, ProcessFrame
  <2>3. \/ UNCHANGED proc
        \/ /\ proc[p] \in {"starting", "up"}
           /\ \E l \in {"up", "dead"} : proc' = [proc EXCEPT ![p] = l]
    BY <2>1 DEF Process, ProcStray, ProcReady, ProcHandle, ProcFrames, ProcDie, Die
  <2>4. /\ \A j \in Jobs : proc'[j] = "none"
        /\ \A w \in Workers : Down(w) => Down(w)'
    BY <1>0, <1>a, <2>3 DEF Down
  <2>. QED
    BY <1>a, <2>2, <2>4 DEF StopInv, InStop, Stopping, fields, stopVars
<1>5. CASE Stop
  <2>1. CASE StopClose
    BY <1>a, <2>1 DEF StopClose, StopInv, InStop, Stopping, Down, fields, procVars
  <2>2. CASE StopNext
    BY <1>0, <1>a, <2>2 DEF StopNext, StopInv, InStop, Stopping, Down, fields, procVars
  <2>3. CASE (StopCheck \/ StopWrite \/ StopFlush) /\ ~Panic
    <3>1. stop \in {"check", "write", "flush"} /\ stopAt \in Workers /\ InStop(stopAt)
      BY <1>0, <2>3 DEF StopCheck, StopWrite, StopFlush, WellFormed, StopWell, InStop, Stopping
    <3>2. cmd[stopAt] = stopAt /\ write[stopAt] = stopAt /\ stopAt # Nil
      BY <1>0, <1>a, <3>1
    <3>3. /\ UNCHANGED <<fields, proc, pool, stopAt>>
          /\ \/ Down(stopAt) /\ stop' = "next"
             \/ stop' \in {"write", "wait"}
             \/ stop' = "flush" /\ waits' = stopAt
      BY <1>a, <2>3, <3>1, <3>2 DEF StopCheck, StopWrite, StopFlush, StopUnlock, procVars
    <3>. QED
      BY <1>a, <3>1, <3>2, <3>3 DEF StopInv, InStop, Stopping, Down, fields
  <2>4. CASE StopWait /\ ~Panic
    <3>1. /\ stop = "wait" /\ stop' = "reap" /\ waits' = cmd[stopAt] /\ stopAt \in Workers
          /\ UNCHANGED <<fields, proc, pool, stopAt>>
      BY <1>0, <2>4 DEF StopWait, WellFormed, StopWell, Stopping, procVars
    <3>2. cmd[stopAt] = stopAt
      BY <1>a, <3>1 DEF InStop, Stopping
    <3>. QED
      BY <1>a, <3>1, <3>2 DEF StopInv, InStop, Stopping, Down, fields
  <2>5. CASE StopReap
    <3>1. /\ stop = "reap" /\ stop' = "next" /\ waits = stopAt /\ stopAt \in Workers
          /\ proc' = [proc EXCEPT ![stopAt] = "reaped"] /\ UNCHANGED <<pool, stopAt>>
          /\ waits' = Nil
      BY <1>0, <1>a, <2>5 DEF StopReap, StopUnlock, WellFormed, StopWell, Stopping
    <3>2. \A w \in Workers \ {stopAt} : cmd'[w] = cmd[w] /\ write'[w] = write[w]
      BY <1>0, <2>5 DEF StopReap, fields
    <3>3. /\ Down(stopAt)' /\ \A w \in Workers \ {stopAt} : Down(w)' <=> Down(w)
          /\ \A j \in Jobs : proc'[j] = "none"
      BY <1>0, <1>a, <3>1 DEF Down
    <3>. QED
      BY <1>a, <3>1, <3>2, <3>3 DEF StopInv, InStop, Stopping
  <2>. QED
    BY <1>1, <1>5, <2>1, <2>2, <2>3, <2>4, <2>5 DEF Stop, Panic
<1>. QED
  <2>1. CASE UNCHANGED vars \/ Panic \/ (\E j \in Jobs : Submit(j) /\ ~Panic)
             \/ (\E w \in Workers : LoopExit(w) \/ \E j \in Jobs : Take(w, j))
    <3>1. UNCHANGED <<fields, procVars, stopVars>>
      BY <2>1 DEF vars, Panic, Submit, LoopExit, Take
    <3>. QED
      BY <1>1, <3>1
  <2>. QED
    BY <1>2, <1>3, <1>4, <1>5, <2>1, NextCases

\* A pool that has just been started has no failures.
LEMMA StopInit == Init => FailedInv /\ StopInv
<1>. SUFFICES ASSUME Init PROVE FailedInv /\ StopInv
  OBVIOUS
<1>1. FailedInv
  BY DEF Init, FailedInv, Restarts, Began
<1>2. StopInv
  BY PoolAssumption DEF Init, StopInv, Procs
<1>. QED
  BY <1>1, <1>2

\* A Stop that no failure comes between stops every process (worker.go 79), also
\* if processes die on their own meanwhile.
THEOREM AlwaysCleanStop == Spec => []CleanStop
<1>. DEFINE Inv == IInv /\ FailedInv /\ StopInv
<1>1. Init => Inv
  BY InitIInv, StopInit
<1>2. Inv /\ [Next]_vars => Inv'
  BY NextIInv, FailedStep, StopStep DEF IInv
<1>3. Inv => CleanStop
  <2>. SUFFICES ASSUME Inv, stop = "stopped", \A w \in Workers : Failed(w) = {},
                       NEW p \in Procs
                PROVE  ~Alive(p)
    BY DEF CleanStop
  <2>1. Calm
    <3>. SUFFICES ASSUME NEW j \in Jobs, reply[j] \in Failures PROVE FALSE
      BY DEF Calm
    <3>1. loop[j] \notin {"new", "queued"}
      BY DEF FailedInv, Failures
    <3>2. owner[j] \in Workers
      BY <3>1, Owned DEF IInv, TypeOK
    <3>. QED
      BY <3>2 DEF Failed
  <2>2. pool = {}
    BY <2>1 DEF StopInv
  <2>3. \A w \in Workers : ~InStop(w)
    BY DEF InStop, Stopping
  <2>. QED
    BY <2>1, <2>2, <2>3 DEF StopInv, Down, Alive, Procs
<1>. QED
  BY <1>1, <1>2, <1>3, PTL DEF Spec
-----------------------------------------------------------------------------
(* The first failure of a worker.                                          *)

AllAre(w, p) == cmd[w] = p /\ read[w] = p /\ write[w] = p

\* Before it: the process of Pool.Start and its pipes, or nothing once Stop has
\* waited for that process.
Old(w) == AllAre(w, w) \/ (AllAre(w, Nil) /\ proc[w] = "reaped")

Fresh(w) ==
  /\ Old(w)
  /\ \A j \in Taken(w) : proc[j] = "none"
  /\ stopAt = w /\ stop = "reap" => waits = w

\* From it on, by how far the restart has come: the old process is gone before
\* there is a new one, and the fields name the old one, none, or the new one.  Stop
\* waits for the new one only after the restart.
Since(w, f) ==
  /\ \A j \in Taken(w) \ {f} : proc[j] = "none"
  /\ loop[f] \in {"check", "kill", "wait", "reap", "reset"} => Old(w)
  /\ loop[f] = "reap" => target[f] = w
  /\ loop[f] \in {"wait", "reap"} => Down(w)
  /\ loop[f] \notin {"check", "kill", "wait", "reap"} => proc[w] = "reaped"
  /\ loop[f] = "start" => AllAre(w, Nil)
  /\ loop[f] = "spawn" => cmd[w] = Nil /\ read[w] = f /\ write[w] = Nil
  /\ loop[f] \in {"check", "kill", "wait", "reap", "reset", "start", "spawn"} => proc[f] = "none"
  /\ loop[f] \in Began =>
       cmd[w] = Nil /\ read[w] = f /\ write[w] = f /\ proc[f] # "none"
  /\ loop[f] \in {"line", "drain"} => target[f] = f
  /\ loop[f] \in {"after", "done"} =>
       \/ \E p \in {w, f, Nil} : AllAre(w, p)
       \/ cmd[w] = Nil /\ read[w] = f /\ write[w] = f /\ Down(f)
  /\ stopAt = w /\ stop = "reap" =>
       waits = w \/ (waits = f /\ loop[f] \in {"after", "done"})

FirstInv ==
  /\ \A j \in Jobs : loop[j] \in {"new", "queued"} => proc[j] = "none"
  /\ \A w \in Workers :
       /\ Failed(w) = {} => Fresh(w)
       /\ \A f \in Jobs : Failed(w) = {f} => Since(w, f)

\* A loop iteration leaves the other workers, their jobs and their processes
\* alone.
LEMMA LoopLocal ==
  ASSUME TypeOK, WellFormed, IsolationPoints, NEW j \in Jobs, Loop(j), ~Panic
  PROVE  /\ UNCHANGED <<owner, closed>> /\ owner[j] \in Workers
         /\ \A w \in Workers \ {owner[j]} :
              cmd'[w] = cmd[w] /\ read'[w] = read[w] /\ write'[w] = write[w]
         /\ \A k \in Jobs \ {j} :
              loop'[k] = loop[k] /\ target'[k] = target[k] /\ reply'[k] = reply[k]
         /\ \A q \in Procs : ~Owns(owner[j], q) => proc'[q] = proc[q]
<1>0. /\ proc \in [Procs -> {"none", "starting", "up", "dead", "reaped"}]
      /\ Jobs \subseteq Procs /\ Nil \notin Procs
      /\ DOMAIN loop = Jobs /\ DOMAIN target = Jobs /\ DOMAIN reply = Jobs
      /\ DOMAIN cmd = Workers /\ DOMAIN read = Workers /\ DOMAIN write = Workers
  BY PoolAssumption DEF TypeOK, ProcType, LoopType, FieldType, Procs
<1>1. owner' = owner /\ loop[j] \notin {"new", "queued"} /\ owner[j] \in Workers
  BY LoopFrame, Owned DEF TypeOK
<1>2. closed' = closed
  BY DEF Loop, Restart, Receive, Timeout, AfterRestart, Answered, RestartCheck, RestartKill,
     RestartWait, RestartReap, RestartReset, StartReader, StartSpawn, StartRead, StartLine,
     StartDrain, StartDone, queueVars
<1>3. \A w \in Workers \ {owner[j]} :
        cmd'[w] = cmd[w] /\ read'[w] = read[w] /\ write'[w] = write[w]
  BY <1>0, LoopFields
<1>4. \A k \in Jobs \ {j} : reply'[k] = reply[k] /\ loop'[k] = loop[k]
  <2>1. UNCHANGED reply \/ \E r : reply' = [reply EXCEPT ![j] = r]
    BY LoopReply
  <2>2. \E l : loop' = [loop EXCEPT ![j] = l]
    BY LoopReply
  <2>. QED
    BY <1>0, <2>1, <2>2
<1>5. \A k \in Jobs \ {j} : target'[k] = target[k]
  BY <1>0, LoopFrame DEF TypeOK
<1>6. \A q \in Procs : ~Owns(owner[j], q) => proc'[q] = proc[q]
  <2>1. \/ UNCHANGED proc
        \/ \E q \in {cmd[owner[j]], target[j], j} : \E l : proc' = [proc EXCEPT ![q] = l]
    BY DEF Loop, Restart, Receive, Timeout, AfterRestart, RestartCheck, RestartKill, Die,
       RestartWait, RestartReap, RestartReset, StartReader, StartSpawn, StartRead,
       StartLine, StartDrain, StartDone, procVars
  <2>2. \A q \in {cmd[owner[j]], target[j], j} : Owns(owner[j], q)
    BY <1>1, PoolAssumption DEF IsolationPoints, Owns
  <2>. QED
    BY <1>0, <2>1, <2>2
<1>. QED
  BY <1>1, <1>2, <1>3, <1>4, <1>5, <1>6

\* Nobody else starts a process, or brings one back.
LEMMA OtherProc ==
  ASSUME TypeOK, WellFormed, [Next]_vars, ~\E j \in Jobs : Loop(j) /\ ~Panic
  PROVE  \A p \in Procs : /\ proc[p] = "none" <=> proc'[p] = "none"
                          /\ Down(p) => Down(p)'
                          /\ proc[p] = "reaped" => proc'[p] = "reaped"
<1>0. /\ proc \in [Procs -> {"none", "starting", "up", "dead", "reaped"}]
  BY DEF TypeOK, ProcType
<1>1. CASE UNCHANGED proc
  BY <1>1 DEF Down
<1>2. CASE \E p \in Procs : Process(p)
  <2>1. PICK p \in Procs : Process(p)
    BY <1>2
  <2>2. \/ UNCHANGED proc
        \/ /\ proc[p] \in {"starting", "up"}
           /\ \E l \in {"up", "dead"} : proc' = [proc EXCEPT ![p] = l]
    BY <2>1 DEF Process, ProcStray, ProcReady, ProcHandle, ProcFrames, ProcDie, Die
  <2>. QED
    BY <1>0, <2>2 DEF Down
<1>3. CASE Stop
  <2>1. UNCHANGED proc \/ (Down(waits) /\ proc' = [proc EXCEPT ![waits] = "reaped"])
    BY <1>3 DEF Stop, StopClose, StopNext, StopCheck, StopWrite, StopFlush,
       StopWait, StopReap, Panic, procVars
  <2>. QED
    BY <1>0, <2>1 DEF Down
<1>. QED
  <2>1. CASE \E j \in Jobs : Sender(j) /\ ~Panic
    <3>1. UNCHANGED proc
      BY <2>1 DEF Sender, SendLock, SendWrite, SendFlush, SendRead, SendLength, SendBody,
         SendCopy, procVars
    <3>. QED
      BY <1>1, <3>1
  <2>2. CASE UNCHANGED vars \/ Panic \/ (\E j \in Jobs : Submit(j) /\ ~Panic)
             \/ (\E w \in Workers : LoopExit(w) \/ \E j \in Jobs : Take(w, j))
    <3>1. UNCHANGED proc
      BY <2>2 DEF vars, Panic, Submit, LoopExit, Take, procVars
    <3>. QED
      BY <1>1, <3>1
  <2>. QED
    BY <1>2, <1>3, <2>1, <2>2, NextCases

\* Only Stop touches fields, and it begins to wait and ends waiting.
LEMMA OtherFields ==
  ASSUME TypeOK, WellFormed, [Next]_vars, ~\E j \in Jobs : Loop(j) /\ ~Panic,
         ~(StopWait /\ ~Panic), ~StopReap
  PROVE  UNCHANGED fields /\ (stop' = "reap" => UNCHANGED <<stop, stopAt, waits>>)
<1>1. CASE \E j \in Jobs : Sender(j) /\ ~Panic
  BY <1>1, SenderFrame DEF TypeOK, stopVars
<1>2. CASE UNCHANGED vars \/ Panic \/ (\E j \in Jobs : Submit(j) /\ ~Panic)
           \/ (\E w \in Workers : LoopExit(w) \/ \E j \in Jobs : Take(w, j))
  BY <1>2 DEF vars, Panic, Submit, LoopExit, Take, stopVars
<1>3. CASE \E p \in Procs : Process(p)
  BY <1>3, ProcessFrame DEF stopVars
<1>4. CASE Stop /\ ~Panic
  BY <1>4 DEF Stop, StopClose, StopNext, StopCheck, StopWrite, StopFlush, StopUnlock
<1>. QED
  BY <1>1, <1>2, <1>3, <1>4, NextCases

\* A step that leaves the failures and the fields of w, and where its restart is.
LEMMA FirstSame ==
  ASSUME NEW w \in Workers,
         Failed(w) = {} => Fresh(w),
         \A f \in Jobs : Failed(w) = {f} => Since(w, f),
         Failed(w)' = Failed(w), cmd'[w] = cmd[w], read'[w] = read[w], write'[w] = write[w],
         \A k \in Failed(w) : loop'[k] = loop[k] /\ target'[k] = target[k],
         \A k \in Taken(w)' : proc'[k] = "none" \/ (k \in Taken(w) /\ proc[k] # "none"),
         \A p \in {w} \cup Taken(w) : /\ proc[p] = "none" <=> proc'[p] = "none"
                                      /\ Down(p) => Down(p)'
                                      /\ proc[p] = "reaped" => proc'[p] = "reaped",
         stopAt' = w /\ stop' = "reap" => UNCHANGED <<stop, stopAt, waits>>
  PROVE  /\ Failed(w)' = {} => Fresh(w)'
         /\ \A f \in Jobs : Failed(w)' = {f} => Since(w, f)'
<1>0. /\ \A p : AllAre(w, p)' <=> AllAre(w, p)
      /\ Old(w) => Old(w)'
  BY DEF AllAre, Old
<1>1. ASSUME Failed(w)' = {} PROVE Fresh(w)'
  <2>1. Fresh(w)
    BY <1>1
  <2>. QED
    BY <1>0, <2>1 DEF Fresh
<1>2. ASSUME NEW f \in Jobs, Failed(w)' = {f} PROVE Since(w, f)'
  <2>1. /\ Since(w, f) /\ loop'[f] = loop[f] /\ target'[f] = target[f] /\ f \in Taken(w)
    BY <1>2 DEF Failed, Taken
  <2>2. \A k \in Taken(w)' \ {f} : proc'[k] = "none"
    BY <2>1 DEF Since
  <2>3. /\ loop[f] \in {"after", "done"} =>
             \/ \E p \in {w, f, Nil} : AllAre(w, p)'
             \/ cmd'[w] = Nil /\ read'[w] = f /\ write'[w] = f /\ Down(f)'
    BY <1>0, <2>1 DEF Since
  <2>. QED
    BY <1>0, <2>1, <2>2, <2>3 DEF Since
<1>. QED
  BY <1>1, <1>2

\* The restart of the first failure, step by step.
LEMMA RestartFirst ==
  ASSUME TypeOK, WellFormed, IsolationPoints, NEW j \in Jobs, Loop(j), ~Panic,
         loop[j] \in Restarts, Since(owner[j], j)
  PROVE  Since(owner[j], j)'
<1>. DEFINE w == owner[j]
<1>0. /\ proc \in [Procs -> {"none", "starting", "up", "dead", "reaped"}]
      /\ cmd \in [Workers -> Procs \cup {Nil}] /\ read \in [Workers -> Procs \cup {Nil}]
      /\ write \in [Workers -> Procs \cup {Nil}] /\ target \in [Jobs -> Procs \cup {Nil}]
      /\ DOMAIN loop = Jobs /\ DOMAIN reply = Jobs
      /\ Jobs \subseteq Procs /\ Workers \subseteq Procs /\ Nil \notin Procs
      /\ Workers \cap Jobs = {} /\ w \in Workers /\ w # j /\ j \in Procs
      /\ UNCHANGED <<owner, stop, stopAt, waits>> /\ Taken(w)' = Taken(w)
  BY LoopLocal, LoopFrame, PoolAssumption DEF TypeOK, ProcType, LoopType, FieldType, Procs, Taken
<1>a. \A k \in Taken(w) \ {j} : proc[k] = "none" /\ k \in Jobs
  BY DEF Since, Taken
<1>b. stopAt = w /\ stop = "reap" => waits = w \/ (waits = j /\ loop[j] \in {"after", "done"})
  BY DEF Since
<1>1. CASE Receive(j) \/ Timeout(j)
  BY <1>1 DEF Receive, Timeout, Restarts, Began
<1>2. CASE AfterRestart(j)
  <2>1. loop[j] = "after" /\ loop' = [loop EXCEPT ![j] = "done"] /\ UNCHANGED <<fields, proc>>
    BY <1>2 DEF AfterRestart, Answered, Goto, procVars
  <2>2. loop'[j] = "done"
    BY <1>0, <2>1
  <2>. QED
    BY <1>0, <1>a, <2>1, <2>2 DEF Since, Began, fields, Down, AllAre
<1>3. CASE RestartCheck(j)
  <2>1. /\ loop[j] = "check" /\ UNCHANGED <<fields, proc>>
        /\ loop'[j] = IF cmd[w] = Nil THEN "reset" ELSE "kill"
    BY <1>0, <1>3 DEF RestartCheck, Goto, procVars
  <2>2. Old(w) /\ Old(w)' /\ (cmd[w] = Nil => proc[w] = "reaped")
    BY <1>0, <2>1 DEF Since, Old, AllAre, fields
  <2>3. proc[j] = "none"
    BY <2>1 DEF Since
  <2>. QED
    BY <1>0, <1>a, <1>b, <2>1, <2>2, <2>3 DEF Since, Began
<1>4. CASE RestartKill(j)
  <2>1. loop[j] = "kill" /\ UNCHANGED fields /\ AllAre(w, w) /\ proc[j] = "none"
    BY <1>4 DEF RestartKill, Since, Old, AllAre
  <2>2. \/ /\ proc[w] = "reaped" /\ loop'[j] = "after" /\ UNCHANGED proc
        \/ /\ loop'[j] = "wait" /\ proc' = [proc EXCEPT ![w] = "dead"]
    BY <1>0, <1>4, <2>1 DEF RestartKill, Goto, Die, AllAre
  <2>3. /\ \A k \in Jobs : proc'[k] = proc[k]
        /\ AllAre(w, w)' /\ Down(w)'
    BY <1>0, <2>1, <2>2 DEF Down, AllAre, fields
  <2>. QED
    BY <1>0, <1>a, <1>b, <2>1, <2>2, <2>3 DEF Since, Began, Old
<1>5. CASE RestartWait(j)
  <2>1. /\ loop[j] = "wait" /\ loop'[j] = "reap" /\ UNCHANGED <<fields, proc>>
        /\ target'[j] = cmd[w] /\ cmd[w] # Nil
    BY <1>0, <1>5 DEF RestartWait, Goto, procVars
  <2>2. cmd[w] = w /\ Old(w)' /\ Down(w)' /\ proc'[j] = "none"
    BY <1>0, <2>1 DEF Since, Old, AllAre, Down, fields
  <2>. QED
    BY <1>0, <1>a, <1>b, <2>1, <2>2 DEF Since, Began
<1>6. CASE RestartReap(j)
  <2>1. /\ loop[j] = "reap" /\ loop'[j] = "reset" /\ UNCHANGED fields
        /\ proc' = [proc EXCEPT ![w] = "reaped"] /\ Old(w) /\ proc[j] = "none"
    BY <1>0, <1>6 DEF RestartReap, Goto, Since
  <2>2. /\ \A k \in Jobs : proc'[k] = proc[k]
        /\ proc'[w] = "reaped"
    BY <1>0, <2>1
  <2>3. Old(w)'
    BY <1>0, <2>1, <2>2 DEF Old, AllAre, fields
  <2>. QED
    BY <1>0, <1>a, <1>b, <2>1, <2>2, <2>3 DEF Since, Began
<1>7. CASE RestartReset(j)
  <2>1. /\ loop[j] = "reset" /\ loop'[j] = "start" /\ UNCHANGED proc /\ AllAre(w, Nil)'
    BY <1>0, <1>7 DEF RestartReset, Goto, procVars, AllAre
  <2>2. proc[w] = "reaped" /\ proc[j] = "none"
    BY <2>1 DEF Since
  <2>. QED
    BY <1>0, <1>a, <1>b, <2>1, <2>2 DEF Since, Began
<1>8. CASE StartReader(j)
  <2>1. loop[j] = "start" /\ AllAre(w, Nil) /\ proc[w] = "reaped" /\ proc[j] = "none"
    BY <1>8 DEF StartReader, Since
  <2>2. /\ loop'[j] = "spawn" /\ UNCHANGED proc
        /\ cmd'[w] = Nil /\ read'[w] = j /\ write'[w] = Nil
    BY <1>0, <1>8, <2>1 DEF StartReader, Goto, procVars, AllAre
  <2>. QED
    BY <1>0, <1>a, <1>b, <2>1, <2>2 DEF Since, Began
<1>9. CASE StartSpawn(j)
  <2>1. /\ loop[j] = "spawn" /\ cmd[w] = Nil /\ read[w] = j /\ proc[w] = "reaped"
    BY <1>9 DEF StartSpawn, Since
  <2>2. /\ cmd'[w] = Nil /\ read'[w] = j /\ write'[w] = j
        /\ \/ loop'[j] = "read" /\ proc' = [proc EXCEPT ![j] = "starting"]
           \/ loop'[j] = "after" /\ proc' = [proc EXCEPT ![j] = "reaped"]
    BY <1>0, <1>9, <2>1 DEF StartSpawn, Goto
  <2>3. /\ \A q \in Procs \ {j} : proc'[q] = proc[q]
        /\ proc'[j] # "none" /\ (loop'[j] = "after" => Down(j)')
    BY <1>0, <2>2 DEF Down
  <2>. QED
    BY <1>0, <1>a, <1>b, <2>1, <2>2, <2>3 DEF Since, Began
<1>10. CASE StartRead(j) \/ StartLine(j) \/ StartDrain(j)
  <2>1. loop[j] \in Began \ {"ready"} /\ UNCHANGED <<fields, proc>>
    BY <1>10 DEF StartRead, StartLine, StartDrain, Began, procVars
  <2>2. /\ cmd[w] = Nil /\ read[w] = j /\ write[w] = j /\ proc[w] = "reaped" /\ proc[j] # "none"
        /\ loop[j] \in {"line", "drain"} => target[j] = j
    BY <2>1 DEF Since, Began
  <2>3. \/ loop'[j] \in Began /\ (loop'[j] \in {"line", "drain"} => target'[j] = j)
        \/ loop'[j] = "after" /\ Down(j)
    <3>1. CASE StartRead(j)
      BY <1>0, <2>2, <3>1 DEF StartRead, Goto, Began
    <3>2. CASE StartLine(j)
      BY <1>0, <2>2, <3>2 DEF StartLine, Goto, Began, Eof, Down
    <3>3. CASE StartDrain(j)
      BY <1>0, <2>2, <3>3 DEF StartDrain, Goto, Began, Eof, Down
    <3>. QED
      BY <1>10, <3>1, <3>2, <3>3
  <2>4. /\ cmd'[w] = Nil /\ read'[w] = j /\ write'[w] = j /\ proc'[w] = "reaped"
        /\ proc'[j] # "none" /\ (Down(j) => Down(j)') /\ loop[j] \notin {"after", "done"}
        /\ \A k \in Taken(w) \ {j} : proc'[k] = "none"
    BY <1>a, <2>1, <2>2 DEF fields, Began, Down
  <2>5. CASE loop'[j] = "after" /\ Down(j)
    BY <1>0, <1>b, <2>4, <2>5 DEF Since, Began
  <2>6. CASE loop'[j] \in Began /\ (loop'[j] \in {"line", "drain"} => target'[j] = j)
    BY <1>0, <1>b, <2>4, <2>6 DEF Since, Began
  <2>. QED
    BY <2>3, <2>5, <2>6
<1>11. CASE StartDone(j)
  <2>1. /\ loop[j] = "ready" /\ loop'[j] = "after" /\ UNCHANGED <<read, write, proc>>
        /\ cmd'[w] = j
    BY <1>0, <1>11 DEF StartDone, Goto, procVars
  <2>2. read[w] = j /\ write[w] = j /\ proc[w] = "reaped"
    BY <2>1 DEF Since, Began
  <2>3. AllAre(w, j)'
    BY <1>0, <2>1, <2>2 DEF AllAre
  <2>. QED
    BY <1>0, <1>a, <1>b, <2>1, <2>2, <2>3 DEF Since, Began
<1>. QED
  BY <1>1, <1>2, <1>3, <1>4, <1>5, <1>6, <1>7, <1>8, <1>9, <1>10, <1>11 DEF Loop, Restart

\* Stop begins to wait for the process that the fields name, and ends when it is gone.
LEMMA StopFirst ==
  ASSUME TypeOK, WellFormed, FailedInv, FirstInv, (StopWait /\ ~Panic) \/ StopReap,
         Failed(stopAt)' = Failed(stopAt)
  PROVE  /\ Failed(stopAt)' = {} => Fresh(stopAt)'
         /\ \A f \in Jobs : Failed(stopAt)' = {f} => Since(stopAt, f)'
<1>. DEFINE w == stopAt
<1>0. /\ proc \in [Procs -> {"none", "starting", "up", "dead", "reaped"}]
      /\ cmd \in [Workers -> Procs \cup {Nil}] /\ read \in [Workers -> Procs \cup {Nil}]
      /\ write \in [Workers -> Procs \cup {Nil}]
      /\ Jobs \subseteq Procs /\ Workers \subseteq Procs /\ Nil \notin Procs
      /\ Workers \cap Jobs = {} /\ w \in Workers /\ UNCHANGED <<loopVars, stopAt>>
      /\ Taken(w)' = Taken(w) /\ Taken(w) \subseteq Jobs
  BY PoolAssumption DEF StopWait, StopReap, TypeOK, ProcType, FieldType, StopType, Procs,
     WellFormed, StopWell, Stopping, Taken, loopVars
<1>1. CASE StopWait /\ ~Panic
  <2>1. /\ stop # "reap" /\ UNCHANGED <<fields, proc>> /\ waits' = cmd[w] /\ cmd[w] # Nil
    BY <1>1 DEF StopWait, procVars
  <2>2. ASSUME Failed(w) = {} PROVE Fresh(w)'
    <3>1. Fresh(w)
      BY <1>0, <2>2 DEF FirstInv
    <3>2. cmd[w] = w /\ Old(w)'
      BY <1>0, <2>1, <3>1 DEF Fresh, Old, AllAre, fields
    <3>. QED
      BY <1>0, <2>1, <3>1, <3>2 DEF Fresh
  <2>3. ASSUME NEW f \in Jobs, Failed(w) = {f} PROVE Since(w, f)'
    <3>1. Since(w, f)
      BY <1>0, <2>3 DEF FirstInv
    <3>2. loop[f] \in {"check", "kill", "wait", "reap", "reset", "start", "spawn", "after", "done"}
                      \cup Began
      <4>1. f \in Failed(w)
        BY <2>3
      <4>. QED
        BY <4>1 DEF FirstInv, Failed, FailedInv, Failures, TypeOK, LoopType, Began
    <3>3. cmd[w] = w \/ (cmd[w] = f /\ loop[f] \in {"after", "done"})
      BY <1>0, <2>1, <3>1, <3>2 DEF Since, Old, AllAre, Began
    <3>4. \A p : AllAre(w, p)' <=> AllAre(w, p)
      BY <1>0, <2>1 DEF AllAre, fields
    <3>5. (Old(w)' <=> Old(w)) /\ (Down(w)' <=> Down(w)) /\ (Down(f)' <=> Down(f))
      BY <1>0, <2>1, <3>4 DEF Old, Down
    <3>6. /\ loop'[f] = loop[f] /\ target'[f] = target[f]
          /\ cmd'[w] = cmd[w] /\ read'[w] = read[w] /\ write'[w] = write[w]
      BY <1>0, <2>1 DEF fields, loopVars
    <3>. QED
      BY <1>0, <2>1, <3>1, <3>3, <3>4, <3>5, <3>6 DEF Since
  <2>. QED
    BY <2>2, <2>3
<1>2. CASE StopReap
  <2>1. /\ stop = "reap" /\ stop' = "next" /\ Down(waits)
        /\ proc' = [proc EXCEPT ![waits] = "reaped"]
        /\ UNCHANGED fields \/ (proc[waits] = "dead" /\ AllAre(w, Nil)')
    BY <1>0, <1>2 DEF StopReap, StopUnlock, AllAre
  <2>2. ASSUME Failed(w) = {} PROVE Fresh(w)'
    <3>1. Fresh(w) /\ waits = w
      BY <1>0, <2>1, <2>2 DEF FirstInv, Fresh
    <3>2. proc'[w] = "reaped" /\ \A k \in Taken(w) : proc'[k] = proc[k]
      BY <1>0, <2>1, <3>1
    <3>3. Old(w)'
      BY <1>0, <2>1, <3>1, <3>2 DEF Fresh, Old, AllAre, fields
    <3>. QED
      BY <1>0, <2>1, <3>1, <3>2, <3>3 DEF Fresh
  <2>3. ASSUME NEW f \in Jobs, Failed(w) = {f} PROVE Since(w, f)'
    <3>1. Since(w, f)
      BY <1>0, <2>3 DEF FirstInv
    <3>2. \A k \in Taken(w) \ {f} : proc'[k] = "none"
      BY <1>0, <2>1, <3>1 DEF Since
    <3>3. CASE waits = w
      <4>1. /\ proc'[w] = "reaped" /\ proc'[f] = proc[f]
            /\ Down(w)' /\ (Down(f)' <=> Down(f))
        BY <1>0, <2>1, <3>3 DEF Down
      <4>2. CASE UNCHANGED fields
        <5>1. (\A p : AllAre(w, p)' <=> AllAre(w, p)) /\ (Old(w) => Old(w)')
          BY <1>0, <4>1, <4>2 DEF Old, AllAre, fields
        <5>. QED
          BY <1>0, <2>1, <3>1, <3>2, <4>1, <4>2, <5>1 DEF Since, fields, loopVars
      <4>3. CASE proc[w] = "dead" /\ AllAre(w, Nil)'
        <5>1. Old(w)'
          BY <1>0, <4>1, <4>3 DEF Old
        <5>2. loop[f] \in {"check", "kill", "wait", "reap"}
          BY <3>1, <4>3 DEF Since
        <5>. QED
          BY <1>0, <2>1, <3>1, <3>2, <4>1, <5>1, <5>2 DEF Since, loopVars, Began
      <4>. QED
        BY <2>1, <3>3, <4>2, <4>3
    <3>4. CASE waits = f /\ loop[f] \in {"after", "done"}
      <4>1. /\ proc'[w] = proc[w] /\ proc'[f] = "reaped" /\ Down(f)'
        BY <1>0, <2>1, <3>4 DEF Down
      <4>2. \/ \E p \in {w, f, Nil} : AllAre(w, p)'
            \/ cmd'[w] = Nil /\ read'[w] = f /\ write'[w] = f /\ Down(f)'
        BY <1>0, <2>1, <3>1, <3>4, <4>1 DEF Since, AllAre, fields
      <4>. QED
        BY <1>0, <2>1, <3>1, <3>2, <3>4, <4>1, <4>2 DEF Since, loopVars, Began
    <3>. QED
      BY <1>0, <2>1, <3>1, <3>3, <3>4 DEF Since
  <2>. QED
    BY <2>2, <2>3
<1>. QED
  BY <1>1, <1>2

\* Every step keeps the first failure of every worker contained.
LEMMA FirstStep ==
  ASSUME TypeOK, WellFormed, IsolationPoints, FailedInv, FirstInv, [Next]_vars
  PROVE  FirstInv'
<1>0. /\ proc \in [Procs -> {"none", "starting", "up", "dead", "reaped"}]
      /\ owner \in [Jobs -> Workers \cup {Nil}] /\ DOMAIN loop = Jobs /\ DOMAIN reply = Jobs
      /\ Jobs \subseteq Procs /\ Workers \subseteq Procs /\ Nil \notin Procs
      /\ Workers \cap Jobs = {} /\ "none" \notin Failures
      /\ {"new", "queued", "select", "done"} \cap Restarts = {}
  BY PoolAssumption DEF TypeOK, ProcType, LoopType, Procs, Failures, Restarts, Began
<1>1. CASE ~\E j \in Jobs : Loop(j) /\ ~Panic
  <2>1. \A p \in Procs : /\ proc[p] = "none" <=> proc'[p] = "none"
                         /\ Down(p) => Down(p)'
                         /\ proc[p] = "reaped" => proc'[p] = "reaped"
    BY <1>1, OtherProc
  <2>2. /\ UNCHANGED <<reply, target>>
        /\ \/ UNCHANGED <<loop, owner>>
           \/ \E j \in Jobs : /\ loop[j] = "new" /\ loop' = [loop EXCEPT ![j] = "queued"]
                              /\ UNCHANGED owner
           \/ \E w \in Workers, j \in Jobs :
                /\ loop[j] = "queued" /\ loop' = [loop EXCEPT ![j] = "select"]
                /\ owner' = [owner EXCEPT ![j] = w]
    BY <1>1, OtherReply
  <2>3. \A k \in Jobs : loop'[k] \in {"new", "queued"} => proc'[k] = "none"
    <3>1. \A k \in Jobs : loop'[k] \in {"new", "queued"} => loop[k] \in {"new", "queued"}
      BY <1>0, <2>2
    <3>. QED
      BY <1>0, <2>1, <3>1 DEF FirstInv
  <2>4. ASSUME NEW w \in Workers
        PROVE  /\ Failed(w)' = Failed(w)
               /\ \A k \in Failed(w) : loop'[k] = loop[k] /\ target'[k] = target[k]
               /\ \A k \in Taken(w)' : proc'[k] = "none" \/ (k \in Taken(w) /\ proc[k] # "none")
               /\ \A p \in {w} \cup Taken(w) : /\ proc[p] = "none" <=> proc'[p] = "none"
                                               /\ Down(p) => Down(p)'
                                               /\ proc[p] = "reaped" => proc'[p] = "reaped"
    <3>1. \A k \in Jobs : reply[k] \in Failures =>
            loop'[k] = loop[k] /\ owner'[k] = owner[k]
      BY <1>0, <2>2 DEF FailedInv
    <3>2. /\ Failed(w)' = Failed(w)
          /\ \A k \in Failed(w) : loop'[k] = loop[k] /\ target'[k] = target[k]
      <4>1. \A k \in Jobs : reply[k] \in Failures => owner'[k] = owner[k]
        BY <3>1
      <4>2. reply' = reply /\ target' = target
        BY <2>2
      <4>. QED
        BY <3>1, <4>1, <4>2 DEF Failed
    <3>3. \A k \in Taken(w)' : proc'[k] = "none" \/ (k \in Taken(w) /\ proc[k] # "none")
      <4>. SUFFICES ASSUME NEW k \in Jobs, owner'[k] = w, proc'[k] # "none"
                    PROVE  owner[k] = w /\ proc[k] # "none"
        BY DEF Taken
      <4>1. proc[k] # "none"
        BY <1>0, <2>1
      <4>2. loop[k] \notin {"new", "queued"}
        BY <4>1 DEF FirstInv
      <4>3. owner'[k] = owner[k]
        BY <1>0, <2>2, <4>2
      <4>. QED
        BY <4>1, <4>3
    <3>4. {w} \cup Taken(w) \subseteq Procs
      BY <1>0 DEF Taken
    <3>. QED
      BY <2>1, <3>2, <3>3, <3>4
  <2>5. CASE ~(StopWait /\ ~Panic) /\ ~StopReap
    <3>1. UNCHANGED fields /\ (stop' = "reap" => UNCHANGED <<stop, stopAt, waits>>)
      BY <1>1, <2>5, OtherFields
    <3>2. ASSUME NEW w \in Workers
          PROVE  /\ Failed(w)' = {} => Fresh(w)'
                 /\ \A f \in Jobs : Failed(w)' = {f} => Since(w, f)'
      BY <2>4, <3>1, FirstSame DEF fields, FirstInv
    <3>. QED
      BY <2>3, <3>2 DEF FirstInv
  <2>6. CASE (StopWait /\ ~Panic) \/ StopReap
    <3>0. stopAt \in Workers /\ UNCHANGED <<stopAt, owner>>
      BY <2>6 DEF StopWait, StopReap, loopVars, TypeOK, StopType, WellFormed, StopWell, Stopping
    <3>1. ASSUME NEW w \in Workers, w # stopAt
          PROVE  /\ Failed(w)' = {} => Fresh(w)'
                 /\ \A f \in Jobs : Failed(w)' = {f} => Since(w, f)'
      <4>1. cmd'[w] = cmd[w] /\ read'[w] = read[w] /\ write'[w] = write[w]
        BY <2>6, <3>1 DEF StopWait, StopReap, fields, TypeOK, FieldType
      <4>. QED
        BY <2>4, <3>0, <3>1, <4>1, FirstSame DEF FirstInv
    <3>2. /\ Failed(stopAt)' = {} => Fresh(stopAt)'
          /\ \A f \in Jobs : Failed(stopAt)' = {f} => Since(stopAt, f)'
      BY <1>1, <2>4, <2>6, <3>0, StopFirst DEF FirstInv
    <3>. QED
      BY <2>3, <3>0, <3>1, <3>2 DEF FirstInv
  <2>. QED
    BY <2>5, <2>6
<1>2. CASE \E j \in Jobs : Loop(j) /\ ~Panic
  <2>1. PICK j \in Jobs : Loop(j) /\ ~Panic
    BY <1>2
  <2>2. /\ UNCHANGED <<owner, closed>> /\ owner[j] \in Workers
        /\ \A w \in Workers \ {owner[j]} :
             cmd'[w] = cmd[w] /\ read'[w] = read[w] /\ write'[w] = write[w]
        /\ \A k \in Jobs \ {j} :
             loop'[k] = loop[k] /\ target'[k] = target[k] /\ reply'[k] = reply[k]
        /\ \A q \in Procs : ~Owns(owner[j], q) => proc'[q] = proc[q]
    BY <2>1, LoopLocal
  <2>3. UNCHANGED <<stop, stopAt, waits>> /\ loop[j] \notin {"new", "queued"}
    BY <2>1, LoopFrame DEF TypeOK
  <2>4. \A k \in Jobs : loop'[k] \in {"new", "queued"} => proc'[k] = "none"
    <3>. SUFFICES ASSUME NEW k \in Jobs, loop'[k] \in {"new", "queued"} PROVE proc'[k] = "none"
      OBVIOUS
    <3>1. k # j
      BY <1>0, <2>1, LoopReply DEF Restarts, Began
    <3>2. loop[k] \in {"new", "queued"}
      BY <2>2, <3>1
    <3>3. proc[k] = "none" /\ owner[k] = Nil
      BY <3>2 DEF FirstInv, WellFormed, JobWell
    <3>4. ~Owns(owner[j], k)
      BY <1>0, <2>2, <3>3 DEF Owns
    <3>. QED
      BY <1>0, <2>2, <3>3, <3>4
  <2>5. ASSUME NEW w \in Workers
        PROVE  /\ Failed(w)' = {} => Fresh(w)'
               /\ \A f \in Jobs : Failed(w)' = {f} => Since(w, f)'
    <3>0. /\ Failed(w) = {} => Fresh(w)
          /\ \A f \in Jobs : Failed(w) = {f} => Since(w, f)
      BY DEF FirstInv
    <3>a. Taken(w)' = Taken(w)
      BY <2>2 DEF Taken
    <3>1. CASE w # owner[j]
      <4>1. Failed(w)' = Failed(w) /\ \A k \in Failed(w) : k # j
        BY <2>2, <3>1 DEF Failed
      <4>2. \A k \in Failed(w) : loop'[k] = loop[k] /\ target'[k] = target[k]
        BY <2>2, <4>1 DEF Failed
      <4>3. /\ ~Owns(owner[j], w) /\ \A k \in Taken(w) : ~Owns(owner[j], k)
        BY <1>0, <2>2, <3>1 DEF Owns, Taken
      <4>4. proc'[w] = proc[w] /\ \A k \in Taken(w) : proc'[k] = proc[k]
        BY <1>0, <2>2, <4>3 DEF Taken
      <4>5. cmd'[w] = cmd[w] /\ read'[w] = read[w] /\ write'[w] = write[w]
        BY <2>2, <3>1
      <4>6. /\ \A k \in Taken(w)' : proc'[k] = "none" \/ (k \in Taken(w) /\ proc[k] # "none")
            /\ \A p \in {w} \cup Taken(w) : /\ proc[p] = "none" <=> proc'[p] = "none"
                                            /\ Down(p) => Down(p)'
                                            /\ proc[p] = "reaped" => proc'[p] = "reaped"
        BY <3>a, <4>4 DEF Down
      <4>. QED
        BY <2>3, <3>0, <4>1, <4>2, <4>5, <4>6, FirstSame
    <3>2. CASE w = owner[j] /\ loop[j] = "select" /\ loop' = [loop EXCEPT ![j] = "check"]
               /\ (\E r \in Failures : reply' = [reply EXCEPT ![j] = r])
               /\ UNCHANGED <<target, fields, proc>>
      <4>1. reply[j] = "none" /\ j \notin Failed(w)
        BY <1>0, <3>2 DEF FailedInv, Failed
      <4>2. Failed(w)' = Failed(w) \cup {j}
        BY <1>0, <2>2, <3>2 DEF Failed
      <4>3. ASSUME NEW f \in Jobs, Failed(w)' = {f} PROVE Since(w, f)'
        <5>1. f = j /\ Failed(w) = {}
          BY <4>1, <4>2, <4>3
        <5>2. Fresh(w) /\ j \in Taken(w)
          BY <3>0, <3>2, <5>1 DEF Taken
        <5>3. loop'[j] = "check"
          BY <1>0, <3>2
        <5>4. Old(w)'
          BY <3>2, <5>2 DEF Fresh, Old, AllAre, fields
        <5>. QED
          BY <2>3, <3>2, <3>a, <5>1, <5>2, <5>3, <5>4 DEF Since, Fresh, Began
      <4>. QED
        BY <4>2, <4>3
    <3>3. CASE w = owner[j] /\ loop[j] = "select" /\ loop' = [loop EXCEPT ![j] = "done"]
               /\ got[j] # "err" /\ reply' = [reply EXCEPT ![j] = got[j]]
               /\ UNCHANGED <<target, fields, proc>>
      <4>1. reply[j] = "none" /\ j \notin Failed(w)
        BY <1>0, <3>3 DEF FailedInv, Failed
      <4>2. Failed(w)' = Failed(w)
        BY <1>0, <2>2, <3>3, <4>1 DEF Failed, Failures, FailedInv
      <4>3. \A k \in Failed(w) : loop'[k] = loop[k] /\ target'[k] = target[k]
        BY <2>2, <4>1 DEF Failed
      <4>. QED
        BY <2>3, <3>0, <3>3, <3>a, <4>2, <4>3, FirstSame DEF fields, Down, Taken
    <3>4. CASE w = owner[j] /\ loop[j] \in Restarts /\ UNCHANGED reply
      <4>1. j \in Failed(w) /\ Failed(w)' = Failed(w)
        BY <2>2, <3>4 DEF FailedInv, Failed
      <4>2. ASSUME NEW f \in Jobs, Failed(w)' = {f} PROVE Since(w, f)'
        <5>1. f = j /\ Since(w, j)
          BY <3>0, <4>1, <4>2
        <5>2. Since(owner[j], j)'
          BY <2>1, <3>4, <5>1, RestartFirst
        <5>. QED
          BY <2>2, <3>4, <5>1, <5>2
      <4>. QED
        BY <4>1, <4>2
    <3>. QED
      BY <2>1, <3>1, <3>2, <3>3, <3>4, LoopReply
  <2>. QED
    BY <2>2, <2>3, <2>4, <2>5 DEF FirstInv
<1>. QED
  BY <1>1, <1>2

\* A pool that has just been started has fresh workers.
LEMMA FirstInit == Init => FirstInv
<1>. SUFFICES ASSUME Init PROVE FirstInv
  OBVIOUS
<1>1. stop = "none" /\ stopAt = Nil /\ \A j \in Jobs : proc[j] = "none"
  BY PoolAssumption DEF Init, Procs
<1>2. \A w \in Workers : Taken(w) = {} /\ Failed(w) = {} /\ Fresh(w)
  BY PoolAssumption DEF Init, Taken, Failed, Fresh, Old, AllAre
<1>. QED
  BY <1>1, <1>2 DEF FirstInv

\* A set with one element at most is finite and no larger.
LEMMA AtMostOne ==
  ASSUME NEW S, NEW x, S \subseteq {x}
  PROVE  Cardinality(S) <= 1
<1>1. IsFiniteSet({x}) /\ Cardinality({x}) = 1
  BY FS_Singleton
<1>. QED
  BY <1>1, FS_Subset

\* The first failure of a worker leaves it with one live process at most, and with
\* fields that agree once its restart is over: for any number of workers and jobs,
\* and with the send goroutines of jobs that have timed out still running.
THEOREM FirstAlwaysContained == Spec => []FirstFailureContained
<1>. DEFINE Inv == IInv /\ LoopsInv /\ FailedInv /\ FirstInv
<1>1. Init => Inv
  BY InitIInv, LoopsInit, StopInit, FirstInit
<1>2. Inv /\ [Next]_vars => Inv'
  BY NextIInv, LoopsStep, FailedStep, FirstStep DEF IInv
<1>3. Inv => FirstFailureContained
  <2>. SUFFICES ASSUME Inv, NEW w \in Workers, Cardinality(Failed(w)) <= 1
                PROVE  /\ Cardinality({p \in ProcsOf(w) : Alive(p)}) <= 1
                       /\ Restarting(w) = {} /\ cmd[w] # Nil =>
                            cmd[w] = read[w] /\ read[w] = write[w]
    BY DEF FirstFailureContained
  <2>1. IsFiniteSet(Failed(w))
    BY FiniteJobs DEF LoopsInv, Counted
  <2>2. CASE Failed(w) = {}
    <3>1. Fresh(w)
      BY <2>2 DEF FirstInv
    <3>2. {p \in ProcsOf(w) : Alive(p)} \subseteq {w}
      BY <3>1 DEF Fresh, ProcsOf, Taken, Alive
    <3>. QED
      BY <3>1, <3>2, AtMostOne DEF Fresh, Old, AllAre
  <2>3. CASE \E f : Failed(w) = {f}
    <3>1. PICK f : Failed(w) = {f}
      BY <2>3
    <3>2. f \in Jobs /\ owner[f] = w /\ reply[f] \in Failures
      BY <3>1 DEF Failed
    <3>3. Since(w, f)
      BY <3>1, <3>2 DEF FirstInv
    <3>4. loop[f] \notin {"new", "queued", "select"}
      BY <3>2 DEF FailedInv, Failures
    <3>5. \/ {p \in ProcsOf(w) : Alive(p)} \subseteq {w}
          \/ {p \in ProcsOf(w) : Alive(p)} \subseteq {f}
      BY <3>2, <3>3 DEF Since, ProcsOf, Taken, Alive, Down
    <3>6. Restarting(w) = {} => loop[f] = "done"
      BY <3>2, <3>4 DEF Restarting, Active
    <3>. QED
      BY <3>3, <3>5, <3>6, AtMostOne DEF Since, AllAre
  <2>4. Failed(w) = {} \/ \E f : Failed(w) = {f}
    <3>1. Cardinality(Failed(w)) = 0 \/ Cardinality(Failed(w)) = 1
      BY <2>1, FS_CardinalityType
    <3>. QED
      BY <2>1, <3>1, FS_EmptySet, FS_Singleton
  <2>. QED
    BY <2>2, <2>3, <2>4
<1>. QED
  BY <1>1, <1>2, <1>3, PTL DEF Spec
-----------------------------------------------------------------------------
(* What it takes to panic.                                                 *)

\* While the restart of its one failed job is not over, a worker has no other job.
LEMMA SelectAlone ==
  ASSUME TypeOK, FirstInv, LoopsInv, NEW w \in Workers, NEW f \in Jobs, Failed(w) = {f},
         loop[f] \notin {"after", "done"}, NEW k \in Taken(w)
  PROVE  loop[k] # "select" \/ k = f
<1>. SUFFICES ASSUME loop[k] = "select", k # f PROVE FALSE
  OBVIOUS
<1>1. Since(w, f) /\ f \in Taken(w)
  BY DEF FirstInv, Failed, Taken
<1>2. Gained(w) = {}
  BY <1>1 DEF Since, Gained
<1>3. {f, k} \in SUBSET Active(w)
  BY <1>1 DEF Active, Taken
<1>4. /\ IsFiniteSet(Active(w)) /\ Cardinality(Active(w)) \in Nat
      /\ Cardinality({f, k}) <= Cardinality(Active(w))
  BY <1>3, FiniteJobs, FS_Subset DEF LoopsInv, Counted
<1>5. Cardinality({f, k}) = 2
  <2>1. IsFiniteSet({f}) /\ Cardinality({f}) = 1
    BY FS_Singleton
  <2>2. {f, k} = {f} \cup {k}
    OBVIOUS
  <2>. QED
    BY <2>1, <2>2, FS_AddElement
<1>6. idle[w] \in Nat /\ idle[w] + Cardinality(Active(w)) <= 1 + Cardinality(Gained(w))
  BY DEF LoopsInv, Counted, TypeOK, QueueType
<1>. QED
  BY <1>2, <1>4, <1>5, <1>6, FS_EmptySet

\* Stop closes the queue before anything else.
ClosedInv == stop # "none" => closed

\* The send goroutine of a job that has a result other than a timeout is gone.
SentInv ==
  \A j \in Jobs :
    loop[j] \notin {"new", "queued", "select"} /\ reply[j] # "timeout" => send[j] = "gone"

\* Before Stop the fields of a worker that has failed at most one job are those of
\* its first process up to the reset, and pipes of some process after the restart,
\* also if that has failed.
Piped(w) ==
  /\ Failed(w) = {} => AllAre(w, w)
  /\ \A f \in Jobs : Failed(w) = {f} =>
       /\ loop[f] \in {"check", "kill", "wait", "reap"} => AllAre(w, w)
       /\ loop[f] \in {"after", "done"} => read[w] # Nil /\ write[w] # Nil

PipedInv == ~closed => \A w \in Workers : Piped(w)

\* Before the queue is closed, Stop has done nothing.
LEMMA NotClosed ==
  ASSUME TypeOK, WellFormed, IsolationPoints, ClosedInv, [Next]_vars
  PROVE  /\ ClosedInv'
         /\ ~closed' => ~closed /\ stop = "none" /\ ~(StopWait /\ ~Panic) /\ ~StopReap
<1>1. CASE Stop /\ ~Panic
  <2>1. CASE StopClose
    BY <2>1 DEF StopClose, ClosedInv
  <2>2. CASE StopNext \/ StopCheck \/ StopWrite \/ StopFlush \/ StopWait \/ StopReap
    <3>1. stop # "none" /\ UNCHANGED closed
      BY <1>1, <2>2 DEF StopNext, StopCheck, StopWrite, StopFlush, StopWait, StopReap, queueVars
    <3>. QED
      BY <3>1 DEF ClosedInv
  <2>. QED
    BY <1>1, <2>1, <2>2 DEF Stop
<1>2. CASE ~(Stop /\ ~Panic)
  <2>1. UNCHANGED <<closed, stop>>
    <3>1. CASE UNCHANGED vars \/ Panic \/ (\E j \in Jobs : Submit(j) /\ ~Panic)
               \/ (\E w \in Workers : LoopExit(w) \/ \E j \in Jobs : Take(w, j))
      BY <3>1 DEF vars, Panic, Submit, LoopExit, Take, queueVars, stopVars
    <3>2. CASE \E j \in Jobs : Loop(j) /\ ~Panic
      BY <3>2, LoopFrame, LoopLocal DEF TypeOK
    <3>3. CASE \E j \in Jobs : Sender(j) /\ ~Panic
      <4>1. UNCHANGED stop
        BY <3>3, SenderFrame DEF TypeOK, stopVars
      <4>2. ASSUME NEW j \in Jobs, Sender(j), ~Panic PROVE UNCHANGED closed
        <5>1. CASE SendLock(j) \/ SendWrite(j) \/ SendFlush(j) \/ SendRead(j) \/ SendBody(j)
          BY <4>2, <5>1 DEF SendLock, SendWrite, SendFlush, SendRead, SendBody, queueVars
        <5>2. CASE SendLength(j) \/ SendCopy(j)
          BY <5>2 DEF SendLength, SendCopy, queueVars
        <5>. QED
          BY <4>2, <5>1, <5>2 DEF Sender
      <4>. QED
        BY <3>3, <4>1, <4>2
    <3>4. CASE \E p \in Procs : Process(p)
      BY <3>4, ProcessFrame DEF queueVars, stopVars
    <3>. QED
      BY <1>2, <3>1, <3>2, <3>3, <3>4, NextCases
  <2>. QED
    BY <2>1 DEF ClosedInv, StopWait, StopReap
<1>. QED
  BY <1>1, <1>2

\* A sender is gone before its job has a result, unless that is a timeout.
LEMMA SentStep ==
  ASSUME TypeOK, WellFormed, IsolationPoints, FailedInv, SentInv, [Next]_vars
  PROVE  SentInv'
<1>0. /\ DOMAIN loop = Jobs /\ DOMAIN reply = Jobs /\ DOMAIN send = Jobs
      /\ {"new", "queued", "select"} \cap Restarts = {}
  BY DEF TypeOK, LoopType, SendType, Restarts, Began
<1>1. CASE \E j \in Jobs : Loop(j) /\ ~Panic
  <2>1. PICK j \in Jobs : Loop(j) /\ ~Panic
    BY <1>1
  <2>2. /\ \A k \in Jobs \ {j} : loop'[k] = loop[k] /\ reply'[k] = reply[k]
        /\ send' = send \/ (send[j] = "result" /\ send' = [send EXCEPT ![j] = "gone"])
    BY <2>1, LoopLocal, LoopFrame DEF TypeOK
  <2>3. send'[j] = "gone" \/ reply'[j] = "timeout" \/ (loop[j] \in Restarts /\ UNCHANGED <<reply, send>>)
    <3>1. CASE Receive(j)
      BY <1>0, <3>1 DEF Receive, SendGoto
    <3>2. CASE Timeout(j)
      BY <1>0, <3>2 DEF Timeout
    <3>3. CASE AfterRestart(j) \/ Restart(j)
      <4>1. loop[j] # "select" /\ UNCHANGED send
        BY <2>1, <3>3 DEF Restart, AfterRestart, RestartCheck, RestartKill, RestartWait,
           RestartReap, RestartReset, StartReader, StartSpawn, StartRead, StartLine,
           StartDrain, StartDone, sendVars
      <4>. QED
        BY <2>1, <4>1, LoopReply
    <3>. QED
      BY <2>1, <3>1, <3>2, <3>3 DEF Loop
  <2>4. ASSUME NEW k \in Jobs, loop'[k] \notin {"new", "queued", "select"}, reply'[k] # "timeout"
        PROVE  send'[k] = "gone"
    <3>1. CASE k = j
      BY <1>0, <2>3, <2>4, <3>1 DEF SentInv
    <3>2. CASE k # j
      BY <1>0, <2>2, <2>4, <3>2 DEF SentInv
    <3>. QED
      BY <3>1, <3>2
  <2>. QED
    BY <2>4 DEF SentInv
<1>2. CASE ~\E j \in Jobs : Loop(j) /\ ~Panic
  <2>1. /\ UNCHANGED reply
        /\ \A k \in Jobs : loop'[k] \notin {"new", "queued", "select"} => loop'[k] = loop[k]
    BY <1>0, <1>2, OtherReply
  <2>2. ASSUME NEW k \in Jobs, send[k] = "gone" PROVE send'[k] = "gone" \/ loop'[k] = "select"
    <3>1. CASE UNCHANGED send
      BY <2>2, <3>1
    <3>2. CASE \E j \in Jobs : Sender(j) /\ ~Panic
      BY <1>0, <2>2, <3>2, SenderFrame DEF TypeOK, Inside
    <3>3. CASE \E w \in Workers, j \in Jobs : Take(w, j)
      BY <1>0, <2>2, <3>3, TakeFrame
    <3>4. CASE UNCHANGED vars \/ Panic \/ (\E j \in Jobs : Submit(j) /\ ~Panic)
               \/ (\E w \in Workers : LoopExit(w))
      BY <3>1, <3>4 DEF vars, Panic, Submit, LoopExit, sendVars
    <3>5. CASE (\E p \in Procs : Process(p)) \/ (Stop /\ ~Panic)
      BY <3>1, <3>5, ProcessFrame, StopFrame DEF TypeOK, sendVars
    <3>. QED
      BY <1>2, <3>2, <3>3, <3>4, <3>5, NextCases
  <2>. QED
    BY <2>1, <2>2 DEF SentInv
<1>. QED
  BY <1>1, <1>2

\* The restart of the first failure leaves a worker with pipes.
LEMMA PipedRestart ==
  ASSUME TypeOK, WellFormed, IsolationPoints, NEW j \in Jobs, Loop(j), ~Panic,
         loop[j] \in Restarts, Since(owner[j], j),
         loop[j] \in {"check", "kill", "wait", "reap"} => AllAre(owner[j], owner[j]),
         loop[j] \in {"after", "done"} => read[owner[j]] # Nil /\ write[owner[j]] # Nil
  PROVE  /\ loop'[j] \in {"check", "kill", "wait", "reap"} => AllAre(owner[j], owner[j])'
         /\ loop'[j] \in {"after", "done"} => read'[owner[j]] # Nil /\ write'[owner[j]] # Nil
<1>. DEFINE w == owner[j]
<1>0. /\ cmd \in [Workers -> Procs \cup {Nil}] /\ read \in [Workers -> Procs \cup {Nil}]
      /\ write \in [Workers -> Procs \cup {Nil}] /\ DOMAIN loop = Jobs
      /\ Nil # j /\ Nil # w /\ w \in Workers /\ owner' = owner
  BY LoopLocal, PoolAssumption DEF TypeOK, LoopType, FieldType
<1>1. CASE Receive(j) \/ Timeout(j)
  BY <1>1 DEF Receive, Timeout, Restarts, Began
<1>2. CASE AfterRestart(j)
  BY <1>0, <1>2 DEF AfterRestart, Answered, Goto, fields
<1>3. CASE RestartCheck(j) \/ RestartKill(j) \/ RestartWait(j) \/ RestartReap(j)
  <2>1. /\ UNCHANGED fields /\ loop[j] \in {"check", "kill", "wait", "reap"}
    BY <1>3 DEF RestartCheck, RestartKill, RestartWait, RestartReap
  <2>. QED
    BY <1>0, <2>1 DEF AllAre, fields
<1>4. CASE RestartReset(j) \/ StartReader(j)
  <2>1. loop'[j] \in {"start", "spawn"}
    BY <1>0, <1>4 DEF RestartReset, StartReader, Goto, Since, AllAre
  <2>. QED
    BY <2>1
<1>5. CASE StartSpawn(j)
  <2>1. /\ loop'[j] \in {"read", "after"} /\ read' = read /\ write'[w] = j /\ read[w] = j
    BY <1>0, <1>5 DEF StartSpawn, Goto, Since
  <2>. QED
    BY <1>0, <2>1
<1>6. CASE StartRead(j) \/ StartLine(j) \/ StartDrain(j) \/ StartDone(j)
  <2>1. /\ UNCHANGED <<read, write>> /\ loop[j] \in Began
    BY <1>6 DEF StartRead, StartLine, StartDrain, StartDone, Began, fields
  <2>2. read[w] = j /\ write[w] = j
    BY <2>1 DEF Since
  <2>3. loop'[j] \notin {"check", "kill", "wait", "reap"}
    BY <1>0, <1>6 DEF StartRead, StartLine, StartDrain, StartDone, Goto
  <2>. QED
    BY <1>0, <2>1, <2>2, <2>3
<1>. QED
  BY <1>1, <1>2, <1>3, <1>4, <1>5, <1>6 DEF Loop, Restart

\* Nobody else makes a job fail, or moves one that has failed.
LEMMA OtherFailed ==
  ASSUME TypeOK, WellFormed, FailedInv, [Next]_vars, ~\E j \in Jobs : Loop(j) /\ ~Panic,
         NEW w \in Workers
  PROVE  Failed(w)' = Failed(w) /\ \A k \in Failed(w) : loop'[k] = loop[k]
<1>0. /\ owner \in [Jobs -> Workers \cup {Nil}] /\ DOMAIN loop = Jobs
      /\ "none" \notin Failures
  BY DEF TypeOK, LoopType, Failures
<1>1. /\ reply' = reply
      /\ \/ UNCHANGED <<loop, owner>>
         \/ \E j \in Jobs : /\ loop[j] = "new" /\ loop' = [loop EXCEPT ![j] = "queued"]
                            /\ UNCHANGED owner
         \/ \E v \in Workers, j \in Jobs :
              /\ loop[j] = "queued" /\ loop' = [loop EXCEPT ![j] = "select"]
              /\ owner' = [owner EXCEPT ![j] = v]
  BY OtherReply
<1>2. \A k \in Jobs : reply[k] \in Failures => loop'[k] = loop[k] /\ owner'[k] = owner[k]
  BY <1>0, <1>1 DEF FailedInv
<1>. QED
  BY <1>1, <1>2 DEF Failed

\* Until the queue is closed every step keeps the pipes of the workers with one
\* failure at most.
LEMMA PipedStep ==
  ASSUME TypeOK, WellFormed, IsolationPoints, FailedInv, FirstInv, ClosedInv, PipedInv,
         [Next]_vars
  PROVE  PipedInv'
<1>. SUFFICES ASSUME ~closed', NEW w \in Workers PROVE Piped(w)'
  BY DEF PipedInv
<1>0. /\ DOMAIN loop = Jobs /\ DOMAIN reply = Jobs
      /\ "none" \notin Failures /\ "select" \notin Restarts
  BY DEF TypeOK, LoopType, Failures, Restarts, Began
<1>1. Piped(w) /\ ~(StopWait /\ ~Panic) /\ ~StopReap
  BY NotClosed DEF PipedInv
<1>2. ASSUME Failed(w)' = Failed(w), \A k \in Failed(w) : loop'[k] = loop[k],
             cmd'[w] = cmd[w], read'[w] = read[w], write'[w] = write[w]
      PROVE  Piped(w)'
  <2>1. AllAre(w, w)' <=> AllAre(w, w)
    BY <1>2 DEF AllAre
  <2>. QED
    BY <1>1, <1>2, <2>1 DEF Piped
<1>3. CASE ~\E j \in Jobs : Loop(j) /\ ~Panic
  BY <1>1, <1>2, <1>3, OtherFailed, OtherFields DEF fields
<1>4. CASE \E j \in Jobs : Loop(j) /\ ~Panic
  <2>1. PICK j \in Jobs : Loop(j) /\ ~Panic
    BY <1>4
  <2>2. /\ UNCHANGED owner
        /\ w # owner[j] => cmd'[w] = cmd[w] /\ read'[w] = read[w] /\ write'[w] = write[w]
        /\ \A k \in Jobs \ {j} : loop'[k] = loop[k] /\ reply'[k] = reply[k]
    BY <2>1, LoopLocal
  <2>3. CASE w # owner[j]
    <3>1. Failed(w)' = Failed(w) /\ j \notin Failed(w)
      BY <2>2, <2>3 DEF Failed
    <3>2. \A k \in Failed(w) : loop'[k] = loop[k]
      BY <2>2, <3>1 DEF Failed
    <3>. QED
      BY <1>2, <2>2, <2>3, <3>1, <3>2
  <2>4. CASE w = owner[j] /\ loop[j] = "select" /\ loop' = [loop EXCEPT ![j] = "check"]
             /\ (\E r \in Failures : reply' = [reply EXCEPT ![j] = r]) /\ UNCHANGED fields
    <3>1. j \notin Failed(w) /\ Failed(w)' = Failed(w) \cup {j}
      BY <1>0, <2>2, <2>4 DEF FailedInv, Failed
    <3>2. loop'[j] = "check" /\ (AllAre(w, w)' <=> AllAre(w, w))
      BY <1>0, <2>4 DEF AllAre, fields
    <3>3. ASSUME NEW f \in Jobs, Failed(w)' = {f} PROVE f = j /\ AllAre(w, w)'
      BY <1>1, <3>1, <3>2, <3>3 DEF Piped
    <3>. QED
      BY <3>1, <3>2, <3>3 DEF Piped
  <2>5. CASE w = owner[j] /\ loop[j] = "select" /\ got[j] # "err"
             /\ reply' = [reply EXCEPT ![j] = got[j]] /\ UNCHANGED fields
    <3>1. j \notin Failed(w)
      BY <1>0, <2>5 DEF FailedInv, Failed
    <3>2. Failed(w)' = Failed(w)
      BY <1>0, <2>2, <2>5, <3>1 DEF Failed, Failures, FailedInv
    <3>3. \A k \in Failed(w) : loop'[k] = loop[k]
      BY <2>2, <3>1 DEF Failed
    <3>. QED
      BY <1>2, <2>5, <3>2, <3>3 DEF fields
  <2>6. CASE w = owner[j] /\ loop[j] \in Restarts /\ UNCHANGED reply
    <3>1. j \in Failed(w) /\ Failed(w)' = Failed(w)
      BY <2>2, <2>6 DEF FailedInv, Failed
    <3>2. ASSUME NEW f \in Jobs, Failed(w)' = {f}
          PROVE  /\ loop'[f] \in {"check", "kill", "wait", "reap"} => AllAre(w, w)'
                 /\ loop'[f] \in {"after", "done"} => read'[w] # Nil /\ write'[w] # Nil
      <4>1. f = j /\ Since(w, j)
        BY <3>1, <3>2 DEF FirstInv
      <4>2. /\ loop[j] \in {"check", "kill", "wait", "reap"} => AllAre(w, w)
            /\ loop[j] \in {"after", "done"} => read[w] # Nil /\ write[w] # Nil
        BY <1>1, <3>1, <3>2, <4>1 DEF Piped
      <4>3. /\ loop'[j] \in {"check", "kill", "wait", "reap"} => AllAre(owner[j], owner[j])'
            /\ loop'[j] \in {"after", "done"} => read'[owner[j]] # Nil /\ write'[owner[j]] # Nil
        BY <2>1, <2>6, <4>1, <4>2, PipedRestart
      <4>. QED
        BY <2>2, <2>6, <4>1, <4>3
    <3>. QED
      BY <3>1, <3>2 DEF Piped
  <2>. QED
    BY <2>1, <2>3, <2>4, <2>5, <2>6, LoopReply
<1>. QED
  BY <1>3, <1>4

\* Where a goroutine may panic, but for Stop and after it.
LoopPanics(j) ==
  \/ loop[j] = "after" /\ reply[j] = "timeout"
  \/ loop[j] \in {"kill", "wait"} /\ cmd[owner[j]] = Nil
  \/ loop[j] \in {"read", "other"} /\ read[owner[j]] = Nil

SendPanics(j) ==
  \/ send[j] = "flush" /\ write[owner[j]] = Nil
  \/ send[j] = "body" /\ read[owner[j]] = Nil

\* Every panic of the model is one of these.
LEMMA PanicPlaces ==
  ASSUME Next, crashed'
  PROVE  /\ Panic
         /\ closed \/ stop \in {"write", "flush", "wait"} \/ \E j \in Jobs : LoopPanics(j) \/ SendPanics(j)
<1>0. ~crashed
  BY DEF Next
<1>1. ASSUME NEW j \in Jobs, Submit(j) PROVE Panic /\ closed
  BY <1>0, <1>1 DEF Submit
<1>2. ASSUME NEW j \in Jobs, Loop(j) PROVE Panic /\ LoopPanics(j)
  <2>1. ~Receive(j) /\ ~Timeout(j) /\ ~RestartCheck(j) /\ ~RestartReap(j) /\ ~RestartReset(j)
    BY <1>0 DEF Receive, Timeout, RestartCheck, RestartReap, RestartReset
  <2>2. ~StartReader(j) /\ ~StartSpawn(j) /\ ~StartLine(j) /\ ~StartDrain(j) /\ ~StartDone(j)
    BY <1>0 DEF StartReader, StartSpawn, StartLine, StartDrain, StartDone
  <2>3. CASE AfterRestart(j)
    BY <1>0, <2>3 DEF AfterRestart, LoopPanics
  <2>4. CASE RestartKill(j)
    BY <1>0, <2>4 DEF RestartKill, LoopPanics
  <2>5. CASE RestartWait(j)
    BY <1>0, <2>5 DEF RestartWait, LoopPanics
  <2>6. CASE StartRead(j)
    BY <1>0, <2>6 DEF StartRead, LoopPanics
  <2>. QED
    BY <1>2, <2>1, <2>2, <2>3, <2>4, <2>5, <2>6 DEF Loop, Restart
<1>3. ASSUME NEW j \in Jobs, Sender(j) PROVE Panic /\ SendPanics(j)
  <2>1. ~SendLock(j) /\ ~SendWrite(j) /\ ~SendRead(j) /\ ~SendLength(j) /\ ~SendCopy(j)
    BY <1>0 DEF SendLock, SendWrite, SendRead, SendLength, SendCopy
  <2>2. CASE SendFlush(j)
    BY <1>0, <2>2 DEF SendFlush, SendPanics
  <2>3. CASE SendBody(j)
    BY <1>0, <2>3 DEF SendBody, SendPanics
  <2>. QED
    BY <1>3, <2>1, <2>2, <2>3 DEF Sender
<1>4. ASSUME Stop PROVE Panic /\ stop \in {"write", "flush", "wait"}
  <2>1. ~StopClose /\ ~StopNext /\ ~StopCheck /\ ~StopReap
    BY <1>0 DEF StopClose, StopNext, StopCheck, StopReap
  <2>2. CASE StopWrite \/ StopFlush
    BY <1>0, <2>2 DEF StopWrite, StopFlush
  <2>3. CASE StopWait
    BY <1>0, <2>3 DEF StopWait
  <2>. QED
    BY <1>4, <2>1, <2>2, <2>3 DEF Stop
<1>5. ASSUME NEW p \in Procs PROVE ~Process(p)
  BY <1>0 DEF Process, ProcStray, ProcReady, ProcHandle, ProcFrames, ProcDie
<1>6. ASSUME NEW w \in Workers PROVE ~LoopExit(w) /\ \A j \in Jobs : ~Take(w, j)
  BY <1>0 DEF LoopExit, Take
<1>. QED
  BY <1>1, <1>2, <1>3, <1>4, <1>5, <1>6 DEF Next

\* No goroutine panics for a worker with one failure at most and no timeout.
LEMMA Unharmed ==
  ASSUME TypeOK, WellFormed, LoopsInv, FailedInv, FirstInv, SentInv, PipedInv, ~closed,
         NEW w \in Workers, Cardinality(Failed(w)) <= 1,
         \A j \in Failed(w) : reply[j] # "timeout",
         NEW j \in Jobs, owner[j] = w
  PROVE  ~LoopPanics(j) /\ ~SendPanics(j)
<1>0. Nil \notin Workers /\ Nil \notin Jobs /\ Piped(w) /\ j \in Taken(w)
  BY PoolAssumption DEF PipedInv, Taken
<1>1. reply[j] # "timeout"
  BY DEF Failed, Failures
<1>2. Failed(w) = {} \/ \E f : Failed(w) = {f}
  <2>1. IsFiniteSet(Failed(w)) /\ Cardinality(Failed(w)) \in Nat
    BY FiniteJobs, FS_CardinalityType DEF LoopsInv, Counted
  <2>2. Cardinality(Failed(w)) = 0 \/ Cardinality(Failed(w)) = 1
    BY <2>1
  <2>. QED
    BY <2>1, <2>2, FS_EmptySet, FS_Singleton
<1>3. CASE Failed(w) = {}
  <2>1. AllAre(w, w)
    BY <1>0, <1>3 DEF Piped
  <2>. QED
    BY <1>0, <1>1, <2>1 DEF AllAre, LoopPanics, SendPanics
<1>4. CASE \E f : Failed(w) = {f}
  <2>1. PICK f : Failed(w) = {f}
    BY <1>4
  <2>2. /\ f \in Jobs /\ reply[f] \in Failures /\ Since(w, f)
        /\ loop[f] \in {"check", "kill", "wait", "reap"} => AllAre(w, w)
        /\ loop[f] \in {"after", "done"} => read[w] # Nil /\ write[w] # Nil
    BY <1>0, <2>1 DEF Failed, FirstInv, Piped
  <2>3. ~LoopPanics(j)
    <3>1. CASE loop[j] \in Restarts
      <4>1. j = f
        BY <2>1, <3>1 DEF FailedInv, Failed
      <4>2. loop[f] \in {"read", "other"} => read[w] = f
        BY <2>2 DEF Since, Began
      <4>. QED
        BY <1>0, <1>1, <2>2, <4>1, <4>2 DEF LoopPanics, AllAre
    <3>2. CASE loop[j] \notin Restarts
      BY <3>2 DEF LoopPanics, Restarts, Began
    <3>. QED
      BY <3>1, <3>2
  <2>4. ~SendPanics(j)
    <3>1. CASE loop[f] \in {"after", "done"}
      BY <2>2, <3>1 DEF SendPanics
    <3>2. CASE loop[f] \notin {"after", "done"}
      <4>1. loop[j] # "select"
        <5>1. loop[f] # "select"
          BY <2>2 DEF FailedInv, Failures
        <5>. QED
          BY <1>0, <2>1, <2>2, <3>2, <5>1, SelectAlone
      <4>2. loop[j] \notin {"new", "queued"}
        BY <1>0 DEF WellFormed, JobWell
      <4>3. send[j] = "gone"
        BY <1>1, <4>1, <4>2 DEF SentInv
      <4>. QED
        BY <4>3 DEF SendPanics
    <3>. QED
      BY <3>1, <3>2
  <2>. QED
    BY <2>3, <2>4
<1>. QED
  BY <1>2, <1>3, <1>4

\* Before Stop it takes a timeout, or two failures of one worker, to end the
\* program: for any number of workers and jobs, whatever processes die or do not
\* start, and whatever PHP programs print.
THEOREM PanicsAreCaused == Spec => []PanicCauses
<1>. DEFINE Inv == /\ IInv /\ LoopsInv /\ FailedInv /\ FirstInv /\ ClosedInv /\ SentInv
                   /\ PipedInv /\ PanicCauses
<1>1. Init => Inv
  <2>. SUFFICES ASSUME Init PROVE Inv
    OBVIOUS
  <2>1. IInv /\ LoopsInv /\ FailedInv /\ FirstInv
    BY InitIInv, LoopsInit, StopInit, FirstInit
  <2>2. ClosedInv /\ SentInv /\ PanicCauses
    BY DEF Init, ClosedInv, SentInv, PanicCauses
  <2>3. ASSUME NEW w \in Workers PROVE Failed(w) = {} /\ AllAre(w, w)
    BY PoolAssumption DEF Init, Failed, AllAre
  <2>4. PipedInv
    BY <2>3 DEF PipedInv, Piped
  <2>. QED
    BY <2>1, <2>2, <2>4
<1>2. Inv /\ [Next]_vars => Inv'
  <2>. SUFFICES ASSUME Inv, [Next]_vars PROVE Inv'
    OBVIOUS
  <2>0. TypeOK /\ WellFormed /\ IsolationPoints
    BY DEF IInv
  <2>1. IInv' /\ LoopsInv' /\ FailedInv' /\ FirstInv'
    BY <2>0, NextIInv, LoopsStep, FailedStep, FirstStep
  <2>2. ClosedInv' /\ SentInv' /\ PipedInv'
    BY <2>0, NotClosed, SentStep, PipedStep
  <2>3. CASE UNCHANGED vars
    <3>1. UNCHANGED <<crashed, closed, owner, reply>>
      BY <2>3 DEF vars, queueVars, loopVars
    <3>2. \A w : Failed(w)' = Failed(w)
      BY <3>1 DEF Failed
    <3>. QED
      BY <2>1, <2>2, <3>1, <3>2 DEF PanicCauses
  <2>4. CASE Next /\ crashed'
    <3>1. /\ Panic
          /\ closed \/ stop \in {"write", "flush", "wait"} \/ \E j \in Jobs : LoopPanics(j) \/ SendPanics(j)
      BY <2>4, PanicPlaces
    <3>2. UNCHANGED <<closed, owner, reply>>
      BY <3>1 DEF Panic, queueVars, loopVars
    <3>3. \A w : Failed(w)' = Failed(w)
      BY <3>2 DEF Failed
    <3>4. ASSUME ~closed
          PROVE  \E w \in Workers : Cardinality(Failed(w)) > 1
                                    \/ \E j \in Failed(w) : reply[j] = "timeout"
      <4>1. PICK j \in Jobs : LoopPanics(j) \/ SendPanics(j)
        BY <3>1, <3>4 DEF ClosedInv
      <4>2. owner[j] \in Workers
        <5>1. owner[j] # Nil
          BY <2>0, <4>1 DEF LoopPanics, SendPanics, WellFormed, JobWell
        <5>. QED
          BY <2>0, <5>1 DEF TypeOK, LoopType
      <4>3. Cardinality(Failed(owner[j])) \in Nat
        BY <4>2, FiniteJobs, FS_CardinalityType DEF LoopsInv, Counted
      <4>4. \/ ~(Cardinality(Failed(owner[j])) <= 1)
            \/ \E k \in Failed(owner[j]) : reply[k] = "timeout"
        BY <2>0, <3>4, <4>1, <4>2, Unharmed
      <4>. QED
        BY <4>2, <4>3, <4>4
    <3>5. PanicCauses'
      BY <3>2, <3>3, <3>4 DEF PanicCauses
    <3>. QED
      BY <2>1, <2>2, <3>5
  <2>5. CASE Next /\ ~crashed'
    BY <2>1, <2>2, <2>5 DEF PanicCauses
  <2>. QED
    BY <2>3, <2>4, <2>5
<1>3. Inv => PanicCauses
  OBVIOUS
<1>. QED
  BY <1>1, <1>2, <1>3, PTL DEF Spec
=============================================================================
