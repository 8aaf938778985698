-------------------------- MODULE WorkerPoolProofs --------------------------
(***************************************************************************)
(* Safety of WorkerPool for any number of workers and jobs.                *)
(*                                                                         *)
(* The inductive invariant IInv is at the end.  Each of its parts has one  *)
(* theorem that says every step keeps it (TypeStep, WellFormedStep,        *)
(* LocksStep, IsolationStep), with one case per action or, where several   *)
(* actions do the same to the variables of the part, per group of actions: *)
(* the lemmas *Frame say once what a group changes.                        *)
(***************************************************************************)
EXTENDS WorkerPool, SequenceTheorems, TLAPS

\* What the operators on sequences return.
LEMMA SeqFacts ==
  ASSUME NEW S
  PROVE  /\ <<>> \in Seq(S)
         /\ \A s \in Seq(S) : s # <<>> => Head(s) \in S /\ Tail(s) \in Seq(S)
         /\ \A s \in Seq(S), e \in S : Append(s, e) \in Seq(S)
         /\ \A s, t \in Seq(S) : s \o t \in Seq(S)
  BY EmptySeq, HeadTailProperties, AppendProperties, ConcatProperties

\* The ways a pipe changes.
LEMMA PipeFacts ==
  ASSUME NEW P, NEW S, NEW f \in [P -> Seq(S)], NEW p
  PROVE  /\ f[p] # <<>> => [f EXCEPT ![p] = Tail(@)] \in [P -> Seq(S)]
         /\ \A e \in S : [f EXCEPT ![p] = Append(@, e)] \in [P -> Seq(S)]
         /\ [f EXCEPT ![p] = <<>>] \in [P -> Seq(S)]
  BY SeqFacts

\* The end of a process keeps the types of what it changes.
LEMMA DieType ==
  ASSUME ProcType, NEW p, Die(p)
  PROVE  /\ proc' \in [Procs -> {"none", "starting", "up", "dead", "reaped"}]
         /\ stdin' \in [Procs -> Seq(Tokens)]
  BY PipeFacts DEF ProcType, Die

\* A job that a loop or a send goroutine works on has a worker.
LEMMA Owned ==
  ASSUME LoopType, WellFormed, NEW j \in Jobs,
         loop[j] \notin {"new", "queued"} \/ send[j] # "none"
  PROVE  owner[j] \in Workers
  BY DEF LoopType, WellFormed, JobWell

\* What send does when it returns keeps the types.
LEMMA FinishType ==
  ASSUME SendType, MutexType, NEW j \in Jobs, NEW r \in Outcomes \cup Jobs,
         Finish(j, r)
  PROVE  SendType' /\ MutexType'
  BY DEF SendType, MutexType, Finish, SendGoto

\* A panic only ends the program.
LEMMA PanicType ==
  ASSUME TypeOK, Panic
  PROVE  TypeOK'
  BY DEF Panic, TypeOK, QueueType, LoopType, SendType, FieldType, MutexType,
     ProcType, StopType, queueVars, loopVars, sendVars, fields, procVars, stopVars
-----------------------------------------------------------------------------
(* Types.                                                                  *)

\* The send goroutine of worker.go (send, writeMsg, readMsg) keeps the types.
LEMMA TypeSender ==
  ASSUME TypeOK, WellFormed, NEW j \in Jobs, Sender(j)
  PROVE  TypeOK'
<1> DEFINE Pipes == [Procs -> Seq(Tokens)]
           Later == {"flush", "read", "length", "body", "copy"}
<1>0. /\ QueueType /\ LoopType /\ SendType /\ FieldType
      /\ MutexType /\ ProcType /\ StopType /\ crashed \in BOOLEAN
  BY DEF TypeOK
<1>a. \A r \in Outcomes \cup Jobs : Finish(j, r) => SendType' /\ MutexType'
  BY <1>0, FinishType
<1>b. \A p \in Procs \cup {Nil}, l \in Later :
        Load(j, p, l) /\ got' \in [Jobs -> Outcomes \cup Jobs] => SendType'
  <2>. SUFFICES ASSUME NEW p \in Procs \cup {Nil}, NEW l \in Later, Load(j, p, l),
                       got' \in [Jobs -> Outcomes \cup Jobs]
                PROVE  SendType'
    OBVIOUS
  <2>1. send' = [send EXCEPT ![j] = l] /\ pipe' = [pipe EXCEPT ![j] = p]
    BY DEF Load, SendGoto
  <2>. QED
    BY <1>0, <2>1 DEF SendType
<1>c. /\ UNCHANGED got => got' \in [Jobs -> Outcomes \cup Jobs]
      /\ UNCHANGED mu => MutexType'
  BY <1>0 DEF SendType, MutexType
<1>d. "err" \in Outcomes /\ "mixed" \in Outcomes
  BY DEF Outcomes
<1>e. send[j] # "none" => /\ write[owner[j]] \in Procs \cup {Nil}
                          /\ read[owner[j]] \in Procs \cup {Nil}
  BY <1>0, Owned DEF FieldType
<1>f. send[j] \in {"length", "copy"} => pipe[j] \in Procs
  BY <1>0 DEF SendType, WellFormed, JobWell
<1>g. \A p \in Procs : stdout[p] # <<>> =>
        /\ Head(stdout[p]) \in Tokens
        /\ [stdout EXCEPT ![p] = Tail(@)] \in Pipes
  BY <1>0, SeqFacts, PipeFacts DEF ProcType
<1>1. CASE SendLock(j)
  <2>1. SendType' /\ MutexType'
    BY <1>0, <1>1 DEF SendLock, SendGoto, SendType, MutexType
  <2>. QED
    BY <1>0, <1>1, <2>1 DEF SendLock, TypeOK, QueueType, LoopType, FieldType,
       ProcType, StopType, queueVars, loopVars, fields, procVars, stopVars
<1>2. CASE SendWrite(j)
  <2>1. \/ Finish(j, "err")
        \/ Load(j, write[owner[j]], "flush") /\ UNCHANGED <<got, mu>>
    BY <1>2 DEF SendWrite
  <2>2. SendType' /\ MutexType'
    BY <1>2, <1>a, <1>b, <1>c, <1>d, <1>e, <2>1 DEF SendWrite
  <2>. QED
    BY <1>0, <1>2, <2>2 DEF SendWrite, TypeOK, QueueType, LoopType, FieldType,
       ProcType, StopType, queueVars, loopVars, fields, procVars, stopVars
<1>3. CASE SendFlush(j)
  <2>1. CASE Panic
    BY <2>1, PanicType
  <2>2. CASE ~Panic
    <3>1. \/ Finish(j, "err") /\ UNCHANGED stdin
          \/ /\ Load(j, Nil, "read") /\ UNCHANGED <<got, mu>>
             /\ \E p, k : /\ k \in {"msg", "garbage"}
                          /\ stdin' = [stdin EXCEPT ![p] = Append(@, Token(k, j))]
      BY <1>3, <2>2 DEF SendFlush
    <3>2. SendType' /\ MutexType'
      BY <1>a, <1>b, <1>c, <1>d, <3>1
    <3>3. \A k \in {"msg", "garbage"} : Token(k, j) \in Tokens
      BY DEF Token, Tokens
    <3>4. stdin' \in Pipes
      <4>1. \A p, k : k \in {"msg", "garbage"} =>
              [stdin EXCEPT ![p] = Append(@, Token(k, j))] \in Pipes
        BY <1>0, <3>3, PipeFacts DEF ProcType
      <4>2. CASE UNCHANGED stdin
        BY <1>0, <4>2 DEF ProcType
      <4>3. CASE ~UNCHANGED stdin
        <5>1. PICK p, k : /\ k \in {"msg", "garbage"}
                          /\ stdin' = [stdin EXCEPT ![p] = Append(@, Token(k, j))]
          BY <3>1, <4>3
        <5>. QED
          BY <4>1, <5>1
      <4>. QED
        BY <4>2, <4>3
    <3>. QED
      BY <1>0, <1>3, <2>2, <3>2, <3>4 DEF SendFlush, TypeOK, QueueType,
         LoopType, FieldType, ProcType, StopType, queueVars, loopVars, fields,
         stopVars
  <2>. QED
    BY <2>1, <2>2
<1>4. CASE SendRead(j)
  <2>1. \/ Finish(j, "err")
        \/ Load(j, read[owner[j]], "length") /\ UNCHANGED <<got, mu>>
    BY <1>4 DEF SendRead
  <2>2. SendType' /\ MutexType'
    BY <1>4, <1>a, <1>b, <1>c, <1>d, <1>e, <2>1 DEF SendRead
  <2>. QED
    BY <1>0, <1>4, <2>2 DEF SendRead, TypeOK, QueueType, LoopType, FieldType,
       ProcType, StopType, queueVars, loopVars, fields, procVars, stopVars
<1>5. CASE SendLength(j)
  <2>1. pipe[j] \in Procs
    BY <1>5, <1>f DEF SendLength
  <2>2. \/ Finish(j, "err")
        \/ /\ stdout[pipe[j]] # <<>> /\ Head(stdout[pipe[j]]).kind = "len"
           /\ got' = [got EXCEPT ![j] = Head(stdout[pipe[j]]).job]
           /\ Load(j, Nil, "body") /\ UNCHANGED mu
        \/ /\ got' = [got EXCEPT ![j] = "mixed"]
           /\ UNCHANGED <<send, pipe, mu>>
    BY <1>5 DEF SendLength
  <2>3. stdout[pipe[j]] # <<>> /\ Head(stdout[pipe[j]]).kind = "len" =>
          Head(stdout[pipe[j]]).job \in Jobs \cup Outcomes
    BY <1>g, <2>1 DEF Tokens, Outcomes
  <2>4. SendType' /\ MutexType'
    <3>1. CASE Finish(j, "err")
      BY <1>a, <1>d, <3>1
    <3>2. CASE /\ stdout[pipe[j]] # <<>> /\ Head(stdout[pipe[j]]).kind = "len"
               /\ got' = [got EXCEPT ![j] = Head(stdout[pipe[j]]).job]
               /\ Load(j, Nil, "body") /\ UNCHANGED mu
      <4>1. got' \in [Jobs -> Outcomes \cup Jobs]
        BY <1>0, <2>3, <3>2 DEF SendType
      <4>. QED
        BY <1>b, <1>c, <3>2, <4>1
    <3>3. CASE /\ got' = [got EXCEPT ![j] = "mixed"]
               /\ UNCHANGED <<send, pipe, mu>>
      <4>1. got' \in [Jobs -> Outcomes \cup Jobs]
        BY <1>0, <1>d, <3>3 DEF SendType
      <4>. QED
        BY <1>0, <1>c, <3>3, <4>1 DEF SendType
    <3>. QED
      BY <2>2, <3>1, <3>2, <3>3
  <2>5. stdout' \in Pipes
    BY <1>0, <1>5, <1>g, <2>1 DEF SendLength, ProcType
  <2>. QED
    BY <1>0, <1>5, <2>4, <2>5 DEF SendLength, TypeOK, QueueType, LoopType,
       FieldType, ProcType, StopType, queueVars, loopVars, fields, stopVars
<1>6. CASE SendBody(j)
  <2>1. CASE Panic
    BY <2>1, PanicType
  <2>2. CASE ~Panic
    <3>1. Load(j, read[owner[j]], "copy") /\ UNCHANGED <<got, mu>>
      BY <1>6, <2>2 DEF SendBody
    <3>2. SendType' /\ MutexType'
      BY <1>6, <1>b, <1>c, <1>e, <3>1 DEF SendBody
    <3>. QED
      BY <1>0, <1>6, <2>2, <3>2 DEF SendBody, TypeOK, QueueType, LoopType,
         FieldType, ProcType, StopType, queueVars, loopVars, fields, procVars,
         stopVars
  <2>. QED
    BY <2>1, <2>2
<1>7. CASE SendCopy(j)
  <2>1. pipe[j] \in Procs /\ got[j] \in Outcomes \cup Jobs
    BY <1>0, <1>7, <1>f DEF SendCopy, SendType
  <2>2. \/ \E r \in {"err", "mixed", got[j]} : Finish(j, r)
        \/ UNCHANGED <<send, pipe, got, mu>>
    BY <1>7 DEF SendCopy
  <2>3. SendType' /\ MutexType'
    BY <1>0, <1>a, <1>c, <1>d, <2>1, <2>2 DEF SendType
  <2>4. stdout' \in Pipes
    BY <1>0, <1>7, <1>g, <2>1 DEF SendCopy, ProcType
  <2>. QED
    BY <1>0, <1>7, <2>3, <2>4 DEF SendCopy, TypeOK, QueueType, LoopType,
       FieldType, ProcType, StopType, queueVars, loopVars, fields, stopVars
<1>. QED
  BY <1>1, <1>2, <1>3, <1>4, <1>5, <1>6, <1>7 DEF Sender

\* An iteration of jobLoop, with timedSend, Restart and Start, keeps the types.
\* Every case names the parts it changes; the QED step covers the others.
LEMMA TypeLoop ==
  ASSUME TypeOK, WellFormed, NEW j \in Jobs, Loop(j)
  PROVE  TypeOK'
<1>0. /\ QueueType /\ LoopType /\ SendType /\ FieldType
      /\ MutexType /\ ProcType /\ StopType /\ crashed \in BOOLEAN
  BY DEF TypeOK
<1>1. CASE Receive(j)
  <2>1. QueueType'
    BY <1>0, <1>1, Owned DEF Receive, Answered, Goto, SendGoto, Outcomes,
       SendType, LoopType, QueueType
  <2>2. LoopType'
    BY <1>0, <1>1 DEF Receive, Answered, Goto, SendGoto, Outcomes, SendType,
       LoopType
  <2>3. SendType'
    BY <1>0, <1>1 DEF Receive, Answered, Goto, SendGoto, Outcomes, SendType,
       LoopType
  <2>. QED
    BY <1>0, <1>1, <2>1, <2>2, <2>3 DEF Receive, TypeOK, FieldType, MutexType,
       ProcType, StopType, fields, procVars, stopVars
<1>2. CASE Timeout(j)
  <2>1. LoopType'
    BY <1>0, <1>2 DEF Timeout, Goto, Outcomes, LoopType
  <2>. QED
    BY <1>0, <1>2, <2>1 DEF Timeout, TypeOK, QueueType, SendType, FieldType,
       MutexType, ProcType, StopType, queueVars, sendVars, fields, procVars,
       stopVars
<1>3. CASE AfterRestart(j)
  <2>1. QueueType'
    BY <1>0, <1>3, Owned DEF AfterRestart, Answered, Goto, Outcomes, LoopType,
       QueueType, queueVars, Panic
  <2>2. LoopType'
    BY <1>0, <1>3 DEF AfterRestart, Answered, Goto, Outcomes, LoopType,
       loopVars, Panic
  <2>. QED
    BY <1>0, <1>3, <2>1, <2>2 DEF AfterRestart, Panic, TypeOK, SendType,
       FieldType, MutexType, ProcType, StopType, sendVars, fields, procVars,
       stopVars
<1>4. CASE RestartCheck(j)
  <2>1. LoopType'
    BY <1>0, <1>4 DEF RestartCheck, Goto, LoopType
  <2>. QED
    BY <1>0, <1>4, <2>1 DEF RestartCheck, TypeOK, QueueType, SendType,
       FieldType, MutexType, ProcType, StopType, queueVars, sendVars, fields,
       procVars, stopVars
<1>5. CASE RestartKill(j)
  <2>1. LoopType'
    BY <1>0, <1>5 DEF RestartKill, Goto, LoopType, loopVars, Panic
  <2>2. ProcType'
    <3>1. UNCHANGED <<proc, stdin>> \/ \E p : Die(p)
      BY <1>5 DEF RestartKill, Panic, procVars
    <3>2. UNCHANGED <<stdout, faults>>
      BY <1>5 DEF RestartKill, Panic, procVars
    <3>. QED
      BY <1>0, <3>1, <3>2, DieType DEF ProcType
  <2>. QED
    BY <1>0, <1>5, <2>1, <2>2 DEF RestartKill, Panic, TypeOK, QueueType,
       SendType, FieldType, MutexType, StopType, queueVars, sendVars, fields,
       stopVars
<1>6. CASE RestartWait(j)
  <2>1. LoopType'
    BY <1>0, <1>6, Owned DEF RestartWait, Goto, FieldType, LoopType, loopVars,
       Panic
  <2>. QED
    BY <1>0, <1>6, <2>1 DEF RestartWait, Panic, TypeOK, QueueType, SendType,
       FieldType, MutexType, ProcType, StopType, queueVars, sendVars, fields,
       procVars, stopVars
<1>7. CASE RestartReap(j)
  <2>1. LoopType'
    BY <1>0, <1>7 DEF RestartReap, Goto, LoopType
  <2>2. ProcType'
    BY <1>0, <1>7 DEF RestartReap, Goto, ProcType
  <2>. QED
    BY <1>0, <1>7, <2>1, <2>2 DEF RestartReap, TypeOK, QueueType, SendType,
       FieldType, MutexType, StopType, queueVars, sendVars, fields, stopVars
<1>8. CASE RestartReset(j)
  <2>1. LoopType'
    BY <1>0, <1>8 DEF RestartReset, Goto, LoopType
  <2>2. FieldType'
    BY <1>0, <1>8 DEF RestartReset, Goto, FieldType
  <2>. QED
    BY <1>0, <1>8, <2>1, <2>2 DEF RestartReset, TypeOK, QueueType, SendType,
       MutexType, ProcType, StopType, queueVars, sendVars, procVars, stopVars
<1>9. CASE StartReader(j)
  <2>1. LoopType'
    BY <1>0, <1>9 DEF StartReader, Goto, Procs, LoopType
  <2>2. FieldType'
    BY <1>0, <1>9 DEF StartReader, Goto, Procs, FieldType
  <2>. QED
    BY <1>0, <1>9, <2>1, <2>2 DEF StartReader, TypeOK, QueueType, SendType,
       MutexType, ProcType, StopType, queueVars, sendVars, procVars, stopVars
<1>10. CASE StartSpawn(j)
  <2>1. LoopType'
    BY <1>0, <1>10 DEF StartSpawn, Goto, Procs, Fault, LoopType
  <2>2. FieldType'
    <3>1. write' = [write EXCEPT ![owner[j]] = j] /\ UNCHANGED <<cmd, read>>
      BY <1>10 DEF StartSpawn
    <3>. QED
      BY <1>0, <3>1 DEF FieldType, Procs
  <2>3. ProcType'
    <3>1. \/ proc' = [proc EXCEPT ![j] = "starting"] /\ UNCHANGED faults
          \/ proc' = [proc EXCEPT ![j] = "reaped"] /\ faults' = faults + 1
      BY <1>10 DEF StartSpawn, Fault
    <3>2. UNCHANGED <<stdin, stdout>>
      BY <1>10 DEF StartSpawn
    <3>3. proc' \in [Procs -> {"none", "starting", "up", "dead", "reaped"}]
      BY <1>0, <3>1 DEF ProcType
    <3>4. faults' \in Nat
      BY <1>0, <3>1 DEF ProcType
    <3>. QED
      BY <1>0, <3>2, <3>3, <3>4 DEF ProcType
  <2>. QED
    BY <1>0, <1>10, <2>1, <2>2, <2>3 DEF StartSpawn, TypeOK, QueueType,
       SendType, MutexType, StopType, queueVars, sendVars, stopVars
<1>11. CASE StartRead(j)
  <2>1. LoopType'
    BY <1>0, <1>11, Owned DEF StartRead, Goto, FieldType, LoopType, loopVars,
       Panic
  <2>. QED
    BY <1>0, <1>11, <2>1 DEF StartRead, Panic, TypeOK, QueueType, SendType,
       FieldType, MutexType, ProcType, StopType, queueVars, sendVars, fields,
       procVars, stopVars
<1>12. CASE StartLine(j)
  <2>1. LoopType'
    BY <1>0, <1>12 DEF StartLine, Goto, LoopType
  <2>2. ProcType'
    <3>1. stdout[target[j]] # <<>> =>
            [stdout EXCEPT ![target[j]] = Tail(@)] \in [Procs -> Seq(Tokens)]
      BY <1>0, PipeFacts DEF ProcType
    <3>. QED
      BY <1>0, <1>12, <3>1 DEF StartLine, ProcType
  <2>. QED
    BY <1>0, <1>12, <2>1, <2>2 DEF StartLine, TypeOK, QueueType, SendType,
       FieldType, MutexType, StopType, queueVars, sendVars, fields, stopVars
<1>13. CASE StartDrain(j)
  <2>1. LoopType'
    BY <1>0, <1>13 DEF StartDrain, Goto, LoopType
  <2>2. ProcType'
    <3>1. stdout[target[j]] # <<>> =>
            [stdout EXCEPT ![target[j]] = Tail(@)] \in [Procs -> Seq(Tokens)]
      BY <1>0, PipeFacts DEF ProcType
    <3>. QED
      BY <1>0, <1>13, <3>1 DEF StartDrain, ProcType
  <2>. QED
    BY <1>0, <1>13, <2>1, <2>2 DEF StartDrain, TypeOK, QueueType, SendType,
       FieldType, MutexType, StopType, queueVars, sendVars, fields, stopVars
<1>14. CASE StartDone(j)
  <2>1. QueueType'
    BY <1>0, <1>14, Owned DEF StartDone, Goto, Procs, QueueType
  <2>2. LoopType'
    BY <1>0, <1>14 DEF StartDone, Goto, Procs, LoopType
  <2>3. FieldType'
    BY <1>0, <1>14 DEF StartDone, Goto, Procs, FieldType
  <2>. QED
    BY <1>0, <1>14, <2>1, <2>2, <2>3 DEF StartDone, TypeOK, SendType,
       MutexType, ProcType, StopType, sendVars, procVars, stopVars
<1>. QED
  BY <1>1, <1>2, <1>3, <1>4, <1>5, <1>6, <1>7, <1>8, <1>9, <1>10, <1>11, <1>12,
     <1>13, <1>14 DEF Loop, Restart

\* The PHP processes keep the types of their pipes.
LEMMA TypeProcess ==
  ASSUME TypeOK, WellFormed, NEW p \in Procs, Process(p)
  PROVE  TypeOK'
<1>0. /\ QueueType /\ LoopType /\ SendType /\ FieldType
      /\ MutexType /\ ProcType /\ StopType /\ crashed \in BOOLEAN
  BY DEF TypeOK
<1>1. CASE ProcStray(p)
  <2>1. ProcType'
    BY <1>0, <1>1, PipeFacts DEF ProcStray, Token, Tokens, ProcType
  <2>. QED
    BY <1>0, <1>1, <2>1 DEF ProcStray, TypeOK, QueueType, LoopType, SendType,
       FieldType, MutexType, StopType, queueVars, loopVars, sendVars, fields,
       stopVars
<1>2. CASE ProcReady(p)
  <2>1. ProcType'
    BY <1>0, <1>2, PipeFacts DEF ProcReady, Token, Tokens, ProcType
  <2>. QED
    BY <1>0, <1>2, <2>1 DEF ProcReady, TypeOK, QueueType, LoopType, SendType,
       FieldType, MutexType, StopType, queueVars, loopVars, sendVars, fields,
       stopVars
<1>3. CASE ProcHandle(p)
  <2>1. ProcType'
    <3>1. CASE /\ Head(stdin[p]).kind = "msg"
               /\ stdout' = [stdout EXCEPT ![p] = @ \o Answer(Head(stdin[p]).job)]
               /\ stdin' = [stdin EXCEPT ![p] = Tail(@)]
               /\ UNCHANGED <<proc, faults>>
      <4>1. Head(stdin[p]) \in Tokens /\ Tail(stdin[p]) \in Seq(Tokens)
        BY <1>0, <1>3, SeqFacts DEF ProcHandle, ProcType
      <4>2. Answer(Head(stdin[p]).job) \in Seq(Tokens)
        BY <3>1, <4>1 DEF Answer, Token, Tokens
      <4>3. stdout[p] \o Answer(Head(stdin[p]).job) \in Seq(Tokens)
        BY <1>0, <4>2, SeqFacts DEF ProcType
      <4>4. stdin' \in [Procs -> Seq(Tokens)]
        BY <1>0, <3>1, <4>1 DEF ProcType
      <4>5. stdout' \in [Procs -> Seq(Tokens)]
        BY <1>0, <3>1, <4>3 DEF ProcType
      <4>. QED
        BY <1>0, <3>1, <4>4, <4>5 DEF ProcType
    <3>2. CASE Die(p) /\ UNCHANGED <<stdout, faults>>
      BY <1>0, <3>2, DieType DEF ProcType
    <3>3. CASE ProcFrames(p) /\ UNCHANGED faults
      <4>1. Head(stdin[p]) \in Tokens /\ Tail(stdin[p]) \in Seq(Tokens)
        BY <1>0, <1>3, SeqFacts DEF ProcHandle, ProcType
      <4>2. Answer("mixed") \in Seq(Tokens)
        BY DEF Answer, Token, Tokens
      <4>3. stdout[p] \o Answer("mixed") \in Seq(Tokens)
        BY <1>0, <4>2, SeqFacts DEF ProcType
      <4>4. Tail(stdin[p]) # <<>> =>
              <<Head(stdin[p])>> \o Tail(Tail(stdin[p])) \in Seq(Tokens)
        BY <4>1, SeqFacts
      <4>5. stdin' \in [Procs -> Seq(Tokens)]
        BY <1>0, <3>3, <4>1, <4>4 DEF ProcFrames, ProcType
      <4>6. stdout' \in [Procs -> Seq(Tokens)]
        BY <1>0, <3>3, <4>3 DEF ProcFrames, ProcType
      <4>. QED
        BY <1>0, <3>3, <4>5, <4>6 DEF ProcFrames, ProcType
    <3>. QED
      BY <1>3, <3>1, <3>2, <3>3 DEF ProcHandle
  <2>. QED
    BY <1>0, <1>3, <2>1 DEF ProcHandle, ProcFrames, Die, TypeOK, QueueType, LoopType, SendType,
       FieldType, MutexType, StopType, queueVars, loopVars, sendVars, fields,
       stopVars
<1>4. CASE ProcDie(p)
  <2>1. ProcType'
    <3>0. stdin[p] # <<>> => Head(stdin[p]) \in Tokens
      BY <1>0, SeqFacts DEF ProcType
    <3>1. stdin[p] # <<>> /\ Head(stdin[p]).kind = "msg" =>
            Token("len", Head(stdin[p]).job) \in Tokens
      BY <3>0 DEF Token, Tokens
    <3>2. stdin[p] # <<>> /\ Head(stdin[p]).kind = "msg" =>
            [stdout EXCEPT ![p] = Append(@, Token("len", Head(stdin[p]).job))]
              \in [Procs -> Seq(Tokens)]
      BY <1>0, <3>1, PipeFacts DEF ProcType
    <3>a. \/ UNCHANGED stdout
          \/ /\ stdin[p] # <<>> /\ Head(stdin[p]).kind = "msg"
             /\ stdout' = [stdout EXCEPT ![p] =
                             Append(@, Token("len", Head(stdin[p]).job))]
      BY <1>4 DEF ProcDie
    <3>3. stdout' \in [Procs -> Seq(Tokens)]
      BY <1>0, <3>2, <3>a DEF ProcType
    <3>4. faults' = faults + 1 /\ Die(p)
      BY <1>4 DEF ProcDie, Fault
    <3>5. faults' \in Nat
      BY <1>0, <3>4 DEF ProcType
    <3>. QED
      BY <1>0, <3>3, <3>4, <3>5, DieType DEF ProcType
  <2>. QED
    BY <1>0, <1>4, <2>1 DEF ProcDie, TypeOK, QueueType, LoopType, SendType,
       FieldType, MutexType, StopType, queueVars, loopVars, sendVars, fields,
       stopVars
<1>. QED
  BY <1>1, <1>2, <1>3, <1>4 DEF Process

\* Pool.Stop and Worker.Stop keep the types.
LEMMA TypeStop ==
  ASSUME TypeOK, WellFormed, Stop
  PROVE  TypeOK'
<1>0. /\ QueueType /\ LoopType /\ SendType /\ FieldType
      /\ MutexType /\ ProcType /\ StopType /\ crashed \in BOOLEAN
  BY DEF TypeOK
<1>1. CASE StopClose
  <2>1. QueueType'
    BY <1>0, <1>1 DEF StopClose, QueueType
  <2>2. StopType'
    BY <1>0, <1>1 DEF StopClose, StopType
  <2>. QED
    BY <1>0, <1>1, <2>1, <2>2 DEF StopClose, TypeOK, LoopType, SendType,
       FieldType, MutexType, ProcType, loopVars, sendVars, fields, procVars
<1>2. CASE StopNext
  <2>1. MutexType'
    BY <1>0, <1>2 DEF StopNext, MutexType
  <2>2. StopType'
    BY <1>0, <1>2 DEF StopNext, StopType
  <2>. QED
    BY <1>0, <1>2, <2>1, <2>2 DEF StopNext, TypeOK, QueueType, LoopType,
       SendType, FieldType, ProcType, queueVars, loopVars, sendVars, fields,
       procVars
<1>3. CASE StopCheck
  <2>1. MutexType'
    BY <1>0, <1>3 DEF StopCheck, StopUnlock, MutexType
  <2>2. StopType'
    BY <1>0, <1>3 DEF StopCheck, StopUnlock, StopType
  <2>. QED
    BY <1>0, <1>3, <2>1, <2>2 DEF StopCheck, TypeOK, QueueType, LoopType, SendType,
       FieldType, ProcType, queueVars, loopVars, sendVars, fields, procVars
<1>a. CASE StopWrite
  <2>1. StopType'
    BY <1>0, <1>a DEF StopWrite, FieldType, WellFormed, StopWell, Stopping, StopType,
       stopVars, Panic
  <2>. QED
    BY <1>0, <1>a, <2>1 DEF StopWrite, Panic, TypeOK, QueueType, LoopType,
       SendType, FieldType, MutexType, ProcType, queueVars, loopVars, sendVars,
       fields, procVars
<1>b. CASE StopFlush
  <2>1. MutexType'
    BY <1>0, <1>b DEF StopFlush, StopUnlock, MutexType, Panic
  <2>2. ProcType'
    <3>1. Token("quit", Nil) \in Tokens
      BY DEF Token, Tokens
    <3>2. \A p : [stdin EXCEPT ![p] = Append(@, Token("quit", Nil))]
                   \in [Procs -> Seq(Tokens)]
      BY <1>0, <3>1, PipeFacts DEF ProcType
    <3>3. \/ UNCHANGED stdin
          \/ stdin' = [stdin EXCEPT ![write[stopAt]] = Append(@, Token("quit", Nil))]
      BY <1>b DEF StopFlush, Panic, procVars
    <3>4. UNCHANGED <<proc, stdout, faults>>
      BY <1>b DEF StopFlush, Panic, procVars
    <3>5. stdin' \in [Procs -> Seq(Tokens)]
      BY <1>0, <3>2, <3>3, ZenonT(30) DEF ProcType
    <3>. QED
      BY <1>0, <3>4, <3>5 DEF ProcType
  <2>3. StopType'
    BY <1>0, <1>b DEF StopFlush, StopUnlock, StopType, stopVars, Panic
  <2>. QED
    BY <1>0, <1>b, <2>1, <2>2, <2>3 DEF StopFlush, Panic, TypeOK, QueueType,
       LoopType, SendType, FieldType, queueVars, loopVars, sendVars, fields
<1>4. CASE StopWait
  <2>1. StopType'
    BY <1>0, <1>4 DEF StopWait, FieldType, WellFormed, StopWell, Stopping, StopType,
       stopVars, Panic
  <2>. QED
    BY <1>0, <1>4, <2>1 DEF StopWait, Panic, TypeOK, QueueType, LoopType,
       SendType, FieldType, MutexType, ProcType, queueVars, loopVars, sendVars,
       fields, procVars
<1>5. CASE StopReap
  <2>1. FieldType'
    <3>1. \/ UNCHANGED <<cmd, read, write>>
          \/ /\ cmd' = [cmd EXCEPT ![stopAt] = Nil]
             /\ read' = [read EXCEPT ![stopAt] = Nil]
             /\ write' = [write EXCEPT ![stopAt] = Nil]
      BY <1>5 DEF StopReap, fields
    <3>. QED
      BY <1>0, <3>1 DEF FieldType
  <2>2. MutexType'
    BY <1>0, <1>5 DEF StopReap, StopUnlock, MutexType
  <2>3. ProcType'
    BY <1>0, <1>5 DEF StopReap, StopUnlock, ProcType
  <2>4. StopType'
    BY <1>0, <1>5 DEF StopReap, StopUnlock, StopType
  <2>. QED
    BY <1>0, <1>5, <2>1, <2>2, <2>3, <2>4 DEF StopReap, TypeOK, QueueType,
       LoopType, SendType, queueVars, loopVars, sendVars
<1>. QED
  BY <1>1, <1>2, <1>3, <1>a, <1>b, <1>4, <1>5 DEF Stop
-----------------------------------------------------------------------------
(* What the groups of actions change.                                      *)

\* A job that a loop has begun goes on to l; to wait on a process it has one.
Moves(j, l) ==
  /\ loop' = [loop EXCEPT ![j] = l]
  /\ l \notin {"new", "queued"}
  /\ l \in {"reap", "line", "drain"} => target'[j] # Nil

\* What the loop iteration of j changes outside the fields and the pipes: its
\* own place, the process it waits on, and the result it takes from its sender.
LEMMA LoopFrame ==
  ASSUME LoopType, NEW j \in Jobs, Loop(j), ~Panic
  PROVE  /\ UNCHANGED <<queue, owner, pipe, mu, stop, stopAt, waits>>
         /\ loop[j] \notin {"new", "queued"}
         /\ \/ UNCHANGED <<loop, target>>
            \/ \E l : Moves(j, l)
         /\ \/ target' = target
            \/ \E p \in {Nil, cmd[owner[j]], read[owner[j]]} :
                 target' = [target EXCEPT ![j] = p]
         /\ \/ send' = send
            \/ send[j] = "result" /\ send' = [send EXCEPT ![j] = "gone"]
<1>1. CASE Receive(j)
  <2>1. UNCHANGED <<queue, owner, pipe, mu, stop, stopAt, waits>>
    BY <1>1 DEF Receive, Answered, queueVars, sendVars, stopVars
  <2>2. /\ loop[j] \notin {"new", "queued"}
        /\ \E l \in {"check", "done"} : loop' = [loop EXCEPT ![j] = l]
    BY <1>1 DEF Receive, Goto, Answered
  <2>3. target' = target
    BY <1>1 DEF Receive, Answered, loopVars
  <2>5. Moves(j, "check") \/ Moves(j, "done")
    BY <2>2 DEF Moves
  <2>6. send[j] = "result" /\ send' = [send EXCEPT ![j] = "gone"]
    BY <1>1 DEF Receive, SendGoto
  <2>. QED
    BY <2>1, <2>2, <2>3, <2>5, <2>6
<1>2. CASE Timeout(j)
  <2>1. UNCHANGED <<queue, owner, pipe, mu, stop, stopAt, waits>>
    BY <1>2 DEF Timeout, queueVars, sendVars, stopVars
  <2>2. loop' = [loop EXCEPT ![j] = "check"] /\ loop[j] \notin {"new", "queued"}
    BY <1>2 DEF Timeout, Goto
  <2>3. target' = target
    BY <1>2 DEF Timeout, loopVars
  <2>5. Moves(j, "check")
    BY <2>2 DEF Moves
  <2>6. send' = send
    BY <1>2 DEF Timeout, sendVars
  <2>. QED
    BY <2>1, <2>2, <2>3, <2>5, <2>6
<1>3. CASE AfterRestart(j)
  <2>1. UNCHANGED <<queue, owner, pipe, mu, stop, stopAt, waits>>
    BY <1>3 DEF AfterRestart, Answered, queueVars, sendVars, stopVars
  <2>2. loop' = [loop EXCEPT ![j] = "done"] /\ loop[j] \notin {"new", "queued"}
    BY <1>3 DEF AfterRestart, Goto, Answered
  <2>3. target' = target
    BY <1>3 DEF AfterRestart, Answered, loopVars
  <2>5. Moves(j, "done")
    BY <2>2 DEF Moves
  <2>6. send' = send
    BY <1>3 DEF AfterRestart, sendVars
  <2>. QED
    BY <2>1, <2>2, <2>3, <2>5, <2>6
<1>4. CASE RestartCheck(j)
  <2>1. UNCHANGED <<queue, owner, pipe, mu, stop, stopAt, waits>>
    BY <1>4 DEF RestartCheck, queueVars, sendVars, stopVars
  <2>2. /\ loop[j] \notin {"new", "queued"}
        /\ \E l \in {"reset", "kill"} : loop' = [loop EXCEPT ![j] = l]
    BY <1>4 DEF RestartCheck, Goto
  <2>3. target' = target
    BY <1>4 DEF RestartCheck, loopVars
  <2>5. Moves(j, "reset") \/ Moves(j, "kill")
    BY <2>2 DEF Moves
  <2>6. send' = send
    BY <1>4 DEF RestartCheck, sendVars
  <2>. QED
    BY <2>1, <2>2, <2>3, <2>5, <2>6
<1>5. CASE RestartKill(j)
  <2>1. UNCHANGED <<queue, owner, pipe, mu, stop, stopAt, waits>>
    BY <1>5 DEF RestartKill, queueVars, sendVars, stopVars
  <2>2. /\ loop[j] \notin {"new", "queued"}
        /\ \E l \in {"after", "wait"} : loop' = [loop EXCEPT ![j] = l]
    BY <1>5 DEF RestartKill, Goto
  <2>3. target' = target
    BY <1>5 DEF RestartKill, loopVars
  <2>5. Moves(j, "after") \/ Moves(j, "wait")
    BY <2>2 DEF Moves
  <2>6. send' = send
    BY <1>5 DEF RestartKill, sendVars
  <2>. QED
    BY <2>1, <2>2, <2>3, <2>5, <2>6
<1>6. CASE RestartWait(j)
  <2>1. UNCHANGED <<queue, owner, pipe, mu, stop, stopAt, waits>>
    BY <1>6 DEF RestartWait, queueVars, sendVars, stopVars
  <2>2. loop' = [loop EXCEPT ![j] = "reap"] /\ loop[j] \notin {"new", "queued"}
    BY <1>6 DEF RestartWait, Goto
  <2>3. target' = [target EXCEPT ![j] = cmd[owner[j]]] /\ cmd[owner[j]] # Nil
    BY <1>6 DEF RestartWait
  <2>4. target'[j] # Nil
    BY <2>3 DEF LoopType
  <2>5. Moves(j, "reap")
    BY <2>2, <2>4 DEF Moves
  <2>6. send' = send
    BY <1>6 DEF RestartWait, sendVars
  <2>. QED
    BY <2>1, <2>2, <2>3, <2>5, <2>6
<1>7. CASE RestartReap(j)
  <2>1. UNCHANGED <<queue, owner, pipe, mu, stop, stopAt, waits>>
    BY <1>7 DEF RestartReap, queueVars, sendVars, stopVars
  <2>2. loop' = [loop EXCEPT ![j] = "reset"] /\ loop[j] \notin {"new", "queued"}
    BY <1>7 DEF RestartReap, Goto
  <2>3. target' = [target EXCEPT ![j] = Nil]
    BY <1>7 DEF RestartReap
  <2>5. Moves(j, "reset")
    BY <2>2 DEF Moves
  <2>6. send' = send
    BY <1>7 DEF RestartReap, sendVars
  <2>. QED
    BY <2>1, <2>2, <2>3, <2>5, <2>6
<1>8. CASE RestartReset(j)
  <2>1. UNCHANGED <<queue, owner, pipe, mu, stop, stopAt, waits>>
    BY <1>8 DEF RestartReset, queueVars, sendVars, stopVars
  <2>2. loop' = [loop EXCEPT ![j] = "start"] /\ loop[j] \notin {"new", "queued"}
    BY <1>8 DEF RestartReset, Goto
  <2>3. target' = target
    BY <1>8 DEF RestartReset, loopVars
  <2>5. Moves(j, "start")
    BY <2>2 DEF Moves
  <2>6. send' = send
    BY <1>8 DEF RestartReset, sendVars
  <2>. QED
    BY <2>1, <2>2, <2>3, <2>5, <2>6
<1>9. CASE StartReader(j)
  <2>1. UNCHANGED <<queue, owner, pipe, mu, stop, stopAt, waits>>
    BY <1>9 DEF StartReader, queueVars, sendVars, stopVars
  <2>2. /\ loop[j] \notin {"new", "queued"}
        /\ \E l \in {"after", "spawn"} : loop' = [loop EXCEPT ![j] = l]
    BY <1>9 DEF StartReader, Goto
  <2>3. target' = target
    BY <1>9 DEF StartReader, loopVars
  <2>5. Moves(j, "after") \/ Moves(j, "spawn")
    BY <2>2 DEF Moves
  <2>6. send' = send
    BY <1>9 DEF StartReader, sendVars
  <2>. QED
    BY <2>1, <2>2, <2>3, <2>5, <2>6
<1>10. CASE StartSpawn(j)
  <2>1. UNCHANGED <<queue, owner, pipe, mu, stop, stopAt, waits>>
    BY <1>10 DEF StartSpawn, queueVars, sendVars, stopVars
  <2>2. /\ loop[j] \notin {"new", "queued"}
        /\ \E l \in {"read", "after"} : loop' = [loop EXCEPT ![j] = l]
    BY <1>10 DEF StartSpawn, Goto
  <2>3. target' = target
    BY <1>10 DEF StartSpawn, loopVars
  <2>5. Moves(j, "read") \/ Moves(j, "after")
    BY <2>2 DEF Moves
  <2>6. send' = send
    BY <1>10 DEF StartSpawn, sendVars
  <2>. QED
    BY <2>1, <2>2, <2>3, <2>5, <2>6
<1>11. CASE StartRead(j)
  <2>1. UNCHANGED <<queue, owner, pipe, mu, stop, stopAt, waits>>
    BY <1>11 DEF StartRead, queueVars, sendVars, stopVars
  <2>2. /\ loop[j] \notin {"new", "queued"}
        /\ \E l \in {"line", "drain"} : loop' = [loop EXCEPT ![j] = l]
    BY <1>11 DEF StartRead, Goto
  <2>3. target' = [target EXCEPT ![j] = read[owner[j]]] /\ read[owner[j]] # Nil
    BY <1>11 DEF StartRead
  <2>4. target'[j] # Nil
    BY <2>3 DEF LoopType
  <2>5. Moves(j, "line") \/ Moves(j, "drain")
    BY <2>2, <2>4 DEF Moves
  <2>6. send' = send
    BY <1>11 DEF StartRead, sendVars
  <2>. QED
    BY <2>1, <2>2, <2>3, <2>5, <2>6
<1>12. CASE StartLine(j)
  <2>1. UNCHANGED <<queue, owner, pipe, mu, stop, stopAt, waits>>
    BY <1>12 DEF StartLine, queueVars, sendVars, stopVars
  <2>2. /\ loop[j] \notin {"new", "queued"}
        /\ \/ UNCHANGED <<loop, target>>
           \/ \E l \in {"ready", "other", "after"} : loop' = [loop EXCEPT ![j] = l]
    BY <1>12 DEF StartLine, Goto
  <2>3. target' = target \/ target' = [target EXCEPT ![j] = Nil]
    BY <1>12 DEF StartLine
  <2>5. UNCHANGED <<loop, target>> \/ Moves(j, "ready") \/ Moves(j, "other") \/ Moves(j, "after")
    BY <2>2 DEF Moves
  <2>6. send' = send
    BY <1>12 DEF StartLine, sendVars
  <2>. QED
    BY <2>1, <2>2, <2>3, <2>5, <2>6
<1>13. CASE StartDrain(j)
  <2>1. UNCHANGED <<queue, owner, pipe, mu, stop, stopAt, waits>>
    BY <1>13 DEF StartDrain, queueVars, sendVars, stopVars
  <2>2. /\ loop[j] \notin {"new", "queued"}
        /\ UNCHANGED <<loop, target>> \/ loop' = [loop EXCEPT ![j] = "after"]
    BY <1>13 DEF StartDrain, Goto
  <2>3. target' = target \/ target' = [target EXCEPT ![j] = Nil]
    BY <1>13 DEF StartDrain
  <2>5. UNCHANGED <<loop, target>> \/ Moves(j, "after")
    BY <2>2 DEF Moves
  <2>6. send' = send
    BY <1>13 DEF StartDrain, sendVars
  <2>. QED
    BY <2>1, <2>2, <2>3, <2>5, <2>6
<1>14. CASE StartDone(j)
  <2>1. UNCHANGED <<queue, owner, pipe, mu, stop, stopAt, waits>>
    BY <1>14 DEF StartDone, queueVars, sendVars, stopVars
  <2>2. loop' = [loop EXCEPT ![j] = "after"] /\ loop[j] \notin {"new", "queued"}
    BY <1>14 DEF StartDone, Goto
  <2>3. target' = target
    BY <1>14 DEF StartDone, loopVars
  <2>5. Moves(j, "after")
    BY <2>2 DEF Moves
  <2>6. send' = send
    BY <1>14 DEF StartDone, sendVars
  <2>. QED
    BY <2>1, <2>2, <2>3, <2>5, <2>6
<1>. QED
  BY <1>1, <1>2, <1>3, <1>4, <1>5, <1>6, <1>7, <1>8, <1>9, <1>10, <1>11, <1>12,
     <1>13, <1>14 DEF Loop, Restart

\* The restart of j gives the fields of its worker the process of j, or none.
LEMMA LoopFields ==
  ASSUME NEW j \in Jobs, Loop(j), ~Panic
  PROVE  /\ cmd' = cmd \/ \E p \in {Nil, j} : cmd' = [cmd EXCEPT ![owner[j]] = p]
         /\ read' = read \/ \E p \in {Nil, j} : read' = [read EXCEPT ![owner[j]] = p]
         /\ \/ write' = write
            \/ \E p \in {Nil, j} : write' = [write EXCEPT ![owner[j]] = p]
<1>1. CASE Receive(j)
  BY <1>1 DEF Receive, fields
<1>2. CASE Timeout(j)
  BY <1>2 DEF Timeout, fields
<1>3. CASE AfterRestart(j)
  BY <1>3 DEF AfterRestart, fields
<1>4. CASE RestartCheck(j)
  BY <1>4 DEF RestartCheck, fields
<1>5. CASE RestartKill(j)
  BY <1>5 DEF RestartKill, fields
<1>6. CASE RestartWait(j)
  BY <1>6 DEF RestartWait, fields
<1>7. CASE RestartReap(j)
  BY <1>7 DEF RestartReap, fields
<1>8. CASE RestartReset(j)
  <2>1. cmd' = [cmd EXCEPT ![owner[j]] = Nil]
    BY <1>8 DEF RestartReset
  <2>2. read' = [read EXCEPT ![owner[j]] = Nil]
    BY <1>8 DEF RestartReset
  <2>3. write' = [write EXCEPT ![owner[j]] = Nil]
    BY <1>8 DEF RestartReset
  <2>. QED
    BY <2>1, <2>2, <2>3
<1>9. CASE StartReader(j)
  <2>1. cmd' = cmd
    BY <1>9 DEF StartReader
  <2>2. read' = read \/ read' = [read EXCEPT ![owner[j]] = j]
    BY <1>9 DEF StartReader
  <2>3. write' = write
    BY <1>9 DEF StartReader
  <2>. QED
    BY <2>1, <2>2, <2>3
<1>10. CASE StartSpawn(j)
  <2>1. cmd' = cmd
    BY <1>10 DEF StartSpawn
  <2>2. read' = read
    BY <1>10 DEF StartSpawn
  <2>3. write' = [write EXCEPT ![owner[j]] = j]
    BY <1>10 DEF StartSpawn
  <2>. QED
    BY <2>1, <2>2, <2>3
<1>11. CASE StartRead(j)
  BY <1>11 DEF StartRead, fields
<1>12. CASE StartLine(j)
  BY <1>12 DEF StartLine, fields
<1>13. CASE StartDrain(j)
  BY <1>13 DEF StartDrain, fields
<1>14. CASE StartDone(j)
  <2>1. cmd' = [cmd EXCEPT ![owner[j]] = j]
    BY <1>14 DEF StartDone
  <2>2. read' = read
    BY <1>14 DEF StartDone
  <2>3. write' = write
    BY <1>14 DEF StartDone
  <2>. QED
    BY <2>1, <2>2, <2>3
<1>. QED
  BY <1>1, <1>2, <1>3, <1>4, <1>5, <1>6, <1>7, <1>8, <1>9, <1>10, <1>11, <1>12,
     <1>13, <1>14 DEF Loop, Restart

\* The steps of a send goroutine between writeMsg and the end of readMsg.
Inside == {"write", "flush", "read", "length", "body", "copy"}

\* What the send goroutine of j changes outside the pipes: its own place and the
\* pipes it has loaded; it takes the mutex before it gets inside and gives it
\* back when it leaves.
LEMMA SenderFrame ==
  ASSUME SendType, WellFormed, NEW j \in Jobs, Sender(j), ~Panic
  PROVE  /\ UNCHANGED <<queue, loopVars, fields, stopVars>>
         /\ send[j] # "none"
         /\ \/ pipe' = pipe
            \/ \E p \in {Nil, read[owner[j]], write[owner[j]]} :
                 pipe' = [pipe EXCEPT ![j] = p]
         /\ send'[j] \in {"length", "copy"} => pipe'[j] # Nil
         /\ \/ /\ send[j] = "lock" /\ send' = [send EXCEPT ![j] = "write"]
               /\ mu[owner[j]] = Nil /\ mu' = [mu EXCEPT ![owner[j]] = j]
            \/ /\ send[j] \in Inside /\ UNCHANGED mu
               /\ \E l \in Inside : send' = [send EXCEPT ![j] = l]
            \/ /\ send[j] \in Inside /\ send' = [send EXCEPT ![j] = "result"]
               /\ mu' = [mu EXCEPT ![owner[j]] = Nil]
<1>1. CASE SendLock(j)
  <2>1. /\ UNCHANGED <<queue, loopVars, fields, stopVars>> /\ UNCHANGED pipe
        /\ send[j] = "lock"
    BY <1>1 DEF SendLock, queueVars
  <2>2. /\ send' = [send EXCEPT ![j] = "write"] /\ send'[j] = "write"
        /\ mu[owner[j]] = Nil /\ mu' = [mu EXCEPT ![owner[j]] = j]
    BY <1>1 DEF SendLock, SendGoto, SendType
  <2>. QED
    BY <2>1, <2>2
<1>2. CASE SendWrite(j)
  <2>1. UNCHANGED <<queue, loopVars, fields, stopVars>> /\ send[j] = "write"
    BY <1>2 DEF SendWrite, queueVars
  <2>2. \/ \E r : Finish(j, r)
        \/ Load(j, write[owner[j]], "flush") /\ UNCHANGED mu
    BY <1>2 DEF SendWrite
  <2>3. CASE \E r : Finish(j, r)
    BY <2>1, <2>3 DEF Finish, SendGoto, SendType, Inside
  <2>4. CASE Load(j, write[owner[j]], "flush") /\ UNCHANGED mu
    BY <2>1, <2>4 DEF Load, SendGoto, SendType, Inside
  <2>. QED
    BY <2>2, <2>3, <2>4
<1>3. CASE SendFlush(j)
  <2>1. UNCHANGED <<queue, loopVars, fields, stopVars>> /\ send[j] = "flush"
    BY <1>3 DEF SendFlush, queueVars
  <2>2. \/ \E r : Finish(j, r)
        \/ Load(j, Nil, "read") /\ UNCHANGED mu
    BY <1>3 DEF SendFlush
  <2>3. CASE \E r : Finish(j, r)
    BY <2>1, <2>3 DEF Finish, SendGoto, SendType, Inside
  <2>4. CASE Load(j, Nil, "read") /\ UNCHANGED mu
    BY <2>1, <2>4 DEF Load, SendGoto, SendType, Inside
  <2>. QED
    BY <2>2, <2>3, <2>4
<1>4. CASE SendRead(j)
  <2>1. UNCHANGED <<queue, loopVars, fields, stopVars>> /\ send[j] = "read"
    BY <1>4 DEF SendRead, queueVars
  <2>2. \/ \E r : Finish(j, r)
        \/ Load(j, read[owner[j]], "length") /\ read[owner[j]] # Nil /\ UNCHANGED mu
    BY <1>4 DEF SendRead
  <2>3. CASE \E r : Finish(j, r)
    BY <2>1, <2>3 DEF Finish, SendGoto, SendType, Inside
  <2>4. CASE Load(j, read[owner[j]], "length") /\ read[owner[j]] # Nil /\ UNCHANGED mu
    BY <2>1, <2>4 DEF Load, SendGoto, SendType, Inside
  <2>. QED
    BY <2>2, <2>3, <2>4
<1>5. CASE SendLength(j)
  <2>1. UNCHANGED <<queue, loopVars, fields, stopVars>> /\ send[j] = "length"
    BY <1>5 DEF SendLength, queueVars
  <2>2. \/ \E r : Finish(j, r)
        \/ Load(j, Nil, "body") /\ UNCHANGED mu
        \/ UNCHANGED <<send, pipe, mu>>
    BY <1>5 DEF SendLength
  <2>3. CASE \E r : Finish(j, r)
    BY <2>1, <2>3 DEF Finish, SendGoto, SendType, Inside
  <2>4. CASE Load(j, Nil, "body") /\ UNCHANGED mu
    BY <2>1, <2>4 DEF Load, SendGoto, SendType, Inside
  <2>5. CASE UNCHANGED <<send, pipe, mu>>
    <3>1. send' = [send EXCEPT ![j] = "length"]
      BY <2>1, <2>5 DEF SendType
    <3>2. pipe'[j] # Nil
      BY <2>1, <2>5 DEF WellFormed, JobWell
    <3>. QED
      BY <2>1, <2>5, <3>1, <3>2 DEF Inside
  <2>. QED
    BY <2>2, <2>3, <2>4, <2>5
<1>6. CASE SendBody(j)
  <2>1. UNCHANGED <<queue, loopVars, fields, stopVars>> /\ send[j] = "body"
    BY <1>6 DEF SendBody, queueVars
  <2>2. Load(j, read[owner[j]], "copy") /\ read[owner[j]] # Nil /\ UNCHANGED mu
    BY <1>6 DEF SendBody
  <2>3. CASE \E r : Finish(j, r)
    BY <2>1, <2>3 DEF Finish, SendGoto, SendType, Inside
  <2>4. CASE Load(j, read[owner[j]], "copy") /\ read[owner[j]] # Nil /\ UNCHANGED mu
    BY <2>1, <2>4 DEF Load, SendGoto, SendType, Inside
  <2>. QED
    BY <2>2, <2>3, <2>4
<1>7. CASE SendCopy(j)
  <2>1. UNCHANGED <<queue, loopVars, fields, stopVars>> /\ send[j] = "copy"
    BY <1>7 DEF SendCopy, queueVars
  <2>2. \/ \E r : Finish(j, r)
        \/ UNCHANGED <<send, pipe, got, mu>>
    BY <1>7 DEF SendCopy
  <2>3. CASE \E r : Finish(j, r)
    BY <2>1, <2>3 DEF Finish, SendGoto, SendType, Inside
  <2>4. CASE UNCHANGED <<send, pipe, got, mu>>
    <3>1. send' = [send EXCEPT ![j] = "copy"]
      BY <2>1, <2>4 DEF SendType
    <3>2. pipe'[j] # Nil
      BY <2>1, <2>4 DEF WellFormed, JobWell
    <3>. QED
      BY <2>1, <2>4, <3>1, <3>2 DEF Inside
  <2>. QED
    BY <2>2, <2>3, <2>4
<1>. QED
  BY <1>1, <1>2, <1>3, <1>4, <1>5, <1>6, <1>7 DEF Sender
-----------------------------------------------------------------------------
(* Types: the queue, and every step.                                       *)

\* Pool.Send keeps the types.
LEMMA TypeSubmit ==
  ASSUME TypeOK, NEW j \in Jobs, Submit(j), ~Panic
  PROVE  TypeOK'
<1>1. /\ queue' = Append(queue, j) /\ loop' = [loop EXCEPT ![j] = "queued"]
      /\ UNCHANGED <<closed, idle, owner, reply, target, sendVars, fields, mu,
                     procVars, stopVars, crashed>>
  BY DEF Submit, Goto
<1>2. QueueType'
  BY <1>1, SeqFacts DEF TypeOK, QueueType
<1>3. LoopType'
  BY <1>1 DEF TypeOK, LoopType
<1>. QED
  BY <1>1, <1>2, <1>3 DEF TypeOK, SendType, FieldType, MutexType, ProcType,
     StopType, sendVars, fields, procVars, stopVars

\* A loop that takes a job keeps the types.
LEMMA TypeTake ==
  ASSUME TypeOK, NEW w \in Workers, NEW j \in Jobs, Take(w, j)
  PROVE  TypeOK'
<1>1. QueueType'
  BY SeqFacts DEF Take, TypeOK, QueueType
<1>2. LoopType'
  BY DEF Take, Goto, TypeOK, LoopType
<1>3. SendType'
  BY DEF Take, SendGoto, TypeOK, SendType
<1>. QED
  BY <1>1, <1>2, <1>3 DEF Take, TypeOK, FieldType, MutexType, ProcType,
     StopType, fields, procVars, stopVars

\* A loop that ends because the queue is closed keeps the types.
LEMMA TypeLoopExit ==
  ASSUME TypeOK, NEW w \in Workers, LoopExit(w)
  PROVE  TypeOK'
<1>1. QueueType'
  BY DEF LoopExit, TypeOK, QueueType
<1>. QED
  BY <1>1 DEF LoopExit, TypeOK, LoopType, SendType, FieldType, MutexType,
     ProcType, StopType, loopVars, sendVars, fields, procVars, stopVars
-----------------------------------------------------------------------------
(* What Pool.Stop and the processes change.                                *)

\* The steps of Pool.Stop: it takes the mutex of a worker, waits for a process of
\* that worker and gives the mutex back.
LEMMA StopFrame ==
  ASSUME StopType, WellFormed, Stop, ~Panic
  PROVE  /\ UNCHANGED <<queue, loopVars, sendVars>>
         /\ cmd' = cmd \/ cmd' = [cmd EXCEPT ![stopAt] = Nil]
         /\ read' = read \/ read' = [read EXCEPT ![stopAt] = Nil]
         /\ write' = write \/ write' = [write EXCEPT ![stopAt] = Nil]
         /\ \/ /\ <<stop, stop'>> \in
                    {<<"none", "next">>, <<"next", "stopped">>, <<"check", "write">>}
               /\ UNCHANGED <<mu, stopAt, waits>>
            \/ /\ stop = "next" /\ stop' = "check" /\ UNCHANGED waits
               /\ \E w \in Workers :
                    mu[w] = Nil /\ mu' = [mu EXCEPT ![w] = Stopper] /\ stopAt' = w
            \/ /\ stop = "write" /\ stop' = "flush" /\ UNCHANGED <<mu, stopAt>>
               /\ waits' = write[stopAt] /\ waits' # Nil
            \/ /\ stop = "flush" /\ stop' = "wait" /\ UNCHANGED <<mu, stopAt>>
               /\ waits' = Nil
            \/ /\ stop = "wait" /\ stop' = "reap" /\ UNCHANGED <<mu, stopAt>>
               /\ waits' = cmd[stopAt] /\ waits' # Nil
            \/ /\ stop \in {"check", "flush", "reap"} /\ stop' = "next" /\ UNCHANGED stopAt
               /\ waits' = Nil /\ mu' = [mu EXCEPT ![stopAt] = Nil]
<1>1. CASE StopClose
  BY <1>1 DEF StopClose, fields
<1>2. CASE StopNext
  <2>1. UNCHANGED <<queue, loopVars, sendVars, fields, waits>> /\ stop = "next"
    BY <1>2 DEF StopNext, queueVars
  <2>2. \/ stop' = "stopped" /\ UNCHANGED <<mu, stopAt>>
        \/ /\ stop' = "check"
           /\ \E w \in Workers :
                mu[w] = Nil /\ mu' = [mu EXCEPT ![w] = Stopper] /\ stopAt' = w
    BY <1>2 DEF StopNext, StopType
  <2>. QED
    BY <2>1, <2>2 DEF fields
<1>3. CASE StopCheck
  <2>1. UNCHANGED <<queue, loopVars, sendVars, fields, waits, stopAt>> /\ stop = "check"
    BY <1>3 DEF StopCheck, queueVars
  <2>2. StopUnlock \/ (stop' = "write" /\ UNCHANGED mu)
    BY <1>3 DEF StopCheck
  <2>3. waits = Nil
    BY <2>1 DEF WellFormed, StopWell
  <2>. QED
    BY <2>1, <2>2, <2>3 DEF fields, StopUnlock
<1>a. CASE StopWrite
  <2>1. UNCHANGED <<queue, loopVars, sendVars, fields, mu, stopAt>>
    BY <1>a DEF StopWrite, queueVars
  <2>2. stop = "write" /\ stop' = "flush" /\ waits' = write[stopAt] /\ waits' # Nil
    BY <1>a DEF StopWrite
  <2>. QED
    BY <2>1, <2>2 DEF fields
<1>b. CASE StopFlush
  <2>1. UNCHANGED <<queue, loopVars, sendVars, fields, stopAt>> /\ stop = "flush"
    BY <1>b DEF StopFlush, queueVars
  <2>2. waits' = Nil /\ (StopUnlock \/ (stop' = "wait" /\ UNCHANGED mu))
    BY <1>b DEF StopFlush
  <2>. QED
    BY <2>1, <2>2 DEF fields, StopUnlock
<1>4. CASE StopWait
  <2>1. UNCHANGED <<queue, loopVars, sendVars, fields, mu, stopAt>>
    BY <1>4 DEF StopWait, queueVars
  <2>2. stop = "wait" /\ stop' = "reap" /\ waits' = cmd[stopAt] /\ waits' # Nil
    BY <1>4 DEF StopWait
  <2>. QED
    BY <2>1, <2>2 DEF fields
<1>5. CASE StopReap
  <2>1. UNCHANGED <<queue, loopVars, sendVars, stopAt>>
    BY <1>5 DEF StopReap, queueVars
  <2>2. stop = "reap" /\ StopUnlock /\ waits' = Nil
    BY <1>5 DEF StopReap
  <2>3. \/ UNCHANGED fields
        \/ /\ cmd' = [cmd EXCEPT ![stopAt] = Nil]
           /\ read' = [read EXCEPT ![stopAt] = Nil]
           /\ write' = [write EXCEPT ![stopAt] = Nil]
    BY <1>5 DEF StopReap
  <2>. QED
    BY <2>1, <2>2, <2>3 DEF fields, StopUnlock
<1>. QED
  BY <1>1, <1>2, <1>3, <1>a, <1>b, <1>4, <1>5 DEF Stop

\* Processes only touch processes and pipes.
LEMMA ProcessFrame ==
  ASSUME NEW p, Process(p)
  PROVE  UNCHANGED <<queueVars, loopVars, sendVars, fields, mu, stopVars>>
  BY DEF Process, ProcStray, ProcReady, ProcHandle, ProcDie

\* A step is a panic, which changes nothing but crashed, or one of these.
LEMMA NextCases ==
  ASSUME Next
  PROVE  \/ Panic
         \/ /\ ~Panic
            /\ \/ \E j \in Jobs : Submit(j) \/ Loop(j) \/ Sender(j)
               \/ \E w \in Workers : LoopExit(w) \/ \E j \in Jobs : Take(w, j)
               \/ \E p \in Procs : Process(p)
               \/ Stop
  BY DEF Next
-----------------------------------------------------------------------------
(* Every step keeps the types.                                             *)

\* Every step of the pool keeps the types, if goroutines have what they work on
\* (WellFormed): a Tail needs a pipe, a field update needs a worker.
THEOREM TypeStep ==
  ASSUME TypeOK, WellFormed, [Next]_vars
  PROVE  TypeOK'
<1>1. CASE UNCHANGED vars
  BY <1>1 DEF vars, TypeOK, QueueType, LoopType, SendType, FieldType, MutexType,
     ProcType, StopType, queueVars, loopVars, sendVars, fields, procVars, stopVars
<1>2. CASE Panic
  BY <1>2, PanicType
<1>3. CASE \E j \in Jobs : Loop(j)
  BY <1>3, TypeLoop
<1>4. CASE \E j \in Jobs : Sender(j)
  BY <1>4, TypeSender
<1>5. CASE \E p \in Procs : Process(p)
  BY <1>5, TypeProcess
<1>6. CASE Stop
  BY <1>6, TypeStop
<1>7. CASE ~Panic /\ \E j \in Jobs : Submit(j)
  BY <1>7, TypeSubmit
<1>8. CASE \E w \in Workers : LoopExit(w)
  BY <1>8, TypeLoopExit
<1>9. CASE \E w \in Workers, j \in Jobs : Take(w, j)
  BY <1>9, TypeTake
<1>. QED
  BY <1>1, <1>2, <1>3, <1>4, <1>5, <1>6, <1>7, <1>8, <1>9, NextCases
-----------------------------------------------------------------------------
(* Every step keeps jobs in one place.                                     *)

\* What Submit and Take do with the queue and the job.
LEMMA SubmitFrame ==
  ASSUME NEW j \in Jobs, Submit(j), ~Panic
  PROVE  /\ loop[j] = "new" /\ loop' = [loop EXCEPT ![j] = "queued"]
         /\ queue' = Append(queue, j)
         /\ UNCHANGED <<owner, target, sendVars, fields, mu, stopVars>>
  BY DEF Submit, Goto

\* What a loop that takes a job does with the queue and the job.
LEMMA TakeFrame ==
  ASSUME NEW w \in Workers, NEW j \in Jobs, Take(w, j)
  PROVE  /\ queue # <<>> /\ j = Head(queue) /\ queue' = Tail(queue)
         /\ owner' = [owner EXCEPT ![j] = w]
         /\ loop' = [loop EXCEPT ![j] = "select"]
         /\ send' = [send EXCEPT ![j] = "lock"]
         /\ UNCHANGED <<target, pipe, fields, mu, stopVars>>
  BY DEF Take, Goto, SendGoto

\* The first job of the queue is queued, and what is behind it is not that job.
LEMMA QueueFacts ==
  ASSUME QueueType, QueueWell, queue # <<>>
  PROVE  /\ loop[Head(queue)] = "queued"
         /\ Tail(queue) \in Seq(Jobs)
         /\ \A i \in DOMAIN Tail(queue) :
              /\ i \in Nat /\ i + 1 \in DOMAIN queue
              /\ Tail(queue)[i] = queue[i + 1]
              /\ Tail(queue)[i] # Head(queue)
<1>1. /\ queue \in Seq(Jobs) /\ Len(queue) \in Nat /\ 1 \in DOMAIN queue
      /\ DOMAIN queue = 1 .. Len(queue) /\ Head(queue) = queue[1]
  BY DEF QueueType
<1>2. /\ Tail(queue) \in Seq(Jobs) /\ Len(Tail(queue)) = Len(queue) - 1
      /\ DOMAIN Tail(queue) = 1 .. Len(Tail(queue))
      /\ \A i \in 1 .. Len(Tail(queue)) : Tail(queue)[i] = queue[i + 1]
  BY <1>1, HeadTailProperties
<1>3. \A i \in DOMAIN Tail(queue) : i \in Nat /\ i + 1 \in DOMAIN queue /\ i + 1 # 1
  BY <1>1, <1>2
<1>4. \A i \in DOMAIN Tail(queue) : queue[i + 1] # queue[1]
  BY <1>1, <1>3 DEF QueueWell
<1>. QED
  BY <1>1, <1>2, <1>3, <1>4 DEF QueueWell

\* Pool.Send puts a job into the queue that was not there.
LEMMA QueueWellSubmit ==
  ASSUME QueueType, LoopType, QueueWell, NEW j \in Jobs, Submit(j), ~Panic
  PROVE  QueueWell'
<1>1. /\ loop[j] = "new" /\ loop' = [loop EXCEPT ![j] = "queued"]
      /\ queue' = Append(queue, j)
  BY SubmitFrame
<1>2. /\ queue \in Seq(Jobs) /\ Len(queue) \in Nat
      /\ \A i \in DOMAIN queue : queue[i] \in Jobs
      /\ DOMAIN queue = 1 .. Len(queue)
  BY DEF QueueType
<1>3. /\ DOMAIN queue' = 1 .. Len(queue) + 1
      /\ \A i \in 1 .. Len(queue) : queue'[i] = queue[i]
      /\ queue'[Len(queue) + 1] = j
  BY <1>1, <1>2, AppendProperties
<1>4. \A i \in 1 .. Len(queue) : queue[i] # j /\ loop'[queue[i]] = "queued"
  BY <1>1, <1>2 DEF QueueWell, LoopType
<1>5. \A i \in DOMAIN queue' : loop'[queue'[i]] = "queued"
  BY <1>1, <1>2, <1>3, <1>4 DEF LoopType
<1>6. \A i, k \in DOMAIN queue' : queue'[i] = queue'[k] => i = k
  <2>. SUFFICES ASSUME NEW i \in DOMAIN queue', NEW k \in DOMAIN queue',
                       queue'[i] = queue'[k]
                PROVE  i = k
    OBVIOUS
  <2>1. CASE i \in 1 .. Len(queue) /\ k \in 1 .. Len(queue)
    BY <1>2, <1>3, <2>1 DEF QueueWell
  <2>2. CASE ~(i \in 1 .. Len(queue) /\ k \in 1 .. Len(queue))
    BY <1>2, <1>3, <1>4, <2>2
  <2>. QED
    BY <2>1, <2>2
<1>. QED
  BY <1>5, <1>6 DEF QueueWell

\* A job that is taken is not in the queue any more.
LEMMA QueueWellTake ==
  ASSUME QueueType, LoopType, QueueWell, NEW w \in Workers, NEW j \in Jobs, Take(w, j)
  PROVE  QueueWell'
<1>1. /\ queue # <<>> /\ j = Head(queue) /\ queue' = Tail(queue)
      /\ loop' = [loop EXCEPT ![j] = "select"]
  BY TakeFrame
<1>2. \A i \in DOMAIN queue' : /\ i \in Nat /\ i + 1 \in DOMAIN queue
                               /\ queue'[i] = queue[i + 1] /\ queue'[i] # j
  BY <1>1, QueueFacts
<1>3. \A i \in DOMAIN queue' : loop'[queue'[i]] = "queued"
  BY <1>1, <1>2 DEF QueueWell, LoopType
<1>4. \A i, k \in DOMAIN queue' : queue'[i] = queue'[k] => i = k
  <2>. SUFFICES ASSUME NEW i \in DOMAIN queue', NEW k \in DOMAIN queue',
                       queue'[i] = queue'[k]
                PROVE  i = k
    OBVIOUS
  <2>1. i + 1 = k + 1
    BY <1>2 DEF QueueWell
  <2>. QED
    BY <1>2, <2>1
<1>. QED
  BY <1>3, <1>4 DEF QueueWell

\* A goroutine of a job that is not in the queue leaves the queue alone.
LEMMA QueueWellFrame ==
  ASSUME QueueType, QueueWell, UNCHANGED queue, NEW j \in Jobs,
         loop[j] # "queued", \A k \in Jobs \ {j} : loop'[k] = loop[k]
  PROVE  QueueWell'
  BY DEF QueueType, QueueWell

\* Every step of the pool keeps jobs in one place and leaves no goroutine waiting
\* on a process it does not have.
THEOREM WellFormedStep ==
  ASSUME TypeOK, WellFormed, [Next]_vars
  PROVE  WellFormed'
<1>0. /\ QueueType /\ LoopType /\ SendType /\ StopType
      /\ QueueWell /\ StopWell /\ \A j \in Jobs : JobWell(j)
  BY DEF TypeOK, WellFormed
<1>1. CASE UNCHANGED <<queue, loopVars, sendVars, stopVars>>
  BY <1>0, <1>1 DEF WellFormed, QueueWell, JobWell, StopWell, loopVars, sendVars,
     stopVars
<1>2. CASE UNCHANGED vars \/ Panic \/ \E p \in Procs : Process(p)
  BY <1>1, <1>2, ProcessFrame DEF vars, Panic, queueVars
<1>3. CASE \E w \in Workers : LoopExit(w)
  BY <1>1, <1>3 DEF LoopExit
<1>4. ASSUME ~Panic, NEW j \in Jobs, Submit(j) PROVE WellFormed'
  <2>1. /\ loop[j] = "new" /\ loop' = [loop EXCEPT ![j] = "queued"]
        /\ UNCHANGED <<owner, target, send, pipe, stop, stopAt, waits>>
    BY <1>4, SubmitFrame DEF sendVars, stopVars
  <2>2. \A k \in Jobs : JobWell(k)'
    BY <1>0, <2>1 DEF JobWell, LoopType
  <2>3. StopWell'
    BY <1>0, <2>1 DEF StopWell
  <2>. QED
    BY <1>0, <1>4, <2>2, <2>3, QueueWellSubmit DEF WellFormed
<1>5. ASSUME NEW w \in Workers, NEW j \in Jobs, Take(w, j) PROVE WellFormed'
  <2>1. /\ owner' = [owner EXCEPT ![j] = w]
        /\ loop' = [loop EXCEPT ![j] = "select"]
        /\ send' = [send EXCEPT ![j] = "lock"]
        /\ UNCHANGED <<target, pipe, stop, stopAt, waits>>
    BY <1>5, TakeFrame DEF stopVars
  <2>2. w # Nil
    BY PoolAssumption
  <2>3. \A k \in Jobs : JobWell(k)'
    BY <1>0, <2>1, <2>2 DEF JobWell, LoopType, SendType
  <2>4. StopWell'
    BY <1>0, <2>1 DEF StopWell
  <2>. QED
    BY <1>0, <1>5, <2>3, <2>4, QueueWellTake DEF WellFormed
<1>6. ASSUME ~Panic, NEW j \in Jobs, Loop(j) PROVE WellFormed'
  <2>1. /\ UNCHANGED <<queue, owner, pipe, stop, stopAt, waits>>
        /\ loop[j] \notin {"new", "queued"}
    BY <1>0, <1>6, LoopFrame
  <2>2. /\ \A k \in Jobs \ {j} : loop'[k] = loop[k]
        /\ loop'[j] \notin {"new", "queued"}
        /\ loop'[j] \in {"reap", "line", "drain"} => target'[j] # Nil
    <3>0. UNCHANGED <<loop, target>> \/ \E l : Moves(j, l)
      BY <1>0, <1>6, LoopFrame
    <3>1. CASE UNCHANGED <<loop, target>>
      BY <1>0, <2>1, <3>1 DEF JobWell
    <3>2. CASE \E l : Moves(j, l)
      <4>1. PICK l : Moves(j, l)
        BY <3>2
      <4>. QED
        BY <1>0, <4>1 DEF LoopType, Moves
    <3>. QED
      BY <3>0, <3>1, <3>2
  <2>3. \A k \in Jobs \ {j} : target'[k] = target[k]
    <3>1. target' = target \/ \E p : target' = [target EXCEPT ![j] = p]
      BY <1>0, <1>6, LoopFrame
    <3>. QED
      BY <1>0, <3>1 DEF LoopType
  <2>4. /\ \A k \in Jobs \ {j} : send'[k] = send[k]
        /\ send'[j] \in {"length", "copy"} => pipe'[j] # Nil
    <3>1. \/ send' = send
          \/ send[j] = "result" /\ send' = [send EXCEPT ![j] = "gone"]
      BY <1>0, <1>6, LoopFrame
    <3>. QED
      BY <1>0, <2>1, <3>1 DEF SendType, JobWell
  <2>5. QueueWell'
    BY <1>0, <2>1, <2>2, QueueWellFrame
  <2>6. \A k \in Jobs \ {j} : JobWell(k)'
    BY <1>0, <2>1, <2>2, <2>3, <2>4 DEF JobWell
  <2>7. owner[j] # Nil /\ JobWell(j)'
    BY <1>0, <2>1, <2>2, <2>4 DEF JobWell
  <2>8. StopWell'
    BY <1>0, <2>1 DEF StopWell
  <2>. QED
    BY <2>5, <2>6, <2>7, <2>8 DEF WellFormed
<1>7. ASSUME ~Panic, NEW j \in Jobs, Sender(j) PROVE WellFormed'
  <2>1. /\ UNCHANGED <<queue, owner, loop, target, stop, stopAt, waits>>
        /\ send[j] # "none"
        /\ pipe' = pipe \/ \E p : pipe' = [pipe EXCEPT ![j] = p]
        /\ \E l : send' = [send EXCEPT ![j] = l] /\ l # "none"
        /\ send'[j] \in {"length", "copy"} => pipe'[j] # Nil
    BY <1>0, <1>7, SenderFrame DEF loopVars, stopVars, WellFormed, Inside
  <2>2. QueueWell' /\ StopWell'
    BY <1>0, <2>1 DEF QueueWell, StopWell
  <2>3. owner[j] # Nil
    BY <1>0, <2>1 DEF JobWell
  <2>4. JobWell(j)'
    BY <1>0, <2>1, <2>3 DEF JobWell
  <2>5. \A k \in Jobs \ {j} : send'[k] = send[k] /\ pipe'[k] = pipe[k]
    BY <1>0, <2>1 DEF SendType
  <2>6. \A k \in Jobs \ {j} : JobWell(k)'
    BY <1>0, <2>1, <2>5 DEF JobWell
  <2>. QED
    BY <2>2, <2>4, <2>6 DEF WellFormed
<1>8. CASE ~Panic /\ Stop
  <2>1. UNCHANGED <<queue, loopVars, sendVars>>
    BY <1>0, <1>8, StopFrame DEF WellFormed
  <2>2. StopWell'
    <3>1. \/ /\ <<stop, stop'>> \in
                  {<<"none", "next">>, <<"next", "stopped">>, <<"check", "write">>}
             /\ UNCHANGED <<stopAt, waits>>
          \/ /\ stop = "next" /\ stop' = "check" /\ UNCHANGED waits
             /\ stopAt' \in Workers
          \/ /\ <<stop, stop'>> \in {<<"write", "flush">>, <<"wait", "reap">>}
             /\ UNCHANGED stopAt /\ waits' # Nil
          \/ /\ stop = "flush" /\ stop' = "wait" /\ UNCHANGED stopAt
             /\ waits' = Nil
          \/ /\ stop \in {"check", "flush", "reap"} /\ stop' = "next" /\ UNCHANGED stopAt
             /\ waits' = Nil
      BY <1>0, <1>8, StopFrame, WellFormed
    <3>. QED
      BY <1>0, <3>1, PoolAssumption DEF StopWell, Stopping
  <2>3. QueueWell' /\ \A k \in Jobs : JobWell(k)'
    BY <1>0, <2>1 DEF QueueWell, JobWell, loopVars, sendVars
  <2>. QED
    BY <2>2, <2>3 DEF WellFormed
<1>. QED
  BY <1>2, <1>3, <1>4, <1>5, <1>6, <1>7, <1>8, NextCases
-----------------------------------------------------------------------------
(* The mutexes.                                                            *)

\* OneSender, one job and one worker at a time.
Locks ==
  \A w \in Workers :
    /\ \A j \in Jobs : (owner[j] = w /\ send[j] \in Inside) <=> mu[w] = j
    /\ InStop(w) <=> mu[w] = Stopper

\* Locks is another way to say OneSender.
LEMMA OneSenderLocks == OneSender <=> Locks
<1>1. \A w : InSend(w) = {j \in Jobs : owner[j] = w /\ send[j] \in Inside}
  BY DEF InSend, Inside
<1>2. ASSUME OneSender PROVE Locks
  BY <1>1, <1>2 DEF OneSender, Locks
<1>3. ASSUME Locks PROVE OneSender
  BY <1>1, <1>3 DEF OneSender, Locks
<1>. QED
  BY <1>2, <1>3

\* Nobody who can hold a mutex is Nil, and Pool.Stop is not a job.
LEMMA Holders == Nil \notin Jobs /\ Stopper \notin Jobs /\ Nil # Stopper
  BY PoolAssumption

\* Every step keeps the mutexes: the lock in send and the deferred unlock, Worker.Stop
\* with its own, and the restarts, which touch no mutex.
LEMMA LocksStep ==
  ASSUME TypeOK, WellFormed, Locks, [Next]_vars
  PROVE  Locks'
<1>0. /\ LoopType /\ SendType /\ StopType /\ MutexType
      /\ StopWell /\ \A j \in Jobs : JobWell(j)
  BY DEF TypeOK, WellFormed
<1>1. CASE UNCHANGED <<owner, send, mu, stop, stopAt>>
  BY <1>1 DEF Locks, InStop
<1>2. CASE UNCHANGED vars \/ Panic \/ \E p \in Procs : Process(p)
  BY <1>1, <1>2, ProcessFrame DEF vars, Panic, loopVars, sendVars, stopVars
<1>3. CASE \E w \in Workers : LoopExit(w)
  BY <1>1, <1>3 DEF LoopExit, loopVars, sendVars, stopVars
<1>4. CASE ~Panic /\ \E j \in Jobs : Submit(j)
  BY <1>1, <1>4, SubmitFrame DEF sendVars, stopVars
<1>5. ASSUME NEW v \in Workers, NEW j \in Jobs, Take(v, j) PROVE Locks'
  <2>1. /\ owner' = [owner EXCEPT ![j] = v]
        /\ send' = [send EXCEPT ![j] = "lock"]
        /\ UNCHANGED <<mu, stop, stopAt>>
    BY <1>5, TakeFrame DEF stopVars
  <2>2. owner[j] = Nil
    <3>1. queue # <<>> /\ j = Head(queue) /\ QueueType /\ QueueWell
      BY <1>5, TakeFrame DEF TypeOK, WellFormed
    <3>. QED
      BY <1>0, <3>1, QueueFacts DEF JobWell
  <2>3. send'[j] \notin Inside
    BY <1>0, <2>1 DEF SendType, Inside
  <2>4. \A w \in Workers : mu[w] # j
    BY <2>2, PoolAssumption DEF Locks
  <2>5. \A k \in Jobs \ {j} : owner'[k] = owner[k] /\ send'[k] = send[k]
    BY <1>0, <2>1 DEF LoopType, SendType
  <2>. QED
    BY <2>1, <2>3, <2>4, <2>5 DEF Locks, InStop
<1>6. ASSUME ~Panic, NEW j \in Jobs, Loop(j) PROVE Locks'
  <2>1. /\ UNCHANGED <<owner, mu, stop, stopAt>>
        /\ \/ send' = send
           \/ send[j] = "result" /\ send' = [send EXCEPT ![j] = "gone"]
    BY <1>0, <1>6, LoopFrame
  <2>2. \A k \in Jobs : send'[k] \in Inside <=> send[k] \in Inside
    BY <1>0, <2>1 DEF SendType, Inside
  <2>. QED
    BY <2>1, <2>2 DEF Locks, InStop
<1>7. ASSUME ~Panic, NEW j \in Jobs, Sender(j) PROVE Locks'
  <2>1. UNCHANGED <<owner, stop, stopAt>> /\ send[j] # "none"
    BY <1>0, <1>7, SenderFrame DEF loopVars, stopVars
  <2>2. owner[j] \in Workers
    BY <1>0, <2>1, Owned
  <2>3. \A w \in Workers : InStop(w)' <=> InStop(w)
    BY <2>1 DEF InStop
  <2>4. CASE /\ send[j] = "lock" /\ send' = [send EXCEPT ![j] = "write"]
             /\ mu[owner[j]] = Nil /\ mu' = [mu EXCEPT ![owner[j]] = j]
    <3>1. /\ send'[j] \in Inside /\ send[j] \notin Inside
          /\ \A k \in Jobs \ {j} : send'[k] = send[k]
      BY <1>0, <2>4 DEF SendType, Inside
    <3>2. /\ mu'[owner[j]] = j
          /\ \A w \in Workers \ {owner[j]} : mu'[w] = mu[w]
      BY <1>0, <2>2, <2>4 DEF MutexType
    <3>. QED
      BY <2>1, <2>2, <2>3, <2>4, <3>1, <3>2, Holders DEF Locks
  <2>5. CASE /\ send[j] \in Inside /\ UNCHANGED mu
             /\ \E l \in Inside : send' = [send EXCEPT ![j] = l]
    <3>1. \A k \in Jobs : send'[k] \in Inside <=> send[k] \in Inside
      BY <1>0, <2>5 DEF SendType
    <3>. QED
      BY <2>1, <2>3, <2>5, <3>1 DEF Locks
  <2>6. CASE /\ send[j] \in Inside /\ send' = [send EXCEPT ![j] = "result"]
             /\ mu' = [mu EXCEPT ![owner[j]] = Nil]
    <3>1. /\ send'[j] \notin Inside
          /\ \A k \in Jobs \ {j} : send'[k] = send[k]
      BY <1>0, <2>6 DEF SendType, Inside
    <3>2. /\ mu[owner[j]] = j /\ mu'[owner[j]] = Nil
          /\ \A w \in Workers \ {owner[j]} : mu'[w] = mu[w]
      BY <1>0, <2>2, <2>6 DEF MutexType, Locks
    <3>. QED
      BY <2>1, <2>2, <2>3, <3>1, <3>2, Holders DEF Locks
  <2>. QED
    BY <1>0, <1>7, <2>4, <2>5, <2>6, SenderFrame
<1>8. CASE ~Panic /\ Stop
  <2>1. UNCHANGED <<owner, send>>
    BY <1>0, <1>8, StopFrame DEF loopVars, sendVars
  <2>2. CASE /\ <<stop, stop'>> \in
                  {<<"none", "next">>, <<"next", "stopped">>, <<"check", "write">>}
             /\ UNCHANGED <<mu, stopAt>>
    BY <2>1, <2>2 DEF Locks, InStop, Stopping
  <2>3. ASSUME stop = "next", stop' = "check", NEW v \in Workers,
               mu[v] = Nil, mu' = [mu EXCEPT ![v] = Stopper], stopAt' = v
        PROVE  Locks'
    <3>1. /\ mu'[v] = Stopper
          /\ \A w \in Workers \ {v} : mu'[w] = mu[w]
      BY <1>0, <2>3 DEF MutexType
    <3>2. \A w \in Workers : mu[w] # Stopper
      BY <2>3 DEF Locks, InStop, Stopping
    <3>. QED
      BY <2>1, <2>3, <3>1, <3>2, Holders DEF Locks, InStop, Stopping
  <2>4. CASE /\ <<stop, stop'>> \in
                  {<<"write", "flush">>, <<"flush", "wait">>, <<"wait", "reap">>}
             /\ UNCHANGED <<mu, stopAt>>
    BY <2>1, <2>4 DEF Locks, InStop, Stopping
  <2>5. CASE /\ stop \in {"check", "flush", "reap"} /\ stop' = "next" /\ UNCHANGED stopAt
             /\ mu' = [mu EXCEPT ![stopAt] = Nil]
    <3>1. stopAt \in Workers
      BY <1>0, <2>5 DEF StopWell, Stopping, StopType
    <3>2. /\ mu[stopAt] = Stopper /\ mu'[stopAt] = Nil
          /\ \A w \in Workers \ {stopAt} : mu'[w] = mu[w] /\ mu[w] # Stopper
      BY <1>0, <2>5, <3>1 DEF MutexType, Locks, InStop, Stopping
    <3>. QED
      BY <2>1, <2>5, <3>1, <3>2, Holders DEF Locks, InStop, Stopping
  <2>. QED
    BY <1>0, <1>8, <2>2, <2>3, <2>4, <2>5, StopFrame
<1>. QED
  BY <1>2, <1>3, <1>4, <1>5, <1>6, <1>7, <1>8, NextCases
-----------------------------------------------------------------------------
(* The workers apart.                                                      *)

\* The three parts of Isolation for sets of processes that only grow.
Owns(w, p) == p = Nil \/ p = w \/ (p \in Jobs /\ owner[p] = w)

IsolationPoints ==
  /\ \A w \in Workers : Owns(w, cmd[w]) /\ Owns(w, read[w]) /\ Owns(w, write[w])
  /\ \A j \in Jobs : owner[j] # Nil =>
       Owns(owner[j], target[j]) /\ Owns(owner[j], pipe[j])
  /\ stopAt # Nil => Owns(stopAt, waits)

\* IsolationPoints is another way to say Isolation.
LEMMA IsolationByPoints == Isolation <=> IsolationPoints
<1>1. \A w, p : p \in ProcsOf(w) \cup {Nil} <=> Owns(w, p)
  BY DEF ProcsOf, Owns
<1>. QED
  BY <1>1 DEF Isolation, IsolationPoints

\* Every step keeps the workers apart: Restart and Start write the fields of their
\* own worker only, and send and Stop load from the fields of theirs.
LEMMA IsolationStep ==
  ASSUME TypeOK, WellFormed, IsolationPoints, [Next]_vars
  PROVE  IsolationPoints'
<1>0. /\ LoopType /\ SendType /\ StopType /\ FieldType
      /\ StopWell /\ \A j \in Jobs : JobWell(j)
  BY DEF TypeOK, WellFormed
<1>1. CASE UNCHANGED <<owner, target, pipe, fields, stopAt, waits>>
  BY <1>1 DEF IsolationPoints, Owns, fields
<1>2. CASE UNCHANGED vars \/ Panic \/ \E p \in Procs : Process(p)
  BY <1>1, <1>2, ProcessFrame DEF vars, Panic, loopVars, sendVars, stopVars
<1>3. CASE \E w \in Workers : LoopExit(w)
  BY <1>1, <1>3 DEF LoopExit, loopVars, sendVars, stopVars
<1>4. CASE ~Panic /\ \E j \in Jobs : Submit(j)
  BY <1>1, <1>4, SubmitFrame DEF sendVars, stopVars
<1>5. ASSUME NEW v \in Workers, NEW j \in Jobs, Take(v, j) PROVE IsolationPoints'
  <2>1. /\ owner' = [owner EXCEPT ![j] = v]
        /\ UNCHANGED <<target, pipe, fields, stopAt, waits>>
    BY <1>5, TakeFrame DEF stopVars
  <2>2. owner[j] = Nil
    <3>1. queue # <<>> /\ j = Head(queue) /\ QueueType /\ QueueWell
      BY <1>5, TakeFrame DEF TypeOK, WellFormed
    <3>. QED
      BY <1>0, <3>1, QueueFacts DEF JobWell
  <2>3. target[j] = Nil /\ pipe[j] = Nil
    BY <1>0, <2>2 DEF JobWell
  <2>4. /\ owner'[j] = v
        /\ \A k \in Jobs \ {j} : owner'[k] = owner[k]
    BY <1>0, <2>1 DEF LoopType
  <2>5. \A w, p : w # Nil /\ Owns(w, p) => Owns(w, p)'
    BY <2>2, <2>4 DEF Owns
  <2>6. \A w \in Workers : w # Nil
    BY PoolAssumption
  <2>7. \A w \in Workers : Owns(w, cmd[w])' /\ Owns(w, read[w])' /\ Owns(w, write[w])'
    BY <2>1, <2>5, <2>6 DEF IsolationPoints, fields, Owns
  <2>8. \A k \in Jobs : owner'[k] # Nil =>
          Owns(owner[k], target[k])' /\ Owns(owner[k], pipe[k])'
    <3>. SUFFICES ASSUME NEW k \in Jobs, owner'[k] # Nil
                  PROVE  Owns(owner[k], target[k])' /\ Owns(owner[k], pipe[k])'
      OBVIOUS
    <3>1. CASE k = j
      BY <2>1, <2>3, <3>1 DEF Owns
    <3>2. CASE k # j
      <4>1. Owns(owner[k], target[k]) /\ Owns(owner[k], pipe[k]) /\ owner[k] # Nil
        BY <2>4, <3>2 DEF IsolationPoints
      <4>. QED
        BY <2>1, <2>4, <2>5, <3>2, <4>1 DEF Owns
    <3>. QED
      BY <3>1, <3>2
  <2>9. stopAt' # Nil => Owns(stopAt, waits)'
    BY <2>1, <2>5 DEF IsolationPoints, Owns
  <2>. QED
    BY <2>7, <2>8, <2>9 DEF IsolationPoints
<1>6. ASSUME ~Panic, NEW j \in Jobs, Loop(j) PROVE IsolationPoints'
  <2>1. UNCHANGED <<owner, pipe, stopAt, waits>>
    BY <1>0, <1>6, LoopFrame
  <2>2. owner[j] \in Workers /\ owner[j] # Nil
    BY <1>0, <1>6, LoopFrame, Owned, PoolAssumption
  <2>3. \A w, p : Owns(w, p)' <=> Owns(w, p)
    BY <2>1 DEF Owns
  <2>4. /\ \A w \in Workers : cmd'[w] = cmd[w] \/ (w = owner[j] /\ cmd'[w] \in {Nil, j})
        /\ \A w \in Workers : read'[w] = read[w] \/ (w = owner[j] /\ read'[w] \in {Nil, j})
        /\ \A w \in Workers :
             write'[w] = write[w] \/ (w = owner[j] /\ write'[w] \in {Nil, j})
    <3>1. cmd' = cmd \/ \E p \in {Nil, j} : cmd' = [cmd EXCEPT ![owner[j]] = p]
      BY <1>6, LoopFields
    <3>2. read' = read \/ \E p \in {Nil, j} : read' = [read EXCEPT ![owner[j]] = p]
      BY <1>6, LoopFields
    <3>3. \/ write' = write
          \/ \E p \in {Nil, j} : write' = [write EXCEPT ![owner[j]] = p]
      BY <1>6, LoopFields
    <3>. QED
      BY <1>0, <3>1, <3>2, <3>3 DEF FieldType
  <2>5. \A w \in Workers : Owns(w, cmd'[w]) /\ Owns(w, read'[w]) /\ Owns(w, write'[w])
    BY <2>4 DEF IsolationPoints, Owns
  <2>6. \A k \in Jobs : owner[k] # Nil => Owns(owner[k], target'[k])
    <3>1. \/ target' = target
          \/ \E p \in {Nil, cmd[owner[j]], read[owner[j]]} :
               target' = [target EXCEPT ![j] = p]
      BY <1>0, <1>6, LoopFrame
    <3>2. /\ \A k \in Jobs \ {j} : target'[k] = target[k]
          /\ target'[j] \in {target[j], Nil, cmd[owner[j]], read[owner[j]]}
      BY <1>0, <3>1 DEF LoopType
    <3>3. Owns(owner[j], target'[j])
      BY <2>2, <3>2 DEF IsolationPoints, Owns
    <3>. QED
      BY <3>2, <3>3 DEF IsolationPoints
  <2>. QED
    BY <2>1, <2>3, <2>5, <2>6 DEF IsolationPoints, Owns
<1>7. ASSUME ~Panic, NEW j \in Jobs, Sender(j) PROVE IsolationPoints'
  <2>1. /\ UNCHANGED <<owner, target, cmd, read, write, stopAt, waits>>
        /\ send[j] # "none"
    BY <1>0, <1>7, SenderFrame DEF loopVars, fields, stopVars
  <2>2. owner[j] \in Workers
    BY <1>0, <2>1, Owned
  <2>3. \/ pipe' = pipe
        \/ \E p \in {Nil, read[owner[j]], write[owner[j]]} :
             pipe' = [pipe EXCEPT ![j] = p]
    BY <1>0, <1>7, SenderFrame
  <2>4. /\ \A k \in Jobs \ {j} : pipe'[k] = pipe[k]
        /\ pipe'[j] \in {pipe[j], Nil, read[owner[j]], write[owner[j]]}
    BY <1>0, <2>3 DEF SendType
  <2>5. owner[j] # Nil => Owns(owner[j], pipe'[j])
    BY <2>2, <2>4 DEF IsolationPoints, Owns
  <2>6. \A k \in Jobs : owner[k] # Nil => Owns(owner[k], pipe'[k])
    BY <2>4, <2>5 DEF IsolationPoints
  <2>. QED
    BY <2>1, <2>6 DEF IsolationPoints, Owns
<1>8. CASE ~Panic /\ Stop
  <2>1. UNCHANGED <<owner, target, pipe>>
    BY <1>0, <1>8, StopFrame DEF loopVars, sendVars
  <2>2. /\ \A w \in Workers : cmd'[w] \in {cmd[w], Nil}
        /\ \A w \in Workers : read'[w] \in {read[w], Nil}
        /\ \A w \in Workers : write'[w] \in {write[w], Nil}
    <3>1. /\ cmd' = cmd \/ cmd' = [cmd EXCEPT ![stopAt] = Nil]
          /\ read' = read \/ read' = [read EXCEPT ![stopAt] = Nil]
          /\ write' = write \/ write' = [write EXCEPT ![stopAt] = Nil]
      BY <1>0, <1>8, StopFrame
    <3>. QED
      BY <1>0, <3>1 DEF FieldType
  <2>3. \A w \in Workers : Owns(w, cmd'[w]) /\ Owns(w, read'[w]) /\ Owns(w, write'[w])
    BY <2>2 DEF IsolationPoints, Owns
  <2>4. stopAt' # Nil => Owns(stopAt', waits')
    <3>1. \/ UNCHANGED <<stopAt, waits>>
          \/ stop = "next" /\ UNCHANGED waits
          \/ stop = "write" /\ UNCHANGED stopAt /\ waits' = write[stopAt]
          \/ stop = "wait" /\ UNCHANGED stopAt /\ waits' = cmd[stopAt]
          \/ waits' = Nil
      BY <1>0, <1>8, StopFrame
    <3>2. stop = "next" => waits = Nil
      BY <1>0 DEF StopWell
    <3>3. stop \in {"write", "wait"} => stopAt \in Workers
      BY <1>0 DEF StopWell, Stopping, StopType
    <3>. QED
      BY <3>1, <3>2, <3>3 DEF IsolationPoints, Owns
  <2>. QED
    BY <2>1, <2>3, <2>4 DEF IsolationPoints, Owns
<1>. QED
  BY <1>2, <1>3, <1>4, <1>5, <1>6, <1>7, <1>8, NextCases
-----------------------------------------------------------------------------
(* The invariant.                                                          *)

\* The inductive invariant.  None of its parts is inductive alone: a type of a
\* goroutine that works on a process needs the process to be there (WellFormed),
\* and who may touch the mutex depends on who has a worker at all.
IInv == TypeOK /\ WellFormed /\ Locks /\ IsolationPoints

\* A pool that has just been started satisfies the invariant.
LEMMA InitIInv == Init => IInv
<1>. SUFFICES ASSUME Init PROVE IInv
  OBVIOUS
<1>0. Nil \notin Workers /\ Nil \notin Jobs /\ Stopper # Nil
  BY PoolAssumption
<1>1. QueueType /\ StopType /\ MutexType /\ crashed \in BOOLEAN
  BY EmptySeq DEF Init, QueueType, StopType, MutexType
<1>2. LoopType /\ SendType
  BY DEF Init, LoopType, SendType, Outcomes
<1>3. FieldType
  BY DEF Init, FieldType, Procs
<1>4. ProcType
  BY EmptySeq DEF Init, ProcType
<1>5. WellFormed
  BY DEF Init, WellFormed, QueueWell, JobWell, StopWell, Stopping
<1>6. Locks
  BY <1>0 DEF Init, Locks, InStop, Stopping, Inside
<1>7. IsolationPoints
  BY DEF Init, IsolationPoints, Owns
<1>. QED
  BY <1>1, <1>2, <1>3, <1>4, <1>5, <1>6, <1>7 DEF IInv, TypeOK

\* Every step of the pool keeps the invariant.
LEMMA NextIInv == IInv /\ [Next]_vars => IInv'
  BY TypeStep, WellFormedStep, LocksStep, IsolationStep DEF IInv

\* The invariant holds in every state of every behaviour of the pool.
LEMMA Invariance == Spec => []IInv
  BY InitIInv, NextIInv, PTL DEF Spec

\* Every variable keeps its type.
THEOREM TypeCorrect == Spec => []TypeOK
<1>1. IInv => TypeOK
  BY DEF IInv
<1>. QED
  BY <1>1, Invariance, PTL

\* A job is in one place, and a goroutine that waits on a process has one.
THEOREM AlwaysWellFormed == Spec => []WellFormed
<1>1. IInv => WellFormed
  BY DEF IInv
<1>. QED
  BY <1>1, Invariance, PTL

\* The mutex of a worker keeps its senders and Pool.Stop apart, although the
\* restarts that run beside them take no mutex.
THEOREM OneSenderAlways == Spec => []OneSender
<1>1. IInv => OneSender
  BY OneSenderLocks DEF IInv
<1>. QED
  BY <1>1, Invariance, PTL

\* No goroutine of a worker ever gets at a process of another worker.
THEOREM AlwaysIsolated == Spec => []Isolation
<1>1. IInv => Isolation
  BY IsolationByPoints DEF IInv
<1>. QED
  BY <1>1, Invariance, PTL
=============================================================================
