---------------------- MODULE WorkerPoolServiceProofs ----------------------
(***************************************************************************)
(* WorkerPool implements JobService, for any number of workers and jobs    *)
(* and any number of faults, if PHP programs print nothing but answers.    *)
(*                                                                         *)
(* That every step of the pool is a step of the service, or none, is seen  *)
(* action by action; only the answer that Receive gives needs more: it is  *)
(* the job's own unless its worker has failed twice, or once by a timeout  *)
(* if data may be taken for messages.  TalkInv says what the pipes of any  *)
(* other worker (Sound) hold for whom: of the process it uses nothing, or  *)
(* what one exchange has left there (Settled), of a process that is        *)
(* starting the same behind its "ok" (Young); and a job that its loop      *)
(* still waits for finds there what it asked for (Own).                    *)
(***************************************************************************)
EXTENDS WorkerPoolRestartProofs
-----------------------------------------------------------------------------
(* Pipes.                                                                  *)

\* The pipes of p hold nothing; out is what there is to read.
Blank(p, out) == stdin[p] = <<>> /\ out = <<>>

\* They hold what the send goroutine of j has written or waits for.
Exchange(j, p, out) ==
  \/ /\ send[j] \in {"read", "length"} /\ (send[j] = "length" => pipe[j] = p)
     /\ got[j] = "none"
     /\ \/ stdin[p] = <<Token("msg", j)>> /\ out = <<>>
        \/ ~Frames /\ stdin[p] = <<Token("garbage", j)>> /\ out = <<>>
        \/ stdin[p] = <<>> /\ out \in {<<Token("len", j)>>, Answer(j)}
  \/ /\ send[j] \in {"body", "copy"} /\ (send[j] = "copy" => pipe[j] = p)
     /\ got[j] = j
     /\ stdin[p] = <<>> /\ out = <<Token("body", j)>>

\* They hold what Worker.Stop has written, and it waits for that process.
Quitting(p, out) ==
  /\ stop = "wait" \/ (stop = "reap" /\ waits = p)
  /\ stdin[p] = <<Token("quit", Nil)>> /\ out = <<>>

\* What the pipes hold is nothing, or belongs to the holder of the mutex.
Clear(w, p, out) ==
  \/ Blank(p, out)
  \/ \E j \in Jobs : mu[w] = j /\ Exchange(j, p, out)
  \/ mu[w] = Stopper /\ Quitting(p, out)

\* A worker that is not restarting: its process is gone, or is clear.
Settled(w) ==
  write[w] # Nil =>
    /\ read[w] = write[w] /\ proc[write[w]] \notin {"none", "starting"}
    /\ Down(write[w]) \/ Clear(w, write[w], stdout[write[w]])

\* The process that the restart of f waits for: its "ok" has been read by somebody
\* else, or is yet to come or to be read, before anything else.
NoOk(p) == \A i \in DOMAIN stdout[p] : stdout[p][i].kind # "ok"

Young(w, f) ==
  /\ proc[f] = "starting" =>
       loop[f] \in {"read", "line"} /\ stdout[f] = <<>> /\ Clear(w, f, <<>>)
  /\ proc[f] = "up" =>
       \/ NoOk(f)
       \/ /\ loop[f] \in {"read", "line"} /\ stdout[f] # <<>>
          /\ Head(stdout[f]) = Token("ok", Nil)
          /\ Clear(w, f, Tail(stdout[f]))

\* The send goroutine of k, which its loop still waits for: whatever happens to the
\* process, it reads its own answer, or the end of a part of it.
Own(w, k) ==
  /\ send[k] \in {"flush", "read", "length", "body", "copy"} =>
       write[w] # Nil /\ read[w] = write[w]
  /\ send[k] = "flush" => pipe[k] = write[w]
  /\ send[k] \in {"read", "length"} =>
       /\ got[k] = "none" /\ (send[k] = "length" => pipe[k] = write[w])
       /\ \/ stdin[write[w]] = <<Token("msg", k)>> /\ stdout[write[w]] = <<>>
          \/ /\ stdin[write[w]] = <<>>
             /\ stdout[write[w]] \in {<<>>, <<Token("len", k)>>, Answer(k)}
  /\ send[k] \in {"body", "copy"} =>
       /\ got[k] = k /\ (send[k] = "copy" => pipe[k] = write[w])
       /\ stdin[write[w]] = <<>> /\ stdout[write[w]] \in {<<>>, <<Token("body", k)>>}
  /\ send[k] = "result" => got[k] \in {k, "err"}

Single(w) == Failed(w) = {} \/ \E f \in Jobs : Failed(w) = {f}
Ended(w) == \A f \in Failed(w) : loop[f] \in {"ready", "after", "done"}
Opening == {"read", "line", "other", "drain"}

Talk(w) ==
  /\ Ended(w) => Settled(w)
  /\ \A f \in Failed(w) : loop[f] \in Opening => Young(w, f)
  /\ \A k \in Taken(w) : loop[k] = "select" => Own(w, k)

\* A worker whose pipes are in order.
Sound(w) == Single(w) /\ (Frames => \A f \in Failed(w) : reply[f] # "timeout")

TalkInv == \A w \in Workers : Sound(w) => Talk(w)

\* A send goroutine outlives the wait for its result only after a timeout.
LateInv ==
  \A j \in Jobs : send[j] # "gone" =>
    loop[j] \in {"new", "queued", "select"} \/ reply[j] = "timeout"

\* What a send goroutine has read; and pipes of processes that are not there yet.
GotInv ==
  \A j \in Jobs :
    /\ send[j] \in {"none", "lock", "write", "flush", "read"} => got[j] = "none"
    /\ send[j] \in {"body", "copy"} => got[j] \in Jobs \cup {"mixed"}
    /\ send[j] = "result" => got[j] \in Jobs \cup {"err", "mixed"}

NewInv ==
  \A p \in Procs : proc[p] = "none" =>
    stdin[p] = <<>> /\ stdout[p] = <<>> /\ \A w \in Workers : write[w] # p

\* Sequences of up to three.
LEMMA Tuples ==
  ASSUME NEW x, NEW y
  PROVE  /\ <<x>> # <<>> /\ <<x, y>> # <<>> /\ <<x>> # <<x, y>>
         /\ Append(<<>>, x) = <<x>> /\ <<>> \o <<x, y>> = <<x, y>>
         /\ Head(<<x>>) = x /\ Tail(<<x>>) = <<>>
         /\ Head(<<x, y>>) = x /\ Tail(<<x, y>>) = <<y>>
  OBVIOUS

\* An answer, or its first part, is read part by part.
LEMMA AnswerParts ==
  ASSUME NEW j, NEW s, s \in {<<Token("len", j)>>, Answer(j)}
  PROVE  /\ s # <<>> /\ Head(s) = Token("len", j)
         /\ Tail(s) \in {<<>>, <<Token("body", j)>>}
<1>1. CASE s = <<Token("len", j)>>
  BY <1>1, Tuples
<1>2. CASE s = <<Token("len", j), Token("body", j)>>
  BY <1>2, Tuples
<1>. QED
  BY <1>1, <1>2 DEF Answer

\* What is added at the end leaves the head alone.
LEMMA AddedBehind ==
  ASSUME NEW S, NEW s \in Seq(S), NEW t \in Seq(S), s # <<>>
  PROVE  /\ s \o t # <<>> /\ Head(s \o t) = Head(s) /\ Tail(s \o t) = Tail(s) \o t
<1>1. /\ s \o t \in Seq(S) /\ Len(s \o t) = Len(s) + Len(t) /\ Len(s) \in Nat /\ Len(t) \in Nat
      /\ Len(s) > 0
  BY ConcatProperties, EmptySeq, LenProperties
<1>2. Head(s \o t) = Head(s) /\ s \o t # <<>>
  BY <1>1, ConcatProperties
<1>3. Tail(s \o t) = Tail(s) \o t
  BY <1>1, <1>2, ConcatProperties, HeadTailProperties
<1>. QED
  BY <1>2, <1>3

\* No "ok" comes with the answers, or is left when others are taken.
LEMMA NoOkFacts ==
  ASSUME NEW s \in Seq(Tokens), \A i \in DOMAIN s : s[i].kind # "ok"
  PROVE  /\ s # <<>> => /\ Head(s).kind # "ok"
                        /\ \A i \in DOMAIN Tail(s) : Tail(s)[i].kind # "ok"
         /\ \A j : \A i \in DOMAIN (s \o Answer(j)) : (s \o Answer(j))[i].kind # "ok"
  BY DEF Answer, Token
-----------------------------------------------------------------------------
(* Steps.                                                                  *)

\* A step that leaves the holder of the mutex and the stdin of p.
LEMMA ClearSame ==
  ASSUME NEW w, NEW p, NEW out, Clear(w, p, out), mu'[w] = mu[w], stdin'[p] = stdin[p],
         \A j \in Jobs : mu[w] = j =>
           send'[j] = send[j] /\ pipe'[j] = pipe[j] /\ got'[j] = got[j],
         mu[w] = Stopper => stop' = stop /\ waits' = waits
  PROVE  Clear(w, p, out)'
<1>1. CASE Blank(p, out)
  BY <1>1 DEF Clear, Blank
<1>2. CASE \E j \in Jobs : mu[w] = j /\ Exchange(j, p, out)
  BY <1>2 DEF Clear, Exchange, Answer
<1>3. CASE mu[w] = Stopper /\ Quitting(p, out)
  BY <1>3 DEF Clear, Quitting
<1>. QED
  BY <1>1, <1>2, <1>3 DEF Clear

\* A step that leaves what Own(w, k) is about.
LEMMA OwnSame ==
  ASSUME NEW w, NEW k, Own(w, k), send'[k] = send[k], pipe'[k] = pipe[k], got'[k] = got[k],
         send[k] \in {"flush", "read", "length", "body", "copy"} =>
           /\ read'[w] = read[w] /\ write'[w] = write[w]
           /\ write[w] # Nil => /\ stdin'[write[w]] = stdin[write[w]]
                                /\ stdout'[write[w]] = stdout[write[w]]
  PROVE  Own(w, k)'
<1>1. CASE send[k] \in {"flush", "read", "length", "body", "copy"}
  BY <1>1 DEF Own, Answer
<1>2. CASE send[k] \notin {"flush", "read", "length", "body", "copy"}
  BY <1>2 DEF Own
<1>. QED
  BY <1>1, <1>2

\* A step of others, or of a job loop of w that touches no pipe.
LEMMA TalkSame ==
  ASSUME NEW w \in Workers, Talk(w), Failed(w)' = Failed(w), Ended(w)' => Ended(w),
         \A f \in Failed(w) : loop'[f] \in Opening => loop'[f] = loop[f],
         \A k \in Taken(w)' : loop'[k] = "select" =>
           \/ send'[k] = "lock"
           \/ /\ k \in Taken(w) /\ loop[k] = "select"
              /\ send'[k] = send[k] /\ pipe'[k] = pipe[k] /\ got'[k] = got[k],
         mu'[w] = mu[w], read'[w] = read[w], write'[w] = write[w],
         \A p \in {write[w]} \cup Failed(w) : p # Nil =>
           proc'[p] = proc[p] /\ stdin'[p] = stdin[p] /\ stdout'[p] = stdout[p],
         \A j \in Jobs : mu[w] = j =>
           send'[j] = send[j] /\ pipe'[j] = pipe[j] /\ got'[j] = got[j],
         mu[w] = Stopper => stop' = stop /\ waits' = waits
  PROVE  Talk(w)'
<1>0. Nil \notin Failed(w)
  BY PoolAssumption DEF Failed
<1>1. ASSUME Ended(w)' PROVE Settled(w)'
  <2>. SUFFICES ASSUME write[w] # Nil
                PROVE  /\ read'[w] = write'[w] /\ proc'[write'[w]] \notin {"none", "starting"}
                       /\ Down(write[w])' \/ Clear(w, write[w], stdout[write[w]])'
    BY DEF Settled
  <2>1. /\ read[w] = write[w] /\ proc[write[w]] \notin {"none", "starting"}
        /\ Down(write[w]) \/ Clear(w, write[w], stdout[write[w]])
    BY <1>1 DEF Talk, Settled
  <2>2. /\ proc'[write[w]] = proc[write[w]] /\ stdin'[write[w]] = stdin[write[w]]
        /\ stdout'[write[w]] = stdout[write[w]]
    OBVIOUS
  <2>3. CASE Down(write[w])
    BY <2>1, <2>2, <2>3 DEF Down
  <2>4. CASE Clear(w, write[w], stdout[write[w]])
    <3>. DEFINE p == write[w]  out == stdout[p]
    <3>1. PICK q, o : q = p /\ o = out
      OBVIOUS
    <3>2. Clear(w, q, o)
      BY <2>4, <3>1
    <3>3. Clear(w, q, o)'
      BY <2>2, <3>1, <3>2, ClearSame
    <3>4. q = p' /\ o = out'
      BY <2>2, <3>1
    <3>. QED
      BY <2>1, <2>2, <3>3, <3>4
  <2>. QED
    BY <2>1, <2>3, <2>4
<1>2. ASSUME NEW f \in Failed(w), loop'[f] \in Opening PROVE Young(w, f)'
  <2>1. Young(w, f) /\ loop'[f] = loop[f]
    BY <1>2 DEF Talk
  <2>2. proc'[f] = proc[f] /\ stdin'[f] = stdin[f] /\ stdout'[f] = stdout[f]
    BY <1>0
  <2>3. \A out : Clear(w, f, out) => Clear(w, f, out)'
    BY <2>2, ClearSame
  <2>. QED
    BY <2>1, <2>2, <2>3 DEF Young, NoOk
<1>3. ASSUME NEW k \in Taken(w)', loop'[k] = "select" PROVE Own(w, k)'
  <2>1. CASE send'[k] = "lock"
    BY <2>1 DEF Own
  <2>2. CASE send'[k] # "lock"
    <3>1. Own(w, k)
      BY <1>3, <2>2 DEF Talk
    <3>. QED
      BY <1>3, <2>2, <3>1, OwnSame
  <2>. QED
    BY <2>1, <2>2
<1>. QED
  BY <1>1, <1>2, <1>3 DEF Talk

\* What a send goroutine changes: its own variables, and the mutex of its worker.
LEMMA SenderOthers ==
  ASSUME TypeOK, WellFormed, Locks, NEW j \in Jobs, Sender(j), ~Panic
  PROVE  /\ UNCHANGED <<queueVars, loopVars, fields, proc, stopVars>>
         /\ owner[j] \in Workers
         /\ \A k \in Jobs \ {j} :
              /\ send'[k] = send[k] /\ pipe'[k] = pipe[k] /\ got'[k] = got[k]
              /\ owner[k] = owner[j] => send[k] \notin Inside
         /\ \A w \in Workers \ {owner[j]} : mu'[w] = mu[w] /\ mu[w] # j
         /\ (send[j] \in Inside /\ mu[owner[j]] = j) \/ (send[j] = "lock" /\ mu[owner[j]] = Nil)
<1>0. /\ send \in [Jobs -> {"none", "lock", "write", "flush", "read", "length",
                            "body", "copy", "result", "gone"}]
      /\ pipe \in [Jobs -> Procs \cup {Nil}] /\ got \in [Jobs -> Outcomes \cup Jobs]
      /\ mu \in [Workers -> Jobs \cup {Stopper, Nil}]
  BY DEF TypeOK, SendType, MutexType
<1>1. /\ UNCHANGED <<queueVars, loopVars, fields, proc, stopVars>>
      /\ \E l : send' = [send EXCEPT ![j] = l]
      /\ pipe' = pipe \/ \E q : pipe' = [pipe EXCEPT ![j] = q]
      /\ got' = got \/ \E r : got' = [got EXCEPT ![j] = r]
      /\ mu' = mu \/ \E h : mu' = [mu EXCEPT ![owner[j]] = h]
      /\ send[j] \in Inside \/ (send[j] = "lock" /\ mu[owner[j]] = Nil)
  <2>1. UNCHANGED <<queueVars, proc>>
    BY DEF Sender, SendLock, SendWrite, SendFlush, SendRead, SendLength, SendBody, SendCopy,
       queueVars, procVars
  <2>2. got' = got \/ \E r : got' = [got EXCEPT ![j] = r]
    <3>1. CASE SendLock(j) \/ SendWrite(j) \/ SendFlush(j) \/ SendRead(j) \/ SendBody(j)
      BY <3>1 DEF SendLock, SendWrite, SendFlush, SendRead, SendBody, Finish
    <3>2. CASE SendLength(j) \/ SendCopy(j)
      BY <3>2 DEF SendLength, SendCopy, Finish
    <3>. QED
      BY <3>1, <3>2 DEF Sender
  <2>3. /\ UNCHANGED <<loopVars, fields, stopVars>>
        /\ pipe' = pipe \/ \E q : pipe' = [pipe EXCEPT ![j] = q]
        /\ \/ /\ send[j] = "lock" /\ send' = [send EXCEPT ![j] = "write"]
              /\ mu[owner[j]] = Nil /\ mu' = [mu EXCEPT ![owner[j]] = j]
           \/ /\ send[j] \in Inside /\ UNCHANGED mu
              /\ \E l \in Inside : send' = [send EXCEPT ![j] = l]
           \/ /\ send[j] \in Inside /\ send' = [send EXCEPT ![j] = "result"]
              /\ mu' = [mu EXCEPT ![owner[j]] = Nil]
    BY SenderFrame DEF TypeOK
  <2>4. \E l : send' = [send EXCEPT ![j] = l]
    BY <2>3
  <2>5. mu' = mu \/ \E h : mu' = [mu EXCEPT ![owner[j]] = h]
    BY <2>3
  <2>6. send[j] \in Inside \/ (send[j] = "lock" /\ mu[owner[j]] = Nil)
    BY <2>3
  <2>. QED
    BY <2>1, <2>2, <2>3, <2>4, <2>5, <2>6, Zenon
<1>2. owner[j] \in Workers
  BY <1>1, Owned DEF TypeOK, Inside
<1>. QED
  BY <1>0, <1>1, <1>2, Holders DEF Locks

\* Of the process that both fields name, a send goroutine that neither reads a line
\* nor a body keeps the pipes clear.
LEMMA SenderClear ==
  ASSUME TypeOK, WellFormed, Locks, GotInv, NEW j \in Jobs, ~Panic,
         SendLock(j) \/ SendWrite(j) \/ SendFlush(j) \/ SendRead(j) \/ SendBody(j),
         NEW p \in Procs, read[owner[j]] = p, write[owner[j]] = p, ~Down(p),
         NEW out, Clear(owner[j], p, out), Frames /\ send[j] = "flush" => pipe[j] = p
  PROVE  Clear(owner[j], p, out)'
<1>. DEFINE w == owner[j]
<1>0. /\ send \in [Jobs -> {"none", "lock", "write", "flush", "read", "length",
                            "body", "copy", "result", "gone"}]
      /\ pipe \in [Jobs -> Procs \cup {Nil}] /\ got \in [Jobs -> Outcomes \cup Jobs]
      /\ mu \in [Workers -> Jobs \cup {Stopper, Nil}] /\ stdin \in [Procs -> Seq(Tokens)]
      /\ p # Nil /\ Nil \notin Jobs /\ Stopper \notin Jobs /\ Stopper # Nil
  BY PoolAssumption DEF TypeOK, SendType, MutexType, ProcType, Procs
<1>1. /\ w \in Workers /\ UNCHANGED <<owner, stop, waits>>
      /\ (send[j] \in Inside /\ mu[w] = j) \/ (send[j] = "lock" /\ mu[w] = Nil)
  BY SenderOthers DEF Sender, loopVars, stopVars
<1>2. \/ Blank(p, out)
      \/ mu[w] = j /\ Exchange(j, p, out)
  BY <1>0, <1>1 DEF Clear
<1>3. CASE SendLock(j) \/ SendWrite(j)
  <2>1. Blank(p, out) /\ UNCHANGED stdin
    BY <1>0, <1>1, <1>2, <1>3 DEF SendLock, SendWrite, Exchange, procVars
  <2>. QED
    BY <2>1 DEF Clear, Blank
<1>4. CASE SendFlush(j)
  <2>1. /\ Blank(p, out) /\ got[j] = "none" /\ mu[w] = j
    BY <1>0, <1>1, <1>2, <1>4 DEF SendFlush, Exchange, GotInv
  <2>2. /\ \E kind \in {"msg", "garbage"} :
             /\ stdin' = [stdin EXCEPT ![p] = Append(@, Token(kind, j))]
             /\ Frames => kind = "msg"
        /\ UNCHANGED <<got, mu>> /\ send' = [send EXCEPT ![j] = "read"]
    BY <1>0, <1>4 DEF SendFlush, Load, SendGoto
  <2>3. \/ stdin'[p] = <<Token("msg", j)>>
        \/ ~Frames /\ stdin'[p] = <<Token("garbage", j)>>
    BY <1>0, <2>1, <2>2, Tuples DEF Blank
  <2>4. Exchange(j, p, out)'
    BY <1>0, <2>1, <2>2, <2>3 DEF Exchange, Blank
  <2>. QED
    BY <1>1, <2>1, <2>2, <2>4 DEF Clear
<1>5. CASE SendRead(j) \/ SendBody(j)
  <2>1. /\ mu[w] = j /\ UNCHANGED <<stdin, got, mu>> /\ pipe'[j] = p
        /\ \/ send[j] = "read" /\ send'[j] = "length"
           \/ send[j] = "body" /\ send'[j] = "copy"
    BY <1>0, <1>1, <1>5 DEF SendRead, SendBody, Load, SendGoto, procVars
  <2>2. CASE Blank(p, out)
    BY <2>1, <2>2 DEF Clear, Blank
  <2>3. CASE Exchange(j, p, out)
    <3>1. Exchange(j, p, out)'
      BY <2>1, <2>3 DEF Exchange, Answer
    <3>. QED
      BY <1>1, <2>1, <3>1 DEF Clear
  <2>. QED
    BY <1>2, <2>2, <2>3
<1>. QED
  BY <1>3, <1>4, <1>5

\* One that does either takes what is at the head of p's stdout, or reads another
\* pipe while the pipes of p hold nothing.
LEMMA SenderTakes ==
  ASSUME TypeOK, WellFormed, Locks, NEW j \in Jobs, ~Panic, SendLength(j) \/ SendCopy(j),
         NEW p \in Procs, ~Down(p), NEW out, Clear(owner[j], p, out)
  PROVE  /\ UNCHANGED stdin
         /\ \/ pipe[j] # p /\ Blank(p, out) /\ stdout'[p] = stdout[p]
            \/ /\ pipe[j] = p /\ stdout[p] # <<>> /\ stdout'[p] = Tail(stdout[p])
               /\ Blank(p, out) \/ Exchange(j, p, out)
<1>0. /\ stdout \in [Procs -> Seq(Tokens)] /\ Stopper \notin Jobs
  BY PoolAssumption DEF TypeOK, ProcType
<1>1. mu[owner[j]] = j /\ UNCHANGED stdin
  BY SenderOthers DEF Sender, SendLength, SendCopy
<1>2. Blank(p, out) \/ Exchange(j, p, out)
  BY <1>0, <1>1 DEF Clear
<1>3. CASE pipe[j] # p
  <2>1. Blank(p, out)
    BY <1>2, <1>3 DEF Exchange, SendLength, SendCopy
  <2>2. stdout'[p] = stdout[p]
    BY <1>0, <1>3 DEF SendLength, SendCopy
  <2>. QED
    BY <1>1, <1>3, <2>1, <2>2
<1>4. CASE pipe[j] = p
  <2>1. ~Eof(p)
    BY DEF Eof, Down
  <2>2. stdout[p] # <<>> /\ stdout'[p] = Tail(stdout[p])
    BY <1>0, <1>4, <2>1 DEF SendLength, SendCopy
  <2>. QED
    BY <1>1, <1>2, <1>4, <2>2
<1>. QED
  BY <1>3, <1>4

\* What j leaves of the exchange is clear again.
LEMMA SenderLeaves ==
  ASSUME TypeOK, WellFormed, Locks, NEW j \in Jobs, ~Panic, SendLength(j) \/ SendCopy(j),
         NEW p \in Procs, ~Down(p), Clear(owner[j], p, stdout[p])
  PROVE  Clear(owner[j], p, stdout[p])'
<1>. DEFINE w == owner[j]
<1>0. /\ send \in [Jobs -> {"none", "lock", "write", "flush", "read", "length",
                            "body", "copy", "result", "gone"}]
      /\ got \in [Jobs -> Outcomes \cup Jobs]
      /\ mu \in [Workers -> Jobs \cup {Stopper, Nil}] /\ stdout \in [Procs -> Seq(Tokens)]
      /\ w \in Workers /\ UNCHANGED <<owner, stdin>>
      /\ mu[w] = j
  BY SenderOthers DEF TypeOK, SendType, MutexType, ProcType, Sender, SendLength, SendCopy, loopVars
<1>1. \/ pipe[j] # p /\ Blank(p, stdout[p]) /\ stdout'[p] = stdout[p]
      \/ /\ pipe[j] = p /\ stdout[p] # <<>> /\ stdout'[p] = Tail(stdout[p])
         /\ Exchange(j, p, stdout[p])
  BY SenderTakes DEF Blank
<1>2. CASE pipe[j] # p /\ Blank(p, stdout[p]) /\ stdout'[p] = stdout[p]
  BY <1>0, <1>2 DEF Blank, Clear
<1>3. CASE /\ pipe[j] = p /\ stdout[p] # <<>> /\ stdout'[p] = Tail(stdout[p])
           /\ Exchange(j, p, stdout[p]) /\ SendLength(j)
  <2>1. /\ stdin[p] = <<>> /\ got[j] = "none"
        /\ stdout[p] \in {<<Token("len", j)>>, Answer(j)}
    BY <1>3 DEF Exchange, SendLength
  <2>2. /\ Head(stdout[p]) = Token("len", j)
        /\ stdout'[p] \in {<<>>, <<Token("body", j)>>}
    BY <1>3, <2>1, AnswerParts
  <2>3. /\ got' = [got EXCEPT ![j] = j] /\ send' = [send EXCEPT ![j] = "body"] /\ UNCHANGED mu
    BY <1>3, <2>1, <2>2 DEF SendLength, Load, SendGoto, Eof, Down, Token
  <2>4. got'[j] = j /\ send'[j] = "body"
    BY <1>0, <2>3
  <2>5. Blank(p, stdout[p])' \/ Exchange(j, p, stdout[p])'
    BY <1>0, <2>1, <2>2, <2>4 DEF Blank, Exchange
  <2>. QED
    BY <1>0, <2>3, <2>5 DEF Clear
<1>4. CASE /\ pipe[j] = p /\ stdout[p] # <<>> /\ stdout'[p] = Tail(stdout[p])
           /\ Exchange(j, p, stdout[p]) /\ SendCopy(j)
  <2>1. stdin[p] = <<>> /\ stdout[p] = <<Token("body", j)>>
    BY <1>4 DEF Exchange, SendCopy
  <2>2. stdout'[p] = <<>>
    BY <1>4, <2>1, Tuples
  <2>. QED
    BY <1>0, <2>1, <2>2 DEF Clear, Blank
<1>. QED
  BY <1>1, <1>2, <1>3, <1>4

\* What the send goroutine of j, which its loop still waits for, gets.
LEMMA SenderOwn ==
  ASSUME TypeOK, WellFormed, Locks, GotInv, NEW j \in Jobs, Sender(j), ~Panic,
         Own(owner[j], j), Settled(owner[j])
  PROVE  Own(owner[j], j)'
<1>. DEFINE w == owner[j]  p == write[w]
<1>0. /\ send \in [Jobs -> {"none", "lock", "write", "flush", "read", "length",
                            "body", "copy", "result", "gone"}]
      /\ pipe \in [Jobs -> Procs \cup {Nil}] /\ got \in [Jobs -> Outcomes \cup Jobs]
      /\ mu \in [Workers -> Jobs \cup {Stopper, Nil}] /\ stdin \in [Procs -> Seq(Tokens)]
      /\ stdout \in [Procs -> Seq(Tokens)] /\ write \in [Workers -> Procs \cup {Nil}]
      /\ Nil \notin Procs /\ Stopper \notin Jobs
  BY PoolAssumption DEF TypeOK, SendType, MutexType, ProcType, FieldType, Procs
<1>1. /\ w \in Workers /\ UNCHANGED <<owner, cmd, read, write, proc>>
      /\ (send[j] \in Inside /\ mu[w] = j) \/ (send[j] = "lock" /\ mu[w] = Nil)
  BY SenderOthers DEF loopVars, fields
<1>2. ASSUME NEW r, Finish(j, r), r \in {j, "err"} PROVE Own(w, j)'
  <2>1. send'[j] = "result" /\ got'[j] = r
    BY <1>0, <1>2 DEF Finish, SendGoto
  <2>. QED
    BY <1>1, <1>2, <2>1 DEF Own
<1>3. CASE SendLock(j)
  <2>1. send'[j] = "write"
    BY <1>0, <1>3 DEF SendLock, SendGoto
  <2>. QED
    BY <2>1 DEF Own
<1>4. CASE SendWrite(j)
  <2>1. CASE p # Nil
    <3>1. send'[j] = "flush" /\ pipe'[j] = p /\ read[w] = p
      BY <1>0, <1>4, <2>1 DEF SendWrite, Load, SendGoto, Settled
    <3>. QED
      BY <1>1, <2>1, <3>1 DEF Own
  <2>. QED
    BY <1>2, <1>4, <2>1 DEF SendWrite
<1>5. CASE SendFlush(j)
  <2>1. p # Nil /\ read[w] = p /\ pipe[j] = p /\ got[j] = "none"
    BY <1>5 DEF SendFlush, Own, GotInv
  <2>2. CASE Down(p)
    BY <1>2, <1>5, <2>1, <2>2 DEF SendFlush
  <2>3. CASE ~Down(p)
    <3>1. Blank(p, stdout[p])
      BY <1>0, <1>1, <1>5, <2>1, <2>3 DEF Settled, Clear, Exchange, SendFlush
    <3>2. /\ stdin' = [stdin EXCEPT ![p] = Append(@, Token("msg", j))]
          /\ send'[j] = "read" /\ UNCHANGED <<got, stdout>>
      BY <1>0, <1>5, <2>1, <2>3 DEF SendFlush, Load, SendGoto
    <3>3. stdin'[p] = <<Token("msg", j)>>
      BY <1>0, <1>1, <2>1, <3>1, <3>2, Tuples DEF Blank
    <3>. QED
      BY <1>1, <2>1, <3>1, <3>2, <3>3 DEF Own, Blank
  <2>. QED
    BY <2>2, <2>3
<1>6. CASE SendRead(j) \/ SendBody(j)
  <2>1. read[w] = p /\ p # Nil
    BY <1>6 DEF SendRead, SendBody, Own
  <2>2. /\ pipe'[j] = p /\ UNCHANGED <<got, stdin, stdout>>
        /\ \/ send[j] = "read" /\ send'[j] = "length"
           \/ send[j] = "body" /\ send'[j] = "copy"
    BY <1>0, <1>6, <2>1 DEF SendRead, SendBody, Load, SendGoto, procVars
  <2>. QED
    BY <1>1, <2>1, <2>2 DEF Own, Answer
<1>7. CASE SendLength(j)
  <2>1. /\ p # Nil /\ read[w] = p /\ pipe[j] = p /\ got[j] = "none"
        /\ stdout[p] # <<>> => stdin[p] = <<>> /\ stdout[p] \in {<<Token("len", j)>>, Answer(j)}
    BY <1>7 DEF SendLength, Own
  <2>2. CASE stdout[p] # <<>> /\ stdout' = [stdout EXCEPT ![p] = Tail(@)] /\ ~Finish(j, "err")
    <3>1. stdout'[p] = Tail(stdout[p])
      BY <1>0, <1>1, <2>1, <2>2
    <3>2. /\ Head(stdout[p]) = Token("len", j)
          /\ stdout'[p] \in {<<>>, <<Token("body", j)>>}
      BY <2>1, <2>2, <3>1, AnswerParts
    <3>3. /\ got'[j] = j /\ send'[j] = "body" /\ UNCHANGED stdin
      BY <1>0, <1>7, <2>1, <2>2, <3>2 DEF SendLength, Load, SendGoto, Token
    <3>. QED
      BY <1>1, <2>1, <2>2, <3>2, <3>3 DEF Own
  <2>3. Finish(j, "err") \/ (stdout[p] # <<>> /\ stdout' = [stdout EXCEPT ![p] = Tail(@)])
    BY <1>7, <2>1 DEF SendLength
  <2>. QED
    BY <1>2, <2>2, <2>3
<1>8. CASE SendCopy(j)
  <2>1. /\ pipe[j] = p /\ got[j] = j
        /\ stdout[p] # <<>> => stdout[p] = <<Token("body", j)>>
    BY <1>8 DEF SendCopy, Own
  <2>2. Finish(j, "err") \/ Finish(j, j)
    BY <1>8, <2>1, Tuples DEF SendCopy
  <2>. QED
    BY <1>2, <2>2
<1>. QED
  BY <1>3, <1>4, <1>5, <1>6, <1>7, <1>8 DEF Sender

\* What a send goroutine has read stays what its place allows.
LEMMA GotInvStep ==
  ASSUME TypeOK, WellFormed, Locks, GotInv, [Next]_vars
  PROVE  GotInv'
<1>0. /\ send \in [Jobs -> {"none", "lock", "write", "flush", "read", "length",
                            "body", "copy", "result", "gone"}]
      /\ got \in [Jobs -> Outcomes \cup Jobs] /\ Jobs \cap Outcomes = {}
  BY PoolAssumption DEF TypeOK, SendType
<1>1. CASE UNCHANGED <<send, got>>
  BY <1>1 DEF GotInv
<1>2. CASE \E j \in Jobs : Sender(j) /\ ~Panic
  <2>1. PICK j \in Jobs : Sender(j) /\ ~Panic
    BY <1>2
  <2>2. \A k \in Jobs \ {j} : send'[k] = send[k] /\ got'[k] = got[k]
    BY <2>1, SenderOthers
  <2>3. /\ send'[j] \in {"none", "lock", "write", "flush", "read"} => got'[j] = "none"
        /\ send'[j] \in {"body", "copy"} => got'[j] \in Jobs \cup {"mixed"}
        /\ send'[j] = "result" => got'[j] \in Jobs \cup {"err", "mixed"}
    <3>1. ASSUME NEW r \in Jobs \cup {"err", "mixed"}, Finish(j, r)
          PROVE  send'[j] = "result" /\ got'[j] \in Jobs \cup {"err", "mixed"}
      BY <1>0, <3>1 DEF Finish, SendGoto
    <3>2. CASE SendLock(j) \/ SendWrite(j) \/ SendFlush(j) \/ SendRead(j) \/ SendBody(j)
      <4>1. (\E r \in {"err"} : Finish(j, r)) \/
            (/\ got' = got
             /\ \/ send[j] = "lock" /\ send' = [send EXCEPT ![j] = "write"]
                \/ send[j] = "write" /\ send' = [send EXCEPT ![j] = "flush"]
                \/ send[j] = "flush" /\ send' = [send EXCEPT ![j] = "read"]
                \/ send[j] = "read" /\ send' = [send EXCEPT ![j] = "length"]
                \/ send[j] = "body" /\ send' = [send EXCEPT ![j] = "copy"])
        BY <2>1, <3>2 DEF SendLock, SendWrite, SendFlush, SendRead, SendBody, Load, SendGoto
      <4>2. CASE \E r \in {"err"} : Finish(j, r)
        BY <3>1, <4>2
      <4>3. CASE ~\E r \in {"err"} : Finish(j, r)
        BY <1>0, <4>1, <4>3 DEF GotInv
      <4>. QED
        BY <4>2, <4>3
    <3>3. CASE SendLength(j)
      <4>1. ASSUME stdout[pipe[j]] # <<>>, Head(stdout[pipe[j]]).kind = "len"
            PROVE  Head(stdout[pipe[j]]).job \in Jobs \cup {"mixed"}
        <5>1. pipe[j] \in Procs
          BY <3>3 DEF SendLength, TypeOK, SendType, WellFormed, JobWell
        <5>2. Head(stdout[pipe[j]]) \in Tokens
          BY <4>1, <5>1, SeqFacts DEF TypeOK, ProcType
        <5>. QED
          BY <4>1, <5>2 DEF Tokens
      <4>2. \/ \E r \in {"err"} : Finish(j, r)
            \/ /\ send' = [send EXCEPT ![j] = "body"]
               /\ \E r \in Jobs \cup {"mixed"} : got' = [got EXCEPT ![j] = r]
            \/ send[j] = "length" /\ send' = send
        BY <3>3, <4>1 DEF SendLength, Load, SendGoto
      <4>. QED
        BY <1>0, <3>1, <4>2
    <3>4. CASE SendCopy(j)
      <4>1. got[j] \in Jobs \cup {"mixed"} /\ send[j] = "copy"
        BY <3>4 DEF SendCopy, GotInv
      <4>2. \/ \E r \in Jobs \cup {"err", "mixed"} : Finish(j, r)
            \/ send' = send /\ got' = got
        BY <3>4, <4>1 DEF SendCopy
      <4>. QED
        BY <1>0, <3>1, <4>1, <4>2
    <3>. QED
      BY <2>1, <3>2, <3>3, <3>4 DEF Sender
  <2>. QED
    BY <2>2, <2>3 DEF GotInv
<1>3. CASE \E j \in Jobs : Loop(j) /\ ~Panic
  <2>1. PICK j \in Jobs : Loop(j) /\ ~Panic
    BY <1>3
  <2>2. got' = got
    BY <2>1 DEF Loop, Restart, Receive, Timeout, AfterRestart, RestartCheck,
       RestartKill, RestartWait, RestartReap, RestartReset, StartReader, StartSpawn,
       StartRead, StartLine, StartDrain, StartDone, sendVars
  <2>3. send' = send \/ send' = [send EXCEPT ![j] = "gone"]
    BY <2>1, LoopFrame DEF TypeOK
  <2>. QED
    BY <1>0, <2>2, <2>3 DEF GotInv
<1>4. CASE \E w \in Workers, j \in Jobs : Take(w, j)
  <2>1. PICK w \in Workers, j \in Jobs : Take(w, j)
    BY <1>4
  <2>2. send' = [send EXCEPT ![j] = "lock"] /\ got' = got /\ loop[j] = "queued"
    BY <2>1, QueueFacts, TakeFrame DEF TypeOK, QueueType, WellFormed, Take
  <2>3. send[j] = "none" /\ got[j] = "none"
    BY <2>2 DEF WellFormed, JobWell, GotInv
  <2>. QED
    BY <1>0, <2>2, <2>3 DEF GotInv
<1>. QED
  <2>1. CASE UNCHANGED vars \/ Panic \/ (\E j \in Jobs : Submit(j) /\ ~Panic)
             \/ (\E w \in Workers : LoopExit(w))
    BY <1>1, <2>1 DEF vars, Panic, Submit, LoopExit, sendVars
  <2>2. CASE (\E p \in Procs : Process(p)) \/ (Stop /\ ~Panic)
    BY <1>1, <2>2, ProcessFrame, StopFrame DEF TypeOK, sendVars
  <2>. QED
    BY <1>2, <1>3, <1>4, <2>1, <2>2, NextCases

\* What a step may write to: a pipe that a field or a goroutine has, or the pipes of
\* a process that runs.
LEMMA PipesStep ==
  ASSUME TypeOK, WellFormed, [Next]_vars
  PROVE  \A p \in Procs :
           /\ stdin'[p] # stdin[p] =>
                proc[p] # "none" \/ (\E w \in Workers : p = write[w]) \/ stdin'[p] = <<>>
           /\ stdout'[p] # stdout[p] => proc[p] # "none" \/ stdout[p] # <<>>
<1>0. /\ proc \in [Procs -> {"none", "starting", "up", "dead", "reaped"}]
      /\ stdin \in [Procs -> Seq(Tokens)] /\ stdout \in [Procs -> Seq(Tokens)]
  BY DEF TypeOK, ProcType
<1>1. CASE UNCHANGED <<stdin, stdout>>
  BY <1>1
<1>2. CASE \E j \in Jobs : Sender(j) /\ ~Panic
  <2>1. PICK j \in Jobs : Sender(j) /\ ~Panic
    BY <1>2
  <2>2. owner[j] \in Workers
    BY <2>1, Owned, SenderFrame DEF TypeOK
  <2>3. CASE SendFlush(j)
    <3>1. UNCHANGED stdout
      BY <2>1, <2>3 DEF SendFlush
    <3>2. \A p \in Procs : stdin'[p] # stdin[p] => p = write[owner[j]]
      BY <1>0, <2>1, <2>3 DEF SendFlush
    <3>. QED
      BY <2>2, <3>1, <3>2
  <2>4. CASE SendLength(j) \/ SendCopy(j)
    <3>1. UNCHANGED stdin
      BY <2>4 DEF SendLength, SendCopy
    <3>2. \A p \in Procs : stdout'[p] # stdout[p] => stdout[p] # <<>>
      BY <1>0, <2>4 DEF SendLength, SendCopy
    <3>. QED
      BY <3>1, <3>2
  <2>5. CASE SendLock(j) \/ SendWrite(j) \/ SendRead(j) \/ SendBody(j)
    BY <1>1, <2>1, <2>5 DEF SendLock, SendWrite, SendRead, SendBody, procVars
  <2>. QED
    BY <2>1, <2>3, <2>4, <2>5 DEF Sender
<1>3. CASE \E j \in Jobs : Loop(j) /\ ~Panic
  <2>1. PICK j \in Jobs : Loop(j) /\ ~Panic
    BY <1>3
  <2>2. CASE RestartKill(j)
    <3>1. UNCHANGED stdout /\ \A p \in Procs : stdin'[p] # stdin[p] => stdin'[p] = <<>>
      BY <1>0, <2>1, <2>2 DEF RestartKill, Die
    <3>. QED
      BY <3>1
  <2>3. CASE StartLine(j) \/ StartDrain(j)
    <3>1. UNCHANGED stdin
      BY <2>3 DEF StartLine, StartDrain
    <3>2. \A p \in Procs : stdout'[p] # stdout[p] => stdout[p] # <<>>
      BY <1>0, <2>3 DEF StartLine, StartDrain
    <3>. QED
      BY <3>1, <3>2
  <2>4. CASE Receive(j) \/ Timeout(j) \/ AfterRestart(j) \/ RestartCheck(j) \/ RestartWait(j)
             \/ RestartReap(j) \/ RestartReset(j) \/ StartReader(j) \/ StartSpawn(j)
             \/ StartRead(j) \/ StartDone(j)
    BY <1>1, <2>1, <2>4 DEF Receive, Timeout, AfterRestart, RestartCheck, RestartWait,
       RestartReap, RestartReset, StartReader, StartSpawn, StartRead, StartDone, procVars
  <2>. QED
    BY <2>1, <2>2, <2>3, <2>4 DEF Loop, Restart
<1>4. CASE \E p \in Procs : Process(p)
  <2>1. PICK q \in Procs : Process(q)
    BY <1>4
  <2>2. proc[q] # "none" /\ \A p \in Procs \ {q} : stdin'[p] = stdin[p] /\ stdout'[p] = stdout[p]
    BY <1>0, <2>1 DEF Process, ProcStray, ProcReady, ProcHandle, ProcFrames, ProcDie, Die
  <2>. QED
    BY <2>2
<1>5. CASE Stop /\ ~Panic
  <2>1. CASE StopFlush
    <3>1. stopAt \in Workers /\ UNCHANGED stdout
      BY <1>5, <2>1 DEF StopFlush, WellFormed, StopWell, Stopping, TypeOK, StopType
    <3>2. \A p \in Procs : stdin'[p] # stdin[p] => p = write[stopAt]
      BY <1>0, <1>5, <2>1 DEF StopFlush
    <3>. QED
      BY <3>1, <3>2
  <2>2. CASE ~StopFlush
    BY <1>1, <1>5, <2>2 DEF Stop, StopClose, StopNext, StopCheck, StopWrite, StopWait,
       StopReap, procVars
  <2>. QED
    BY <2>1, <2>2
<1>. QED
  <2>1. CASE UNCHANGED vars \/ Panic \/ (\E j \in Jobs : Submit(j) /\ ~Panic)
             \/ (\E w \in Workers : LoopExit(w) \/ \E j \in Jobs : Take(w, j))
    BY <1>1, <2>1 DEF vars, Panic, Submit, LoopExit, Take, procVars
  <2>. QED
    BY <1>2, <1>3, <1>4, <1>5, <2>1, NextCases

\* A process that is not there has no pipes, and no worker's writer is its.
LEMMA NewInvStep ==
  ASSUME TypeOK, WellFormed, LoopsInv, NewInv, [Next]_vars
  PROVE  NewInv'
<1>0. /\ proc \in [Procs -> {"none", "starting", "up", "dead", "reaped"}]
      /\ write \in [Workers -> Procs \cup {Nil}] /\ Nil \notin Procs /\ Jobs \subseteq Procs
  BY PoolAssumption DEF TypeOK, ProcType, FieldType, Procs
<1>1. \A p \in Procs : proc'[p] = "none" => proc[p] = "none"
  <2>1. CASE \E j \in Jobs : Loop(j) /\ ~Panic
    BY <2>1, LoopEffect DEF LoopsInv
  <2>2. CASE ~\E j \in Jobs : Loop(j) /\ ~Panic
    BY <2>2, OtherProc
  <2>. QED
    BY <2>1, <2>2
<1>2. \A w \in Workers : \/ write'[w] \in {write[w], Nil}
                         \/ write'[w] \in Jobs /\ proc'[write'[w]] # "none"
  <2>1. CASE UNCHANGED write
    BY <2>1
  <2>2. CASE \E j \in Jobs : StartSpawn(j)
    <3>1. PICK j \in Jobs : StartSpawn(j)
      BY <2>2
    <3>2. write' = [write EXCEPT ![owner[j]] = j] /\ proc'[j] # "none"
      BY <1>0, <3>1 DEF StartSpawn
    <3>. QED
      BY <1>0, <3>2
  <2>3. CASE \E j \in Jobs : RestartReset(j)
    BY <1>0, <2>3 DEF RestartReset
  <2>4. CASE Stop /\ ~Panic
    <3>1. write' = write \/ write' = [write EXCEPT ![stopAt] = Nil]
      BY <2>4, StopFrame DEF TypeOK
    <3>. QED
      BY <1>0, <3>1
  <2>5. CASE \E j \in Jobs : Loop(j) /\ ~Panic /\ ~StartSpawn(j) /\ ~RestartReset(j)
    <3>1. UNCHANGED write
      BY <2>5 DEF Loop, Restart, Receive, Timeout, AfterRestart, RestartCheck,
       RestartKill, RestartWait, RestartReap, RestartReset, StartReader, StartSpawn,
       StartRead, StartLine, StartDrain, StartDone, fields
    <3>. QED
      BY <2>1, <3>1
  <2>6. CASE ~Stop /\ ~\E j \in Jobs : Loop(j) /\ ~Panic
    BY <2>1, <2>6, OtherFields DEF Stop, fields
  <2>7. CASE Panic
    BY <2>1, <2>7 DEF Panic, fields
  <2>. QED
    BY <2>2, <2>3, <2>4, <2>5, <2>6, <2>7
<1>3. ASSUME NEW p \in Procs, proc'[p] = "none"
      PROVE  stdin'[p] = <<>> /\ stdout'[p] = <<>> /\ \A w \in Workers : write'[w] # p
  <2>1. /\ proc[p] = "none" /\ stdin[p] = <<>> /\ stdout[p] = <<>>
        /\ \A w \in Workers : write[w] # p
    BY <1>1, <1>3 DEF NewInv
  <2>. QED
    BY <1>0, <1>2, <1>3, <2>1, PipesStep
<1>. QED
  BY <1>3 DEF NewInv

\* The goroutines of a worker leave the pipes of the others alone.
LEMMA PipesLocal ==
  ASSUME TypeOK, WellFormed, IsolationPoints, NEW j \in Jobs, Loop(j) \/ Sender(j), ~Panic,
         NEW w \in Workers \ {owner[j]}, NEW p \in Procs, Owns(w, p)
  PROVE  stdin'[p] = stdin[p] /\ stdout'[p] = stdout[p]
<1>0. /\ stdin \in [Procs -> Seq(Tokens)] /\ stdout \in [Procs -> Seq(Tokens)]
      /\ Nil \notin Procs /\ Workers \cap Jobs = {}
  BY PoolAssumption DEF TypeOK, ProcType, Procs
<1>1. owner[j] \in Workers
  BY LoopFrame, SenderFrame, Owned DEF TypeOK
<1>2. p \notin {cmd[owner[j]], write[owner[j]], target[j], pipe[j]}
  <2>1. \A x : Owns(owner[j], x) => x # p
    BY <1>0, <1>1 DEF Owns
  <2>2. owner[j] # Nil
    BY <1>1, PoolAssumption
  <2>. QED
    BY <1>1, <2>1, <2>2 DEF IsolationPoints
<1>3. CASE Sender(j)
  <2>1. CASE SendLock(j) \/ SendWrite(j) \/ SendRead(j) \/ SendBody(j)
    BY <2>1 DEF SendLock, SendWrite, SendRead, SendBody, procVars
  <2>2. CASE SendFlush(j)
    BY <1>0, <1>2, <2>2 DEF SendFlush
  <2>3. CASE SendLength(j) \/ SendCopy(j)
    BY <1>0, <1>2, <2>3 DEF SendLength, SendCopy
  <2>. QED
    BY <1>3, <2>1, <2>2, <2>3 DEF Sender
<1>4. CASE Loop(j)
  <2>1. CASE RestartKill(j)
    BY <1>0, <1>2, <2>1 DEF RestartKill, Die
  <2>2. CASE StartLine(j) \/ StartDrain(j)
    BY <1>0, <1>2, <2>2 DEF StartLine, StartDrain
  <2>3. CASE Receive(j) \/ Timeout(j) \/ AfterRestart(j) \/ RestartCheck(j) \/ RestartWait(j)
             \/ RestartReap(j) \/ RestartReset(j) \/ StartReader(j) \/ StartSpawn(j)
             \/ StartRead(j) \/ StartDone(j)
    BY <2>3 DEF Receive, Timeout, AfterRestart, RestartCheck, RestartWait,
       RestartReap, RestartReset, StartReader, StartSpawn, StartRead, StartDone, procVars
  <2>. QED
    BY <1>4, <2>1, <2>2, <2>3 DEF Loop, Restart
<1>. QED
  BY <1>3, <1>4

\* Once a job waits for its send goroutine, no restart of its worker goes on.
LEMMA SelectEnded ==
  ASSUME TypeOK, FailedInv, FirstInv, LoopsInv, NEW w \in Workers, Single(w), Talk(w),
         NEW k \in Taken(w), loop[k] = "select"
  PROVE  Ended(w) /\ Settled(w) /\ Own(w, k)
<1>1. k \notin Failed(w)
  BY DEF FailedInv, Failed, Failures, Taken
<1>2. ASSUME NEW f \in Jobs, Failed(w) = {f} PROVE loop[f] \in {"after", "done"}
  BY <1>1, <1>2, SelectAlone
<1>3. Ended(w)
  BY <1>2 DEF Ended, Single
<1>. QED
  BY <1>3 DEF Talk

\* While the restart of its one failed job waits for the new process, the pipes of a
\* worker are those of that process.
LEMMA OpeningFields ==
  ASSUME TypeOK, FirstInv, NEW w \in Workers, Single(w), NEW f \in Failed(w),
         loop[f] \in Opening
  PROVE  /\ f \in Jobs /\ Failed(w) = {f} /\ ~Ended(w)
         /\ cmd[w] = Nil /\ read[w] = f /\ write[w] = f /\ proc[f] # "none"
         /\ loop[f] \in {"line", "drain"} => target[f] = f
         /\ \A k \in Taken(w) \ {f} : proc[k] = "none"
<1>1. f \in Jobs /\ Failed(w) = {f}
  BY DEF Single, Failed
<1>2. Since(w, f)
  BY <1>1 DEF FirstInv
<1>. QED
  BY <1>1, <1>2 DEF Since, Opening, Began, Ended

\* A send goroutine keeps the pipes of its worker in order.
LEMMA TalkSender ==
  ASSUME TypeOK, WellFormed, Locks, IsolationPoints, LoopsInv, FailedInv, FirstInv, GotInv,
         LateInv, NEW j \in Jobs, Sender(j), ~Panic, NEW w \in Workers, Sound(w), Talk(w)
  PROVE  Talk(w)'
<1>. Single(w)
  BY DEF Sound
<1>0. /\ stdin \in [Procs -> Seq(Tokens)] /\ stdout \in [Procs -> Seq(Tokens)]
      /\ write \in [Workers -> Procs \cup {Nil}] /\ Nil \notin Procs /\ Jobs \subseteq Procs
  BY PoolAssumption DEF TypeOK, ProcType, FieldType, Procs
<1>1. /\ UNCHANGED <<loopVars, fields, proc, stopVars>> /\ owner[j] \in Workers
      /\ \A k \in Jobs \ {j} : /\ send'[k] = send[k] /\ pipe'[k] = pipe[k] /\ got'[k] = got[k]
                               /\ owner[k] = owner[j] => send[k] \notin Inside
      /\ \A v \in Workers \ {owner[j]} : mu'[v] = mu[v] /\ mu[v] # j
  BY SenderOthers
<1>2. /\ Failed(w)' = Failed(w) /\ Taken(w)' = Taken(w) /\ (Ended(w)' <=> Ended(w))
      /\ read'[w] = read[w] /\ write'[w] = write[w]
  BY <1>1 DEF Failed, Taken, Ended, loopVars, fields
<1>3. CASE w # owner[j]
  <2>1. \A p \in {write[w]} \cup Failed(w) : p # Nil =>
          proc'[p] = proc[p] /\ stdin'[p] = stdin[p] /\ stdout'[p] = stdout[p]
    <3>. SUFFICES ASSUME NEW p \in {write[w]} \cup Failed(w), p # Nil
                  PROVE  proc'[p] = proc[p] /\ stdin'[p] = stdin[p] /\ stdout'[p] = stdout[p]
      OBVIOUS
    <3>1. p \in Procs /\ Owns(w, p)
      BY <1>0 DEF IsolationPoints, Owns, Failed
    <3>. QED
      BY <1>1, <1>3, <3>1, PipesLocal
  <2>2. /\ \A f \in Failed(w) : loop'[f] \in Opening => loop'[f] = loop[f]
        /\ mu'[w] = mu[w] /\ (mu[w] = Stopper => stop' = stop /\ waits' = waits)
        /\ \A k \in Jobs : mu[w] = k =>
             send'[k] = send[k] /\ pipe'[k] = pipe[k] /\ got'[k] = got[k]
    BY <1>1, <1>3 DEF loopVars, stopVars
  <2>3. \A k \in Taken(w)' : loop'[k] = "select" =>
          /\ k \in Taken(w) /\ loop[k] = "select"
          /\ send'[k] = send[k] /\ pipe'[k] = pipe[k] /\ got'[k] = got[k]
    BY <1>1, <1>2, <1>3 DEF loopVars, Taken
  <2>. QED
    BY <1>2, <2>1, <2>2, <2>3, TalkSame
<1>4. CASE w = owner[j]
  <2>0. \/ SendLock(j) \/ SendWrite(j) \/ SendFlush(j) \/ SendRead(j) \/ SendBody(j)
        \/ SendLength(j) \/ SendCopy(j)
    BY DEF Sender
  <2>a. ASSUME SendLock(j) \/ SendWrite(j) \/ SendFlush(j) \/ SendRead(j) \/ SendBody(j)
        PROVE  stdout' = stdout
    BY <2>a DEF SendLock, SendWrite, SendFlush, SendRead, SendBody, procVars
  <2>b. \A p, out : Clear(owner[j], p, out)' <=> Clear(w, p, out)'
    BY <1>1, <1>4 DEF loopVars
  <2>c. Frames /\ send[j] = "flush" => pipe[j] = write[w]
    <3>. SUFFICES ASSUME Frames, send[j] = "flush" PROVE pipe[j] = write[w]
      OBVIOUS
    <3>1. j \in Taken(w) /\ loop[j] \notin {"new", "queued"}
      BY <1>1, <1>4, PoolAssumption DEF Taken, WellFormed, JobWell
    <3>2. reply[j] # "timeout"
      BY <3>1 DEF Sound, Failed, Failures, Taken
    <3>3. loop[j] = "select"
      BY <3>1, <3>2 DEF LateInv
    <3>. QED
      BY <3>1, <3>3, SelectEnded DEF Own
  <2>1. ASSUME Ended(w), write[w] # Nil, ~Down(write[w])
        PROVE  Clear(w, write[w], stdout[write[w]])'
    <3>1. PICK p \in Procs : p = write[w]
      BY <1>0, <2>1
    <3>2. ~Down(p) /\ read[w] = p /\ Clear(w, p, stdout[p])
      BY <2>1, <3>1 DEF Talk, Settled
    <3>3. CASE SendLock(j) \/ SendWrite(j) \/ SendFlush(j) \/ SendRead(j) \/ SendBody(j)
      <4>1. PICK out : out = stdout[p]
        OBVIOUS
      <4>2. Clear(w, p, out)'
        BY <1>4, <2>b, <2>c, <3>1, <3>2, <3>3, <4>1, SenderClear
      <4>3. out = stdout'[p] /\ p = write'[w]
        BY <1>2, <2>a, <3>1, <3>3, <4>1
      <4>. QED
        BY <4>2, <4>3
    <3>4. CASE SendLength(j) \/ SendCopy(j)
      <4>1. Clear(owner[j], p, stdout[p])'
        BY <1>4, <3>2, <3>4, SenderLeaves
      <4>. QED
        BY <1>1, <1>2, <1>4, <3>1, <4>1 DEF loopVars
    <3>. QED
      BY <2>0, <3>3, <3>4
  <2>2. ASSUME Ended(w)' PROVE Settled(w)'
    BY <1>1, <1>2, <2>1, <2>2 DEF Talk, Settled, Down
  <2>3. ASSUME NEW f \in Failed(w), loop[f] \in Opening PROVE Young(w, f)'
    <3>1. f \in Jobs /\ f \in Procs /\ read[w] = f /\ write[w] = f /\ Young(w, f)
      BY <1>0, <2>3, OpeningFields DEF Talk
    <3>2. ASSUME proc[f] = "starting" PROVE stdout'[f] = <<>> /\ Clear(w, f, <<>>)'
      <4>1. stdout[f] = <<>> /\ Clear(w, f, <<>>) /\ ~Down(f)
        BY <3>1, <3>2 DEF Young, Down
      <4>2. CASE SendLock(j) \/ SendWrite(j) \/ SendFlush(j) \/ SendRead(j) \/ SendBody(j)
        BY <1>4, <2>a, <2>b, <2>c, <3>1, <4>1, <4>2, SenderClear
      <4>3. CASE SendLength(j) \/ SendCopy(j)
        <5>1. UNCHANGED stdin /\ Blank(f, <<>>) /\ stdout'[f] = stdout[f]
          BY <1>4, <3>1, <4>1, <4>3, SenderTakes
        <5>. QED
          BY <4>1, <5>1 DEF Clear, Blank
      <4>. QED
        BY <2>0, <4>2, <4>3
    <3>3. ASSUME proc[f] = "up", NoOk(f) PROVE NoOk(f)'
      <4>1. stdout'[f] = stdout[f] \/ (stdout[f] # <<>> /\ stdout'[f] = Tail(stdout[f]))
        BY <1>0, <2>0, <2>a, <3>1 DEF SendLength, SendCopy
      <4>2. stdout[f] \in Seq(Tokens)
        BY <1>0, <3>1
      <4>. QED
        BY <3>3, <4>1, <4>2, NoOkFacts DEF NoOk
    <3>4. ASSUME proc[f] = "up", ~NoOk(f)
          PROVE  \/ NoOk(f)'
                 \/ /\ stdout'[f] # <<>> /\ Head(stdout'[f]) = Token("ok", Nil)
                    /\ Clear(w, f, Tail(stdout[f]))'
      <4>1. /\ stdout[f] # <<>> /\ Head(stdout[f]) = Token("ok", Nil)
            /\ Clear(w, f, Tail(stdout[f])) /\ ~Down(f)
        BY <3>1, <3>4 DEF Young, Down
      <4>2. CASE SendLock(j) \/ SendWrite(j) \/ SendFlush(j) \/ SendRead(j) \/ SendBody(j)
        <5>1. PICK out : out = Tail(stdout[f])
          OBVIOUS
        <5>2. Clear(w, f, out)'
          BY <1>4, <2>b, <2>c, <3>1, <4>1, <4>2, <5>1, SenderClear
        <5>3. out = Tail(stdout'[f])
          BY <2>a, <4>2, <5>1
        <5>. QED
          BY <2>a, <4>1, <4>2, <5>2, <5>3
      <4>3. CASE SendLength(j) \/ SendCopy(j)
        <5>1. UNCHANGED stdin
          BY <1>4, <3>1, <4>1, <4>3, SenderTakes
        <5>2. CASE Blank(f, Tail(stdout[f])) /\ stdout'[f] = stdout[f]
          BY <4>1, <5>1, <5>2 DEF Clear, Blank
        <5>3. CASE /\ stdout'[f] = Tail(stdout[f])
                   /\ Blank(f, Tail(stdout[f])) \/ Exchange(j, f, Tail(stdout[f]))
          <6>1. stdout'[f] \in {<<>>, <<Token("len", j)>>, Answer(j), <<Token("body", j)>>}
            BY <5>3 DEF Blank, Exchange
          <6>2. NoOk(f)'
            BY <6>1 DEF NoOk, Answer, Token
          <6>. QED
            BY <6>2
        <5>. QED
          BY <1>4, <3>1, <4>1, <4>3, <5>2, <5>3, SenderTakes
      <4>. QED
        BY <2>0, <4>2, <4>3
    <3>5. proc'[f] = proc[f] /\ loop'[f] = loop[f]
      BY <1>1 DEF loopVars
    <3>6. proc[f] = "starting" \/ (~NoOk(f) /\ proc[f] = "up") => loop[f] \in {"read", "line"}
      BY <3>1 DEF Young
    <3>. QED
      BY <3>2, <3>3, <3>4, <3>5, <3>6 DEF Young
  <2>4. ASSUME NEW k \in Taken(w), loop[k] = "select" PROVE Own(w, k)'
    <3>1. Settled(w) /\ Own(w, k) /\ k \in Jobs /\ owner[k] = w
      BY <2>4, SelectEnded DEF Taken
    <3>2. CASE k = j
      <4>1. Own(owner[j], j)'
        BY <1>4, <3>1, <3>2, SenderOwn
      <4>. QED
        BY <1>1, <1>4, <3>2, <4>1 DEF loopVars
    <3>3. CASE k # j
      BY <1>1, <1>4, <3>1, <3>3, OwnSame DEF Inside
    <3>. QED
      BY <3>2, <3>3
  <2>. QED
    BY <1>1, <1>2, <2>2, <2>3, <2>4 DEF Talk, loopVars
<1>. QED
  BY <1>3, <1>4

\* Data that process q may take for messages.
Framed(q) == Frames /\ stdin[q] # <<>> /\ Head(stdin[q]).kind = "garbage"

\* What a process that prints nothing but answers does to its pipes.
LEMMA ProcessEffect ==
  ASSUME TypeOK, ~StrayOutput, NEW q \in Procs, Process(q)
  PROVE  /\ \A p \in Procs \ {q} :
              proc'[p] = proc[p] /\ stdin'[p] = stdin[p] /\ stdout'[p] = stdout[p]
         /\ \/ /\ proc[q] = "starting" /\ proc'[q] = "up"
               /\ stdin'[q] = stdin[q] /\ stdout'[q] = Append(stdout[q], Token("ok", Nil))
            \/ /\ proc[q] = "up" /\ proc'[q] = "up"
               /\ stdin[q] # <<>> /\ Head(stdin[q]).kind = "msg" /\ stdin'[q] = Tail(stdin[q])
               /\ stdout'[q] = stdout[q] \o Answer(Head(stdin[q]).job)
            \/ /\ proc[q] = "up" /\ proc'[q] = "up" /\ Framed(q)
               /\ stdout'[q] \in {stdout[q], stdout[q] \o Answer("mixed")}
            \/ /\ proc'[q] = "dead" /\ stdin'[q] = <<>>
               /\ \/ stdout'[q] = stdout[q]
                  \/ /\ stdin[q] # <<>> /\ Head(stdin[q]).kind = "msg"
                     /\ stdout'[q] = Append(stdout[q], Token("len", Head(stdin[q]).job))
<1>0. /\ proc \in [Procs -> {"none", "starting", "up", "dead", "reaped"}]
      /\ stdin \in [Procs -> Seq(Tokens)] /\ stdout \in [Procs -> Seq(Tokens)]
  BY DEF TypeOK, ProcType
<1>1. CASE ProcReady(q)
  BY <1>0, <1>1 DEF ProcReady
<1>2. CASE ProcHandle(q)
  BY <1>0, <1>2 DEF ProcHandle, ProcFrames, Framed, Die
<1>3. CASE ProcDie(q)
  BY <1>0, <1>3 DEF ProcDie, Die
<1>. QED
  BY <1>1, <1>2, <1>3 DEF Process, ProcStray

\* A message that a process handles gives way to its answer.
LEMMA ClearHandled ==
  ASSUME NEW w, NEW q, NEW out, Clear(w, q, out), stdin[q] # <<>>, Head(stdin[q]).kind = "msg"
  PROVE  /\ out = <<>> /\ Tail(stdin[q]) = <<>>
         /\ \E j \in Jobs : /\ mu[w] = j /\ Head(stdin[q]).job = j
                            /\ send[j] \in {"read", "length"} /\ got[j] = "none"
                            /\ send[j] = "length" => pipe[j] = q
<1>1. ~Blank(q, out)
  BY DEF Blank
<1>2. ~Quitting(q, out)
  BY Tuples DEF Quitting, Token
<1>3. PICK j \in Jobs : mu[w] = j /\ Exchange(j, q, out)
  BY <1>1, <1>2 DEF Clear
<1>4. stdin[q] \in {<<Token("msg", j)>>, <<Token("garbage", j)>>} /\ out = <<>>
  BY <1>1, <1>3 DEF Exchange, Blank
<1>5. Tail(stdin[q]) = <<>> /\ Head(stdin[q]).job = j
  <2>1. \A x : Head(<<x>>) = x /\ Tail(<<x>>) = <<>>
    OBVIOUS
  <2>2. Head(stdin[q]) \in {Token("msg", j), Token("garbage", j)} /\ Tail(stdin[q]) = <<>>
    BY <1>4, <2>1
  <2>. QED
    BY <2>2 DEF Token
<1>. QED
  BY <1>3, <1>4, <1>5 DEF Exchange

\* Clear pipes hold no data that might be taken for messages.
LEMMA ClearFramed ==
  ASSUME NEW w, NEW q, NEW out, Clear(w, q, out)
  PROVE  ~Framed(q)
<1>. SUFFICES ASSUME Framed(q) PROVE FALSE
  OBVIOUS
<1>1. ~Blank(q, out)
  BY DEF Blank, Framed
<1>2. ~Quitting(q, out)
  BY Tuples DEF Quitting, Token, Framed
<1>3. \A j \in Jobs : ~Exchange(j, q, out)
  <2>1. \A j : Head(<<Token("msg", j)>>).kind = "msg"
    BY Tuples DEF Token
  <2>. QED
    BY <2>1 DEF Exchange, Framed
<1>. QED
  BY <1>1, <1>2, <1>3 DEF Clear

\* A process that prints nothing but answers keeps its pipes in order.
LEMMA TalkProcess ==
  ASSUME TypeOK, WellFormed, IsolationPoints, LoopsInv, FailedInv, FirstInv, ~StrayOutput,
         NEW q \in Procs, Process(q), NEW w \in Workers, Single(w), Talk(w)
  PROVE  Talk(w)'
<1>0. /\ stdin \in [Procs -> Seq(Tokens)] /\ stdout \in [Procs -> Seq(Tokens)]
      /\ write \in [Workers -> Procs \cup {Nil}] /\ Nil \notin Procs /\ Jobs \subseteq Procs
  BY PoolAssumption DEF TypeOK, ProcType, FieldType, Procs
<1>1. /\ UNCHANGED <<loopVars, sendVars, fields, mu, stopVars>>
      /\ Failed(w)' = Failed(w) /\ Taken(w)' = Taken(w) /\ (Ended(w)' <=> Ended(w))
  BY ProcessFrame DEF Failed, Taken, Ended, loopVars
<1>2. \A p \in Procs \ {q} :
        proc'[p] = proc[p] /\ stdin'[p] = stdin[p] /\ stdout'[p] = stdout[p]
  BY ProcessEffect
<1>3. CASE q \notin {write[w]} \cup Failed(w)
  <2>1. \A p \in {write[w]} \cup Failed(w) : p # Nil => p \in Procs \ {q}
    BY <1>0, <1>3 DEF Failed
  <2>. QED
    BY <1>1, <1>2, <2>1, TalkSame DEF loopVars, sendVars, fields, stopVars
<1>4. CASE q \in {write[w]} \cup Failed(w)
  <2>a. \A p, out : Clear(w, p, out) /\ stdin'[p] = stdin[p] => Clear(w, p, out)'
    BY <1>1, ClearSame DEF sendVars, stopVars
  <2>b. ASSUME NEW out, Clear(w, q, out), stdin[q] # <<>>, Head(stdin[q]).kind = "msg",
               stdin'[q] = Tail(stdin[q]), NEW t, t = Answer(Head(stdin[q]).job)
        PROVE  out = <<>> /\ Clear(w, q, t)'
    <3>1. PICK j \in Jobs : /\ mu[w] = j /\ Head(stdin[q]).job = j
                            /\ send[j] \in {"read", "length"} /\ got[j] = "none"
                            /\ send[j] = "length" => pipe[j] = q
      BY <2>b, ClearHandled
    <3>2. out = <<>> /\ stdin'[q] = <<>>
      BY <2>b, ClearHandled
    <3>3. t = Answer(j)
      BY <2>b, <3>1
    <3>4. Exchange(j, q, t)'
      BY <1>1, <3>1, <3>2, <3>3 DEF Exchange, sendVars, Answer
    <3>. QED
      BY <1>1, <3>1, <3>2, <3>4 DEF Clear
  <2>1. ASSUME Ended(w), write[w] # Nil
        PROVE  /\ proc'[write[w]] \notin {"none", "starting"}
               /\ Down(write[w])' \/ Clear(w, write[w], stdout[write[w]])'
    <3>1. PICK p \in Procs : p = write[w] /\ p = write'[w]
      BY <1>0, <1>1, <2>1 DEF fields
    <3>2. /\ proc[p] \notin {"none", "starting"}
          /\ Down(p) \/ Clear(w, p, stdout[p])
      BY <2>1, <3>1 DEF Talk, Settled
    <3>. SUFFICES proc'[p] \notin {"none", "starting"} /\ (Down(p)' \/ Clear(w, p, stdout[p])')
      BY <1>1, <3>1 DEF fields
    <3>3. CASE p # q
      <4>1. PICK out : out = stdout[p]
        OBVIOUS
      <4>2. Clear(w, p, out) => Clear(w, p, out)'
        BY <1>2, <2>a, <3>3
      <4>3. out = stdout'[p]
        BY <1>2, <3>3, <4>1
      <4>. QED
        BY <1>2, <3>2, <3>3, <4>1, <4>2, <4>3 DEF Down
    <3>4. CASE p = q
      <4>1. CASE proc'[q] = "dead"
        BY <3>4, <4>1 DEF Down
      <4>2. CASE /\ proc[q] = "up" /\ proc'[q] = "up"
                 /\ stdin[q] # <<>> /\ Head(stdin[q]).kind = "msg" /\ stdin'[q] = Tail(stdin[q])
                 /\ stdout'[q] = stdout[q] \o Answer(Head(stdin[q]).job)
        <5>1. Clear(w, q, stdout[q])
          BY <3>2, <3>4, <4>2 DEF Down
        <5>2. PICK t : t = Answer(Head(stdin[q]).job)
          OBVIOUS
        <5>3. PICK out : out = stdout[q]
          OBVIOUS
        <5>4. stdout[q] = <<>> /\ Clear(w, q, t)'
          BY <2>b, <4>2, <5>1, <5>2, <5>3
        <5>5. stdout'[q] = t
          BY <4>2, <5>2, <5>4, Tuples DEF Answer
        <5>. QED
          BY <3>4, <4>2, <5>4, <5>5
      <4>3. CASE proc[q] = "up" /\ Framed(q)
        BY <3>2, <3>4, <4>3, ClearFramed DEF Down
      <4>. QED
        BY <3>2, <3>4, <4>1, <4>2, <4>3, ProcessEffect
    <3>. QED
      BY <3>3, <3>4
  <2>2. ASSUME Ended(w)' PROVE Settled(w)'
    BY <1>1, <2>1, <2>2 DEF Talk, Settled, fields
  <2>3. ASSUME NEW f \in Failed(w), loop[f] \in Opening PROVE Young(w, f)'
    <3>1. f \in Procs /\ q = f /\ Young(w, f) /\ loop'[f] = loop[f]
      BY <1>0, <1>1, <1>4, <2>3, OpeningFields DEF Talk, loopVars
    <3>2. CASE /\ proc[q] = "starting" /\ proc'[q] = "up"
               /\ stdin'[q] = stdin[q] /\ stdout'[q] = Append(stdout[q], Token("ok", Nil))
      <4>1. stdout[f] = <<>> /\ loop[f] \in {"read", "line"} /\ Clear(w, f, <<>>)
        BY <3>1, <3>2 DEF Young
      <4>2. stdout'[f] = <<Token("ok", Nil)>> /\ Clear(w, f, <<>>)'
        BY <2>a, <3>1, <3>2, <4>1, Tuples
      <4>3. stdout'[f] # <<>> /\ Head(stdout'[f]) = Token("ok", Nil) /\ Tail(stdout'[f]) = <<>>
        BY <4>2, Tuples
      <4>. QED
        BY <3>1, <3>2, <4>1, <4>2, <4>3 DEF Young
    <3>3. CASE /\ proc[q] = "up" /\ proc'[q] = "up"
               /\ stdin[q] # <<>> /\ Head(stdin[q]).kind = "msg" /\ stdin'[q] = Tail(stdin[q])
               /\ stdout'[q] = stdout[q] \o Answer(Head(stdin[q]).job)
      <4>1. CASE NoOk(f)
        <5>1. stdout[f] \in Seq(Tokens)
          BY <1>0, <3>1
        <5>2. NoOk(f)'
          BY <3>1, <3>3, <4>1, <5>1, NoOkFacts DEF NoOk
        <5>. QED
          BY <3>1, <3>3, <5>2 DEF Young
      <4>2. CASE ~NoOk(f)
        <5>1. /\ loop[f] \in {"read", "line"} /\ stdout[f] # <<>>
              /\ Head(stdout[f]) = Token("ok", Nil) /\ Clear(w, f, Tail(stdout[f]))
          BY <3>1, <3>3, <4>2 DEF Young
        <5>2. PICK t : t = Answer(Head(stdin[q]).job)
          OBVIOUS
        <5>a. PICK out : out = Tail(stdout[f])
          OBVIOUS
        <5>3. Tail(stdout[f]) = <<>> /\ Clear(w, f, t)'
          BY <2>b, <3>1, <3>3, <5>1, <5>2, <5>a
        <5>4. /\ stdout'[f] # <<>> /\ Head(stdout'[f]) = Token("ok", Nil)
              /\ Tail(stdout'[f]) = t
          <6>1. Head(stdin[q]) \in Tokens
            BY <1>0, <3>3, SeqFacts
          <6>2. Head(stdin[q]).job \in Jobs
            BY <3>3, <6>1 DEF Tokens
          <6>3. t \in Seq(Tokens) /\ <<>> \o t = t
            BY <5>2, <6>2 DEF Answer, Token, Tokens
          <6>4. stdout[f] \in Seq(Tokens) /\ stdout'[f] = stdout[f] \o t
            BY <1>0, <3>1, <3>3, <5>2
          <6>5. /\ stdout'[f] # <<>> /\ Head(stdout'[f]) = Head(stdout[f])
                /\ Tail(stdout'[f]) = Tail(stdout[f]) \o t
            BY <5>1, <6>3, <6>4, AddedBehind
          <6>. QED
            BY <5>1, <5>3, <6>3, <6>5
        <5>. QED
          BY <3>1, <3>3, <5>1, <5>3, <5>4 DEF Young
      <4>. QED
        BY <4>1, <4>2
    <3>4. CASE proc'[q] = "dead"
      BY <3>1, <3>4 DEF Young
    <3>5. CASE /\ proc[q] = "up" /\ proc'[q] = "up" /\ Framed(q)
               /\ stdout'[q] \in {stdout[q], stdout[q] \o Answer("mixed")}
      <4>1. NoOk(f)
        BY <3>1, <3>5, ClearFramed DEF Young
      <4>2. stdout[f] \in Seq(Tokens)
        BY <1>0, <3>1
      <4>3. NoOk(f)'
        BY <3>1, <3>5, <4>1, <4>2, NoOkFacts DEF NoOk
      <4>. QED
        BY <3>1, <3>5, <4>3 DEF Young
    <3>. QED
      BY <3>2, <3>3, <3>4, <3>5, ProcessEffect
  <2>4. ASSUME NEW k \in Taken(w), loop[k] = "select" PROVE Own(w, k)'
    <3>1. Settled(w) /\ Own(w, k) /\ k \in Jobs
      BY <2>4, SelectEnded DEF Taken
    <3>2. CASE write[w] # q \/ send[k] \notin {"flush", "read", "length", "body", "copy"}
      BY <1>0, <1>1, <1>2, <3>1, <3>2, OwnSame DEF sendVars, fields
    <3>3. CASE write[w] = q /\ send[k] = "flush"
      BY <1>1, <3>1, <3>3 DEF Own, sendVars, fields
    <3>4. CASE write[w] = q /\ send[k] \in {"read", "length", "body", "copy"}
      <4>1. /\ proc[q] # "starting" /\ read[w] = q /\ q # Nil /\ ~Framed(q)
            /\ UNCHANGED <<sendVars, read, write>>
        <5>1. \A x : Head(<<Token("msg", x)>>).kind = "msg"
          BY Tuples DEF Token
        <5>2. ~Framed(q)
          BY <3>1, <3>4, <5>1 DEF Own, Framed
        <5>. QED
          BY <1>0, <1>1, <3>1, <3>4, <5>2 DEF Settled, fields
      <4>2. CASE /\ stdin[q] = <<>>
                 /\ proc'[q] = "dead" /\ stdin'[q] = <<>> /\ stdout'[q] = stdout[q]
        BY <3>1, <3>4, <4>1, <4>2, Tuples DEF Own, sendVars, Answer
      <4>3. CASE stdin[q] # <<>>
        <5>1. /\ stdin[q] = <<Token("msg", k)>> /\ stdout[q] = <<>>
              /\ send[k] \in {"read", "length"} /\ got[k] = "none"
              /\ send[k] = "length" => pipe[k] = q
          BY <3>1, <3>4, <4>3 DEF Own
        <5>2. Head(stdin[q]).job = k /\ Tail(stdin[q]) = <<>>
          BY <5>1, Tuples DEF Token
        <5>3. stdin'[q] = <<>> /\ stdout'[q] \in {<<>>, <<Token("len", k)>>, Answer(k)}
          <6>1. <<>> \o Answer(k) = Answer(k) /\ \A x : Append(<<>>, x) = <<x>>
            BY DEF Answer
          <6>2. stdout[q] = <<>> /\ Head(stdin[q]).job = k /\ Tail(stdin[q]) = <<>>
            BY <5>1, <5>2
          <6>3. \/ /\ stdin'[q] = Tail(stdin[q])
                   /\ stdout'[q] = stdout[q] \o Answer(Head(stdin[q]).job)
                \/ /\ stdin'[q] = <<>>
                   /\ \/ stdout'[q] = stdout[q]
                      \/ stdout'[q] = Append(stdout[q], Token("len", Head(stdin[q]).job))
            BY <4>1, ProcessEffect
          <6>4. \/ stdin'[q] = <<>> /\ stdout'[q] = <<>> \o Answer(k)
                \/ /\ stdin'[q] = <<>>
                   /\ stdout'[q] = <<>> \/ stdout'[q] = Append(<<>>, Token("len", k))
            BY <6>2, <6>3
          <6>. QED
            BY <6>1, <6>4
        <5>. QED
          BY <3>4, <4>1, <5>1, <5>3 DEF Own, sendVars, Answer
      <4>. QED
        BY <4>1, <4>2, <4>3, ProcessEffect
    <3>. QED
      BY <3>2, <3>3, <3>4
  <2>. QED
    BY <1>1, <2>2, <2>3, <2>4 DEF Talk, loopVars
<1>. QED
  BY <1>3, <1>4

\* Pool.Stop keeps the pipes of a worker in order.
LEMMA TalkStop ==
  ASSUME TypeOK, WellFormed, Locks, IsolationPoints, LoopsInv, FailedInv, FirstInv,
         Stop, ~Panic, NEW w \in Workers, Single(w), Talk(w)
  PROVE  Talk(w)'
<1>0. /\ stdin \in [Procs -> Seq(Tokens)] /\ stdout \in [Procs -> Seq(Tokens)]
      /\ proc \in [Procs -> {"none", "starting", "up", "dead", "reaped"}]
      /\ write \in [Workers -> Procs \cup {Nil}] /\ Nil \notin Procs /\ Jobs \subseteq Procs
      /\ mu \in [Workers -> Jobs \cup {Stopper, Nil}] /\ Workers \cap Jobs = {}
      /\ DOMAIN cmd = Workers /\ DOMAIN read = Workers
      /\ Nil \notin Jobs /\ Stopper \notin Jobs /\ Stopper # Nil
  BY PoolAssumption DEF TypeOK, ProcType, FieldType, MutexType, Procs
<1>1. /\ UNCHANGED <<loopVars, sendVars, stdout>>
      /\ Failed(w)' = Failed(w) /\ Taken(w)' = Taken(w) /\ (Ended(w)' <=> Ended(w))
      /\ Failed(w) \subseteq Jobs
  <2>1. UNCHANGED <<loopVars, sendVars>>
    BY StopFrame DEF TypeOK
  <2>2. UNCHANGED stdout
    BY DEF Stop, StopClose, StopNext, StopCheck, StopWrite, StopFlush, StopWait, StopReap,
       procVars
  <2>. QED
    BY <2>1, <2>2 DEF Failed, Taken, Ended, loopVars
<1>2. \A p \in {write[w]} \cup Failed(w) : p # Nil => p \in Procs /\ Owns(w, p)
  BY <1>0 DEF IsolationPoints, Owns, Failed
<1>3. ASSUME cmd'[w] = cmd[w], read'[w] = read[w], write'[w] = write[w], mu'[w] = mu[w],
             mu[w] # Stopper,
             \A p \in Procs : Owns(w, p) => proc'[p] = proc[p] /\ stdin'[p] = stdin[p]
      PROVE  Talk(w)'
  BY <1>1, <1>2, <1>3, TalkSame DEF loopVars, sendVars
<1>4. ASSUME mu[w] \in {Nil, Stopper}, NEW k \in Taken(w), loop[k] = "select" PROVE Own(w, k)'
  <2>1. Own(w, k) /\ k \in Jobs /\ owner[k] = w
    BY <1>4, SelectEnded DEF Taken
  <2>2. send[k] \notin Inside
    BY <1>0, <1>4, <2>1 DEF Locks
  <2>. QED
    BY <1>1, <2>1, <2>2, OwnSame DEF Inside, sendVars
<1>5. ASSUME mu[w] \in {Nil, Stopper}, NEW p, NEW out, Clear(w, p, out)
      PROVE  Blank(p, out) \/ (mu[w] = Stopper /\ Quitting(p, out))
  BY <1>0, <1>5 DEF Clear
<1>6. \A p, out : stdin'[p] = stdin[p] /\ Blank(p, out) => Clear(w, p, out)'
  BY DEF Blank, Clear
\* What is left to show of the worker that Stop is at.
<1>7. ASSUME mu[w] \in {Nil, Stopper},
             Ended(w) => Settled(w)',
             \A f \in Failed(w) : loop[f] \in Opening => Young(w, f)'
      PROVE  Talk(w)'
  BY <1>1, <1>4, <1>7 DEF Talk, loopVars
<1>8. ASSUME mu[w] \in {Nil, Stopper}, UNCHANGED <<fields, proc>>,
             \A p \in Procs : \A out :
               Clear(w, p, out) /\ p = write[w] /\ Ended(w) => Clear(w, p, out)',
             \A p \in Procs : \A out :
               Clear(w, p, out) /\ p \in Failed(w) /\ loop[p] \in Opening => Clear(w, p, out)'
      PROVE  Talk(w)'
  <2>1. ASSUME Ended(w) PROVE Settled(w)'
    <3>1. CASE write[w] = Nil
      BY <1>8, <3>1 DEF Settled, fields
    <3>2. CASE write[w] # Nil
      <4>0. PICK p \in Procs : p = write[w]
        BY <1>0, <3>2
      <4>1. PICK out : p = write[w] /\ out = stdout[p]
        BY <4>0
      <4>2. read[w] = p /\ proc[p] \notin {"none", "starting"} /\ (Down(p) \/ Clear(w, p, out))
        BY <2>1, <3>2, <4>1 DEF Talk, Settled
      <4>3. Down(p)' \/ Clear(w, p, out)'
        BY <1>8, <2>1, <4>1, <4>2 DEF Down
      <4>4. p = write'[w] /\ out = stdout'[p] /\ read'[w] = p /\ proc'[p] = proc[p]
        BY <1>1, <1>8, <4>1, <4>2 DEF fields
      <4>. QED
        BY <4>2, <4>3, <4>4 DEF Settled
    <3>. QED
      BY <3>1, <3>2
  <2>2. ASSUME NEW f \in Failed(w), loop[f] \in Opening PROVE Young(w, f)'
    <3>1. Young(w, f) /\ f \in Procs
      BY <1>0, <1>1, <2>2 DEF Talk
    <3>2. PICK out : out = Tail(stdout[f])
      OBVIOUS
    <3>3. /\ Clear(w, f, <<>>) => Clear(w, f, <<>>)'
          /\ Clear(w, f, out) => Clear(w, f, out)'
      BY <1>8, <2>2, <3>1
    <3>4. out = Tail(stdout'[f]) /\ UNCHANGED <<stdout, loop, proc>>
      BY <1>1, <1>8, <3>2 DEF loopVars
    <3>. QED
      BY <3>1, <3>2, <3>3, <3>4 DEF Young, NoOk
  <2>. QED
    BY <1>7, <1>8, <2>1, <2>2
<1>9. stop \in {"none", "next"} => mu[w] # Stopper
  BY DEF Locks, InStop, Stopping
<1>10. stop \in Stopping =>
         stopAt \in Workers /\ (mu[w] = Stopper <=> w = stopAt) /\ DOMAIN proc = Procs
  BY <1>0 DEF Locks, InStop, WellFormed, StopWell, TypeOK, StopType
<1>11. CASE StopClose
  BY <1>3, <1>9, <1>11 DEF StopClose, fields, procVars
<1>12. CASE StopNext
  <2>1. stop = "next" /\ UNCHANGED <<fields, proc, stdin>>
    BY <1>12 DEF StopNext, procVars
  <2>2. CASE mu'[w] = mu[w]
    BY <1>3, <1>9, <2>1, <2>2 DEF fields
  <2>3. CASE mu'[w] # mu[w]
    <3>1. mu[w] = Nil
      BY <1>0, <1>12, <2>3 DEF StopNext
    <3>. QED
      BY <1>0, <1>5, <1>6, <1>8, <2>1, <3>1
  <2>. QED
    BY <2>2, <2>3
<1>a. CASE StopCheck \/ StopWrite
  <2>0. /\ stop \in {"check", "write"} /\ UNCHANGED <<fields, proc, stdin>>
        /\ mu' = mu \/ mu' = [mu EXCEPT ![stopAt] = Nil]
    BY <1>a DEF StopCheck, StopWrite, StopUnlock, procVars
  <2>1. stopAt \in Workers /\ (mu[w] = Stopper <=> w = stopAt)
    BY <1>10, <2>0 DEF Stopping
  <2>2. CASE w # stopAt
    <3>1. mu'[w] = mu[w] /\ mu[w] # Stopper
      BY <1>0, <2>0, <2>1, <2>2
    <3>. QED
      BY <1>3, <2>0, <3>1 DEF fields
  <2>3. CASE w = stopAt
    <3>1. mu[w] = Stopper /\ \A p, out : ~Quitting(p, out)
      BY <2>0, <2>1, <2>3 DEF Quitting
    <3>. QED
      BY <1>5, <1>6, <1>8, <2>0, <3>1
  <2>. QED
    BY <2>2, <2>3
<1>13. CASE StopFlush
  <2>0. /\ stop = "flush" /\ UNCHANGED <<fields, proc>> /\ stopAt \in Workers
        /\ mu[w] = Stopper <=> w = stopAt
        /\ mu' = mu \/ mu' = [mu EXCEPT ![stopAt] = Nil]
        /\ \/ UNCHANGED stdin
           \/ /\ write[stopAt] # Nil /\ UNCHANGED mu /\ stop' = "wait"
              /\ stdin' = [stdin EXCEPT ![write[stopAt]] = Append(@, Token("quit", Nil))]
    BY <1>10, <1>13 DEF StopFlush, StopUnlock, Stopping
  <2>1. CASE w # stopAt
    <3>1. mu'[w] = mu[w] /\ mu[w] # Stopper
      BY <1>0, <2>0, <2>1
    <3>2. \A p \in Procs : Owns(w, p) => p # write[stopAt]
      <4>1. Owns(stopAt, write[stopAt]) \/ write[stopAt] = Nil
        BY <2>0 DEF IsolationPoints
      <4>2. \A p \in Procs : Owns(w, p) /\ Owns(stopAt, p) => w = stopAt
        BY <1>0, <2>0 DEF Owns
      <4>. QED
        BY <1>0, <2>1, <4>1, <4>2
    <3>3. \A p \in Procs : Owns(w, p) => stdin'[p] = stdin[p]
      BY <1>0, <2>0, <3>2
    <3>. QED
      BY <1>3, <2>0, <3>1, <3>3 DEF fields
  <2>2. CASE w = stopAt
    <3>1. mu[w] = Stopper /\ \A p, out : ~Quitting(p, out)
      BY <2>0, <2>2 DEF Quitting
    <3>2. CASE UNCHANGED stdin
      BY <1>5, <1>6, <1>8, <2>0, <3>1, <3>2
    <3>3. CASE /\ write[w] # Nil /\ UNCHANGED mu /\ stop' = "wait"
               /\ stdin' = [stdin EXCEPT ![write[w]] = Append(@, Token("quit", Nil))]
      <4>1. ASSUME NEW p \in Procs, NEW out, Clear(w, p, out), p = write[w] PROVE Clear(w, p, out)'
        <5>1. stdin[p] = <<>> /\ out = <<>>
          BY <1>5, <3>1, <4>1 DEF Blank
        <5>2. stdin'[p] = <<Token("quit", Nil)>>
          BY <1>0, <3>3, <4>1, <5>1, Tuples
        <5>. QED
          BY <3>1, <3>3, <5>1, <5>2 DEF Clear, Quitting
      <4>2. \A f \in Failed(w) : loop[f] \in Opening => f = write[w]
        BY OpeningFields
      <4>. QED
        BY <1>8, <2>0, <3>1, <4>1, <4>2
    <3>. QED
      BY <2>0, <2>2, <3>2, <3>3
  <2>. QED
    BY <2>1, <2>2
<1>14. CASE StopWait
  <2>0. /\ stop = "wait" /\ UNCHANGED <<fields, proc, stdin, mu>> /\ cmd[stopAt] # Nil
        /\ waits' = cmd[stopAt] /\ stop' = "reap"
    BY <1>14 DEF StopWait, procVars
  <2>1. CASE w # stopAt
    BY <1>3, <1>10, <2>0, <2>1 DEF fields, Stopping
  <2>2. CASE w = stopAt
    <3>1. mu[w] = Stopper
      BY <1>10, <2>0, <2>2 DEF Stopping
    <3>2. Ended(w) => write[w] = cmd[w]
      <4>1. CASE Failed(w) = {}
        BY <2>0, <2>2, <4>1 DEF FirstInv, Fresh, Old, AllAre
      <4>2. CASE \E f \in Jobs : Failed(w) = {f}
        BY <2>0, <2>2, <4>2 DEF FirstInv, Since, Began, AllAre, Ended
      <4>. QED
        BY <4>1, <4>2 DEF Single
    <3>3. \A f \in Failed(w) : loop[f] \notin Opening
      BY <2>0, <2>2, OpeningFields
    <3>4. ASSUME NEW p \in Procs, NEW out, Clear(w, p, out), p = write[w], Ended(w)
          PROVE  Clear(w, p, out)'
      <4>1. CASE Blank(p, out)
        BY <1>6, <2>0, <4>1
      <4>2. CASE Quitting(p, out)
        BY <2>0, <2>2, <3>1, <3>2, <3>4, <4>2 DEF Quitting, Clear
      <4>. QED
        BY <1>5, <3>1, <3>4, <4>1, <4>2
    <3>. QED
      BY <1>8, <2>0, <3>1, <3>3, <3>4
  <2>. QED
    BY <2>1, <2>2
<1>15. CASE StopReap
  <2>0. /\ stop = "reap" /\ UNCHANGED stdin /\ Down(waits) /\ waits \in Procs /\ stopAt \in Workers
        /\ proc' = [proc EXCEPT ![waits] = "reaped"] /\ mu' = [mu EXCEPT ![stopAt] = Nil]
        /\ \/ UNCHANGED fields
           \/ /\ cmd' = [cmd EXCEPT ![stopAt] = Nil] /\ read' = [read EXCEPT ![stopAt] = Nil]
              /\ write' = [write EXCEPT ![stopAt] = Nil]
    BY <1>10, <1>15 DEF StopReap, StopUnlock, WellFormed, StopWell, TypeOK, StopType, Stopping
  <2>1. CASE w # stopAt
    <3>1. \A p \in Procs : Owns(w, p) => p # waits
      BY <1>0, <2>0, <2>1, PoolAssumption DEF IsolationPoints, Owns
    <3>2. /\ cmd'[w] = cmd[w] /\ read'[w] = read[w] /\ write'[w] = write[w] /\ mu'[w] = mu[w]
          /\ mu[w] # Stopper
      BY <1>0, <1>10, <2>0, <2>1 DEF fields, Stopping
    <3>. QED
      BY <1>0, <1>3, <2>0, <3>1, <3>2
  <2>2. CASE w = stopAt
    <3>1. mu[w] = Stopper
      BY <1>10, <2>0, <2>2 DEF Stopping
    <3>2. ASSUME NEW p \in Procs, NEW out, Clear(w, p, out), ~Down(p) \/ p # waits
          PROVE  Clear(w, p, out)'
      <4>1. ~Quitting(p, out)
        BY <2>0, <3>2 DEF Quitting
      <4>. QED
        BY <1>5, <1>6, <2>0, <3>1, <3>2, <4>1
    <3>3. \A p \in Procs : proc'[p] = IF p = waits THEN "reaped" ELSE proc[p]
      BY <1>0, <2>0
    <3>4. ASSUME Ended(w) PROVE Settled(w)'
      <4>1. CASE write'[w] = Nil
        BY <4>1 DEF Settled
      <4>2. CASE write'[w] # Nil
        <5>1. UNCHANGED fields
          BY <1>0, <2>0, <2>2, <4>2
        <5>a. PICK p \in Procs : p = write[w] /\ p = write'[w]
          BY <1>0, <4>2, <5>1 DEF fields
        <5>2. PICK out : p = write[w] /\ p = write'[w] /\ out = stdout[p]
          BY <5>a
        <5>3. read[w] = p /\ proc[p] \notin {"none", "starting"} /\ (Down(p) \/ Clear(w, p, out))
          BY <1>0, <3>4, <5>2 DEF Talk, Settled
        <5>4. Down(p)' \/ Clear(w, p, out)'
          BY <3>2, <3>3, <5>3 DEF Down
        <5>5. out = stdout'[p] /\ read'[w] = p /\ proc'[p] \notin {"none", "starting"}
          BY <1>1, <3>3, <5>1, <5>2, <5>3 DEF fields
        <5>. QED
          BY <5>2, <5>4, <5>5 DEF Settled
      <4>. QED
        BY <4>1, <4>2
    <3>5. ASSUME NEW f \in Failed(w), loop[f] \in Opening PROVE Young(w, f)'
      <4>1. Young(w, f) /\ f \in Procs /\ f # w /\ f \in Jobs /\ Failed(w) = {f}
        BY <1>0, <1>1, <3>5, OpeningFields DEF Talk
      <4>2. waits = w
        BY <2>0, <2>2, <3>5, <4>1 DEF FirstInv, Since, Opening
      <4>3. PICK out : out = Tail(stdout[f])
        OBVIOUS
      <4>4. /\ Clear(w, f, <<>>) => Clear(w, f, <<>>)'
            /\ Clear(w, f, out) => Clear(w, f, out)'
        BY <3>2, <4>1, <4>2
      <4>5. out = Tail(stdout'[f]) /\ UNCHANGED <<stdout, loop>> /\ proc'[f] = proc[f]
        BY <1>1, <3>3, <4>1, <4>2, <4>3 DEF loopVars
      <4>. QED
        BY <4>1, <4>3, <4>4, <4>5 DEF Young, NoOk
    <3>. QED
      BY <1>7, <3>1, <3>4, <3>5
  <2>. QED
    BY <2>1, <2>2
<1>. QED
  BY <1>11, <1>12, <1>a, <1>13, <1>14, <1>15 DEF Stop

\* What a loop iteration leaves alone of the send goroutines.
LEMMA LoopSends ==
  ASSUME TypeOK, WellFormed, Locks, NEW j \in Jobs, Loop(j), ~Panic
  PROVE  /\ UNCHANGED <<owner, pipe, got, mu, stop, stopAt, waits>> /\ owner[j] \in Workers
         /\ \A k \in Jobs : k # j \/ loop[j] # "select" => send'[k] = send[k]
         /\ \A w \in Workers, k \in Jobs : mu[w] = k => send'[k] = send[k]
<1>1. /\ UNCHANGED <<owner, pipe, mu, stop, stopAt, waits>> /\ owner[j] \in Workers
      /\ send' = send \/ (send[j] = "result" /\ send' = [send EXCEPT ![j] = "gone"])
      /\ DOMAIN send = Jobs
  BY LoopFrame, Owned DEF TypeOK, SendType
<1>2. got' = got /\ (loop[j] # "select" => send' = send)
  BY DEF Loop, Restart, Receive, Timeout, AfterRestart, RestartCheck,
     RestartKill, RestartWait, RestartReap, RestartReset, StartReader, StartSpawn,
     StartRead, StartLine, StartDrain, StartDone, sendVars
<1>3. \A w \in Workers, k \in Jobs : mu[w] = k => send[k] # "result"
  BY DEF Locks, Inside
<1>. QED
  BY <1>1, <1>2, <1>3

\* The restart of the one failed job of a worker takes over the pipes of the old
\* process when it is gone, and of the new one as they are.
LEMMA TalkRestart ==
  ASSUME TypeOK, WellFormed, Locks, IsolationPoints, LoopsInv, FailedInv, FirstInv, NewInv,
         NEW j \in Jobs, Restart(j), ~Panic, Failed(owner[j]) = {j}, Talk(owner[j])
  PROVE  /\ loop'[j] \in {"ready", "after", "done"} => Settled(owner[j])'
         /\ loop'[j] \in Opening => Young(owner[j], j)'
<1>. DEFINE w == owner[j]
<1>0. /\ stdin \in [Procs -> Seq(Tokens)] /\ stdout \in [Procs -> Seq(Tokens)]
      /\ proc \in [Procs -> {"none", "starting", "up", "dead", "reaped"}]
      /\ write \in [Workers -> Procs \cup {Nil}] /\ read \in [Workers -> Procs \cup {Nil}]
      /\ DOMAIN cmd = Workers /\ Nil \notin Procs /\ Jobs \subseteq Procs /\ j \in Procs
      /\ DOMAIN loop = Jobs /\ Workers \subseteq Procs
  BY PoolAssumption DEF TypeOK, ProcType, FieldType, LoopType, Procs
<1>1. UNCHANGED <<owner, pipe, got, mu, stop, waits>> /\ w \in Workers /\ Loop(j)
  BY LoopSends DEF Loop
<1>2. Since(w, j)
  BY <1>1 DEF FirstInv
<1>3. ASSUME NEW p, NEW out, Clear(w, p, out), stdin'[p] = stdin[p] PROVE Clear(w, p, out)'
  BY <1>1, <1>3, LoopSends, ClearSame
<1>4. ASSUME loop[j] \in Opening PROVE Young(w, j)
  BY <1>1, <1>4 DEF Talk
<1>5. CASE RestartCheck(j) \/ RestartWait(j) \/ RestartReap(j) \/ RestartReset(j)
  <2>1. loop'[j] \in {"reset", "kill", "reap", "start"}
    BY <1>0, <1>5 DEF RestartCheck, RestartWait, RestartReap, RestartReset, Goto
  <2>. QED
    BY <2>1 DEF Opening
<1>6. CASE RestartKill(j)
  <2>1. /\ loop[j] = "kill" /\ UNCHANGED fields /\ cmd[w] # Nil
        /\ loop'[j] = "wait" \/ (loop'[j] = "after" /\ proc[cmd[w]] = "reaped" /\ UNCHANGED proc)
    BY <1>0, <1>6 DEF RestartKill, Goto
  <2>2. AllAre(w, w)
    BY <1>2, <2>1 DEF Since, Old, AllAre
  <2>3. loop'[j] = "after" => Settled(w)'
    BY <1>0, <1>1, <2>1, <2>2 DEF Settled, AllAre, fields, Down
  <2>. QED
    BY <2>1, <2>3 DEF Opening
<1>7. CASE StartReader(j)
  <2>1. loop'[j] = "spawn"
    BY <1>0, <1>2, <1>7 DEF StartReader, Goto, Since, AllAre
  <2>. QED
    BY <2>1 DEF Opening
<1>8. CASE StartSpawn(j)
  <2>1. /\ proc[j] = "none" /\ read[w] = j /\ stdin[j] = <<>> /\ stdout[j] = <<>>
    BY <1>0, <1>2, <1>8 DEF StartSpawn, Since, NewInv
  <2>2. /\ read'[w] = j /\ write'[w] = j /\ stdin'[j] = <<>> /\ stdout'[j] = <<>>
        /\ \/ loop'[j] = "read" /\ proc'[j] = "starting"
           \/ loop'[j] = "after" /\ proc'[j] = "reaped"
    BY <1>0, <1>1, <1>8, <2>1 DEF StartSpawn, Goto
  <2>3. Clear(w, j, <<>>)'
    BY <2>2 DEF Clear, Blank
  <2>4. loop'[j] = "read" => Young(w, j)'
    BY <2>2, <2>3 DEF Young
  <2>5. loop'[j] = "after" => Settled(w)'
    BY <1>1, <2>2 DEF Settled, Down
  <2>. QED
    BY <2>2, <2>4, <2>5 DEF Opening
<1>9. CASE StartRead(j)
  <2>1. /\ UNCHANGED <<proc, stdin, stdout>>
        /\ \/ loop[j] = "read" /\ loop'[j] = "line"
           \/ loop[j] = "other" /\ loop'[j] = "drain"
    BY <1>0, <1>9 DEF StartRead, Goto, procVars
  <2>2. Young(w, j)
    BY <1>4, <2>1 DEF Opening
  <2>3. PICK out : out = Tail(stdout[j])
    OBVIOUS
  <2>4. /\ Clear(w, j, <<>>) => Clear(w, j, <<>>)'
        /\ Clear(w, j, out) => Clear(w, j, out)'
    BY <1>3, <2>1
  <2>5. Young(w, j)'
    BY <2>1, <2>2, <2>3, <2>4 DEF Young, NoOk
  <2>. QED
    BY <2>1, <2>5
<1>10. CASE StartLine(j) \/ StartDrain(j)
  <2>1. /\ loop[j] \in {"line", "drain"} /\ target[j] = j /\ read[w] = j /\ write[w] = j
        /\ proc[j] # "none" /\ UNCHANGED <<proc, stdin, fields>> /\ Young(w, j)
    BY <1>2, <1>4, <1>10 DEF StartLine, StartDrain, Since, Began, Opening
  <2>2. CASE loop'[j] = "after" /\ Down(j)
    <3>1. Settled(w)'
      BY <1>1, <2>1, <2>2 DEF Settled, Down, fields
    <3>. QED
      BY <2>2, <3>1 DEF Opening
  <2>3. CASE /\ stdout[j] # <<>> /\ stdout' = [stdout EXCEPT ![j] = Tail(@)]
             /\ \/ /\ loop[j] = "line"
                   /\ loop'[j] = IF Head(stdout[j]).kind = "ok" THEN "ready" ELSE "other"
                \/ loop'[j] = loop[j] /\ (loop[j] = "line" => Head(stdout[j]).kind = "body")
    <3>1. stdout'[j] = Tail(stdout[j]) /\ stdout[j] \in Seq(Tokens) /\ proc[j] # "starting"
      BY <1>0, <2>1, <2>3 DEF Young
    <3>2. CASE loop'[j] = "ready"
      <4>1. Head(stdout[j]).kind = "ok" /\ loop[j] = "line"
        BY <2>1, <2>3, <3>2
      <4>2. ~NoOk(j)
        <5>1. 1 \in DOMAIN stdout[j] /\ Head(stdout[j]) = stdout[j][1]
          BY <2>3, <3>1
        <5>. QED
          BY <4>1, <5>1 DEF NoOk
      <4>3. PICK out : out = Tail(stdout[j])
        OBVIOUS
      <4>4. Down(j) \/ Clear(w, j, out)
        BY <1>0, <2>1, <3>1, <4>2, <4>3 DEF Young, Down
      <4>5. Down(j)' \/ Clear(w, j, out)'
        BY <1>3, <2>1, <4>4 DEF Down
      <4>6. Settled(w)'
        BY <1>1, <2>1, <3>1, <4>3, <4>5 DEF Settled, fields
      <4>. QED
        BY <3>2, <4>6 DEF Opening
    <3>3. CASE loop'[j] \in {"other", "line", "drain"}
      <4>1. loop[j] = "line" => Head(stdout[j]).kind # "ok"
        BY <2>3, <3>3
      <4>2. proc[j] = "up" => NoOk(j)
        BY <2>1, <4>1 DEF Young, Token
      <4>3. proc[j] = "up" => NoOk(j)'
        BY <2>3, <3>1, <4>2, NoOkFacts DEF NoOk
      <4>4. Young(w, j)'
        BY <2>1, <3>1, <4>3 DEF Young
      <4>. QED
        BY <3>3, <4>4
    <3>. QED
      BY <2>1, <2>3, <3>2, <3>3
  <2>4. CASE StartLine(j)
    <3>1. CASE Eof(j) /\ Goto(j, "after")
      BY <1>0, <2>2, <3>1 DEF Eof, Down, Goto
    <3>2. CASE ~(Eof(j) /\ Goto(j, "after"))
      <4>1. /\ stdout[j] # <<>> /\ stdout' = [stdout EXCEPT ![j] = Tail(@)]
            /\ \/ loop'[j] = IF Head(stdout[j]).kind = "ok" THEN "ready" ELSE "other"
               \/ loop'[j] = loop[j] /\ Head(stdout[j]).kind = "body"
        BY <1>0, <2>1, <2>4, <3>2 DEF StartLine, Goto
      <4>. QED
        BY <2>3, <2>4, <4>1 DEF StartLine
    <3>. QED
      BY <3>1, <3>2
  <2>5. CASE StartDrain(j)
    <3>1. CASE Eof(j) /\ Goto(j, "after")
      BY <1>0, <2>2, <3>1 DEF Eof, Down, Goto
    <3>2. CASE ~(Eof(j) /\ Goto(j, "after"))
      BY <2>1, <2>3, <2>5, <3>2 DEF StartDrain
    <3>. QED
      BY <3>1, <3>2
  <2>. QED
    BY <1>10, <2>4, <2>5
<1>11. CASE StartDone(j)
  <2>1. /\ loop[j] = "ready" /\ loop'[j] = "after" /\ UNCHANGED <<read, write, proc, stdin, stdout>>
    BY <1>0, <1>11 DEF StartDone, Goto, procVars
  <2>2. Settled(w)
    BY <1>1, <2>1 DEF Talk, Ended
  <2>3. CASE write[w] = Nil
    BY <1>1, <2>1, <2>3 DEF Settled, Opening
  <2>4. CASE write[w] # Nil
    <3>1. PICK p, out : p = write[w] /\ out = stdout[p]
      OBVIOUS
    <3>2. read[w] = p /\ proc[p] \notin {"none", "starting"} /\ (Down(p) \/ Clear(w, p, out))
      BY <2>2, <2>4, <3>1 DEF Settled
    <3>3. Down(p)' \/ Clear(w, p, out)'
      BY <1>3, <2>1, <3>2 DEF Down
    <3>4. p = write'[w] /\ out = stdout'[p] /\ read'[w] = p /\ proc'[p] = proc[p]
      BY <2>1, <3>1, <3>2
    <3>5. Settled(w)'
      BY <1>1, <3>2, <3>3, <3>4 DEF Settled
    <3>. QED
      BY <2>1, <3>5 DEF Opening
  <2>. QED
    BY <2>3, <2>4
<1>. QED
  BY <1>5, <1>6, <1>7, <1>8, <1>9, <1>10, <1>11 DEF Restart

\* A loop iteration keeps the pipes of a worker in order that has not failed twice.
LEMMA TalkLoop ==
  ASSUME TypeOK, WellFormed, Locks, IsolationPoints, LoopsInv, FailedInv, FirstInv, NewInv,
         NEW j \in Jobs, Loop(j), ~Panic,
         NEW w \in Workers, Single(w), Talk(w), Single(w)'
  PROVE  Talk(w)'
<1>0. /\ write \in [Workers -> Procs \cup {Nil}] /\ Nil \notin Procs /\ Jobs \subseteq Procs
      /\ DOMAIN loop = Jobs /\ DOMAIN reply = Jobs
      /\ {"select", "done"} \cap Restarts = {} /\ "none" \notin Failures
  BY PoolAssumption DEF TypeOK, FieldType, LoopType, Procs, Restarts, Began, Failures
<1>1. /\ UNCHANGED <<owner, pipe, got, mu, stop, stopAt, waits>> /\ owner[j] \in Workers
      /\ \A k \in Jobs : k # j \/ loop[j] # "select" => send'[k] = send[k]
      /\ \A v \in Workers, k \in Jobs : mu[v] = k => send'[k] = send[k]
  BY LoopSends
<1>2. /\ \A k \in Jobs \ {j} : loop'[k] = loop[k] /\ reply'[k] = reply[k]
      /\ \A v \in Workers \ {owner[j]} :
           cmd'[v] = cmd[v] /\ read'[v] = read[v] /\ write'[v] = write[v]
      /\ \A q \in Procs : ~Owns(owner[j], q) => proc'[q] = proc[q]
  BY LoopLocal
<1>3. Taken(w)' = Taken(w) /\ Taken(w) \subseteq Jobs /\ Failed(w) \subseteq Taken(w)
  BY <1>1 DEF Taken, Failed
<1>4. CASE w # owner[j]
  <2>1. Failed(w)' = Failed(w) /\ j \notin Taken(w)
    BY <1>1, <1>2, <1>4 DEF Failed, Taken
  <2>2. \A k \in Taken(w) : loop'[k] = loop[k] /\ send'[k] = send[k]
    BY <1>1, <1>2, <1>3, <2>1
  <2>3. \A p \in {write[w]} \cup Failed(w) : p # Nil =>
          proc'[p] = proc[p] /\ stdin'[p] = stdin[p] /\ stdout'[p] = stdout[p]
    <3>. SUFFICES ASSUME NEW p \in {write[w]} \cup Failed(w), p # Nil
                  PROVE  proc'[p] = proc[p] /\ stdin'[p] = stdin[p] /\ stdout'[p] = stdout[p]
      OBVIOUS
    <3>1. p \in Procs /\ Owns(w, p)
      BY <1>0 DEF IsolationPoints, Owns, Failed
    <3>2. ~Owns(owner[j], p)
      BY <1>0, <1>1, <1>4, <3>1, PoolAssumption DEF Owns, Procs
    <3>. QED
      BY <1>2, <1>4, <3>1, <3>2, PipesLocal
  <2>4. Ended(w)' => Ended(w)
    BY <1>3, <2>1, <2>2 DEF Ended
  <2>. QED
    BY <1>1, <1>2, <1>3, <1>4, <2>1, <2>2, <2>3, <2>4, TalkSame
<1>5. CASE w = owner[j] /\ loop[j] = "select"
  <2>1. /\ UNCHANGED <<fields, proc, stdin, stdout>>
        /\ \/ /\ loop'[j] = "check" /\ \E r \in Failures : reply' = [reply EXCEPT ![j] = r]
           \/ /\ loop'[j] = "done" /\ got[j] # "err" /\ reply' = [reply EXCEPT ![j] = got[j]]
    <3>1. Receive(j) \/ Timeout(j)
      BY <1>5 DEF Loop, Restart, AfterRestart, RestartCheck,
         RestartKill, RestartWait, RestartReap, RestartReset, StartReader, StartSpawn,
         StartRead, StartLine, StartDrain, StartDone
    <3>2. UNCHANGED <<stdin, stdout, fields, proc>>
      BY <3>1 DEF Receive, Timeout, procVars
    <3>. QED
      BY <1>0, <1>5, <3>2, LoopReply
  <2>2. j \in Taken(w) /\ j \notin Failed(w)
    BY <1>0, <1>5 DEF Taken, Failed, FailedInv
  <2>3. CASE loop'[j] = "check" /\ \E r \in Failures : reply' = [reply EXCEPT ![j] = r]
    <3>1. Failed(w)' = Failed(w) \cup {j}
      BY <1>0, <1>1, <1>5, <2>3 DEF Failed
    <3>2. Failed(w)' = {j}
      BY <2>2, <3>1 DEF Single
    <3>3. ASSUME NEW k \in Taken(w), loop'[k] = "select" PROVE Own(w, k)'
      <4>1. k # j /\ k \in Jobs /\ loop[k] = "select" /\ send'[k] = send[k]
        BY <1>1, <1>2, <1>3, <2>3, <3>3
      <4>2. Own(w, k)
        BY <3>3, <4>1, SelectEnded
      <4>. QED
        BY <1>1, <2>1, <4>1, <4>2, OwnSame DEF fields
    <3>. QED
      BY <1>3, <2>3, <3>2, <3>3 DEF Talk, Ended, Opening
  <2>4. CASE loop'[j] = "done" /\ got[j] # "err" /\ reply' = [reply EXCEPT ![j] = got[j]]
    <3>1. Failed(w)' = Failed(w)
      BY <1>0, <1>1, <2>2, <2>4 DEF Failed, FailedInv, Failures
    <3>2. Ended(w)' => Ended(w)
      BY <1>2, <1>3, <2>2, <3>1 DEF Ended
    <3>3. \A f \in Failed(w) : loop'[f] = loop[f]
      BY <1>2, <1>3, <2>2
    <3>4. \A k \in Taken(w)' : loop'[k] = "select" =>
            k \in Taken(w) /\ loop[k] = "select" /\ send'[k] = send[k]
      BY <1>1, <1>2, <1>3, <2>4
    <3>. QED
      BY <1>1, <1>3, <2>1, <3>1, <3>2, <3>3, <3>4, TalkSame DEF fields
  <2>. QED
    BY <2>1, <2>3, <2>4
<1>6. CASE w = owner[j] /\ loop[j] # "select"
  <2>1. /\ loop[j] \in Restarts /\ UNCHANGED <<reply, send>>
        /\ loop'[j] \in Restarts \cup {"done"}
    <3>1. loop[j] \in Restarts /\ UNCHANGED reply /\ loop'[j] \in Restarts \cup {"done"}
      BY <1>0, <1>6, LoopReply
    <3>2. UNCHANGED send
      BY <1>6, LoopFrame DEF Loop, Restart, Receive, Timeout, AfterRestart, RestartCheck,
         RestartKill, RestartWait, RestartReap, RestartReset, StartReader, StartSpawn,
         StartRead, StartLine, StartDrain, StartDone, sendVars
    <3>. QED
      BY <3>1, <3>2
  <2>2. Failed(w)' = Failed(w) /\ Failed(w) = {j}
    <3>1. j \in Failed(w)
      BY <1>6, <2>1 DEF Failed, FailedInv
    <3>. QED
      BY <1>1, <2>1, <3>1 DEF Failed, Single
  <2>3. CASE AfterRestart(j)
    <3>1. /\ loop[j] = "after" /\ loop'[j] = "done" /\ UNCHANGED <<fields, procVars>>
      BY <1>0, <2>3 DEF AfterRestart, Answered, Goto
    <3>2. Ended(w)
      BY <2>2, <3>1 DEF Ended
    <3>3. \A f \in Failed(w) : loop'[f] \notin Opening
      BY <2>2, <3>1 DEF Opening
    <3>4. \A k \in Taken(w)' : loop'[k] = "select" => k \in Taken(w) /\ loop[k] = "select"
      BY <1>2, <1>3, <3>1
    <3>. QED
      BY <1>1, <2>1, <2>2, <3>1, <3>2, <3>3, <3>4, TalkSame DEF fields, procVars
  <2>4. CASE Restart(j)
    <3>1. /\ loop'[j] \in {"ready", "after", "done"} => Settled(w)'
          /\ loop'[j] \in Opening => Young(w, j)'
      BY <1>1, <1>6, <2>2, <2>4, TalkRestart
    <3>2. loop[j] \notin {"after", "done"}
      BY <2>4 DEF Restart, RestartCheck, RestartKill, RestartWait, RestartReap, RestartReset,
         StartReader, StartSpawn, StartRead, StartLine, StartDrain, StartDone
    <3>3. \A k \in Taken(w) : loop'[k] # "select"
      BY <1>0, <1>2, <1>3, <1>6, <2>1, <2>2, <3>2, SelectAlone
    <3>. QED
      BY <1>1, <1>3, <1>6, <2>2, <3>1, <3>3 DEF Talk, Ended
  <2>. QED
    BY <1>0, <1>6, <2>3, <2>4 DEF Loop, Receive, Timeout
<1>. QED
  BY <1>4, <1>5, <1>6

\* A step that does no more than put a job into the queue, or take it out.
LEMMA TalkQueue ==
  ASSUME TypeOK, WellFormed, Locks, FailedInv,
         UNCHANGED vars \/ Panic
           \/ (\E j \in Jobs : Submit(j) /\ ~Panic)
           \/ (\E v \in Workers : LoopExit(v) \/ \E j \in Jobs : Take(v, j)),
         NEW w \in Workers, Talk(w)
  PROVE  Talk(w)'
<1>0. /\ DOMAIN loop = Jobs /\ DOMAIN owner = Jobs /\ DOMAIN send = Jobs
  BY DEF TypeOK, LoopType, SendType
<1>1. /\ UNCHANGED <<reply, pipe, got, fields, mu, procVars, stop, waits>>
      /\ \/ UNCHANGED <<loop, owner, send>>
         \/ \E j \in Jobs : /\ loop[j] = "new" /\ loop' = [loop EXCEPT ![j] = "queued"]
                            /\ UNCHANGED <<owner, send>>
         \/ \E v \in Workers, j \in Jobs :
              /\ loop[j] = "queued" /\ loop' = [loop EXCEPT ![j] = "select"]
              /\ owner' = [owner EXCEPT ![j] = v] /\ send' = [send EXCEPT ![j] = "lock"]
  <2>1. CASE UNCHANGED vars \/ Panic \/ \E v \in Workers : LoopExit(v)
    BY <2>1 DEF vars, Panic, LoopExit, loopVars, sendVars, stopVars
  <2>2. CASE \E j \in Jobs : Submit(j) /\ ~Panic
    BY <2>2 DEF Submit, Goto, sendVars, stopVars
  <2>3. CASE \E v \in Workers, j \in Jobs : Take(v, j)
    <3>1. PICK v \in Workers, j \in Jobs : Take(v, j)
      BY <2>3
    <3>2. loop[j] = "queued"
      BY <3>1, QueueFacts, TakeFrame DEF TypeOK, QueueType, WellFormed
    <3>. QED
      BY <3>1, <3>2 DEF Take, Goto, SendGoto, stopVars
  <2>. QED
    BY <2>1, <2>2, <2>3
<1>2. \A j \in Jobs : loop[j] \in {"new", "queued"} =>
        owner[j] = Nil /\ send[j] = "none" /\ reply[j] = "none"
  BY DEF WellFormed, JobWell, FailedInv
<1>3. /\ \A f \in Jobs : reply[f] \in Failures => owner'[f] = owner[f] /\ loop'[f] = loop[f]
      /\ \A k \in Jobs : loop[k] \notin {"new", "queued"} =>
           loop'[k] = loop[k] /\ owner'[k] = owner[k] /\ send'[k] = send[k]
      /\ \A k \in Jobs : loop[k] \in {"new", "queued"} /\ loop'[k] = "select" =>
           send'[k] = "lock"
  BY <1>0, <1>1, <1>2 DEF Failures
<1>4. /\ Failed(w)' = Failed(w) /\ (Ended(w)' => Ended(w))
      /\ \A f \in Failed(w) : loop'[f] = loop[f]
  <2>1. \A f \in Jobs : reply[f] \notin Failures \/ (owner'[f] = owner[f] /\ loop'[f] = loop[f])
    BY <1>3
  <2>2. Failed(w)' = Failed(w) /\ \A f \in Failed(w) : loop'[f] = loop[f]
    BY <1>1, <2>1 DEF Failed
  <2>. QED
    BY <2>2 DEF Ended
<1>5. \A k \in Taken(w)' : loop'[k] = "select" =>
        \/ send'[k] = "lock"
        \/ k \in Taken(w) /\ loop[k] = "select" /\ send'[k] = send[k]
  BY <1>3 DEF Taken
<1>6. \A k \in Jobs : mu[w] = k => send'[k] = send[k]
  <2>1. \A k \in Jobs : mu[w] = k => send[k] \in Inside
    BY DEF Locks
  <2>2. \A k \in Jobs : loop[k] \in {"new", "queued"} => send[k] \notin Inside
    BY <1>2 DEF Inside
  <2>. QED
    BY <1>3, <2>1, <2>2
<1>. QED
  BY <1>1, <1>4, <1>5, <1>6, TalkSame DEF fields, procVars

\* A failure is for good, and a worker that is sound was sound before.
LEMMA SoundStep ==
  ASSUME TypeOK, WellFormed, Locks, FailedInv, [Next]_vars,
         NEW w \in Workers, Sound(w)'
  PROVE  Sound(w) /\ Single(w)'
<1>1. \A j \in Jobs : reply[j] \in Failures => reply'[j] = reply[j]
  <2>1. CASE \E j \in Jobs : Loop(j) /\ ~Panic
    <3>1. PICK j \in Jobs : Loop(j) /\ ~Panic
      BY <2>1
    <3>2. reply[j] \notin Failures \/ reply' = reply
      BY <3>1, LoopReply DEF FailedInv, Failures
    <3>. QED
      BY <3>1, <3>2, LoopReply DEF TypeOK, LoopType
  <2>2. CASE ~\E j \in Jobs : Loop(j) /\ ~Panic
    BY <2>2, OtherReply
  <2>. QED
    BY <2>1, <2>2
<1>2. \A j \in Jobs : owner[j] = w => owner'[j] = w
  <2>1. CASE \E j \in Jobs : Loop(j) /\ ~Panic
    BY <2>1, LoopSends
  <2>2. CASE ~\E j \in Jobs : Loop(j) /\ ~Panic
    <3>1. \A j \in Jobs : loop[j] = "queued" => owner[j] = Nil
      BY DEF WellFormed, JobWell
    <3>. QED
      BY <2>2, <3>1, OtherReply, PoolAssumption DEF TypeOK, LoopType
  <2>. QED
    BY <2>1, <2>2
<1>3. Failed(w) \subseteq Failed(w)' /\ \A f \in Failed(w) : reply'[f] = reply[f]
  BY <1>1, <1>2 DEF Failed
<1>4. Failed(w) \subseteq Jobs /\ Single(w)'
  BY DEF Failed, Sound
<1>5. Single(w)
  BY <1>3, <1>4 DEF Single
<1>6. Frames => \A f \in Failed(w) : reply[f] # "timeout"
  BY <1>3 DEF Sound
<1>. QED
  BY <1>4, <1>5, <1>6 DEF Sound

\* A send goroutine outlives its wait by a timeout.
LEMMA LateStep ==
  ASSUME TypeOK, WellFormed, Locks, FailedInv, LateInv, [Next]_vars
  PROVE  LateInv'
<1>0. /\ DOMAIN loop = Jobs /\ DOMAIN reply = Jobs /\ DOMAIN send = Jobs
  BY DEF TypeOK, LoopType, SendType
<1>1. CASE \E j \in Jobs : Loop(j) /\ ~Panic
  <2>1. PICK j \in Jobs : Loop(j) /\ ~Panic
    BY <1>1
  <2>0. \A k \in Jobs \ {j} : loop'[k] = loop[k] /\ reply'[k] = reply[k]
    BY <1>0, <2>1, LoopReply
  <2>2. CASE Receive(j)
    <3>1. send' = [send EXCEPT ![j] = "gone"]
      BY <2>2 DEF Receive, SendGoto
    <3>. QED
      BY <1>0, <2>0, <3>1 DEF LateInv
  <2>3. CASE Timeout(j)
    BY <1>0, <2>3 DEF LateInv, Timeout, Goto, sendVars
  <2>4. CASE AfterRestart(j) \/ Restart(j)
    <3>1. UNCHANGED send
      BY <2>1, <2>4 DEF AfterRestart, Restart, Answered, RestartCheck,
         RestartKill, RestartWait, RestartReap, RestartReset, StartReader, StartSpawn,
         StartRead, StartLine, StartDrain, StartDone, sendVars
    <3>a. UNCHANGED reply
      BY <1>0, <2>1, <2>4, LoopReply DEF AfterRestart, Restart, RestartCheck,
         RestartKill, RestartWait, RestartReap, RestartReset, StartReader, StartSpawn,
         StartRead, StartLine, StartDrain, StartDone
    <3>2. loop[j] \notin {"new", "queued", "select"}
      BY <2>4 DEF AfterRestart, Restart, RestartCheck,
         RestartKill, RestartWait, RestartReap, RestartReset, StartReader, StartSpawn,
         StartRead, StartLine, StartDrain, StartDone
    <3>. QED
      BY <2>0, <3>1, <3>a, <3>2 DEF LateInv
  <2>. QED
    BY <2>1, <2>2, <2>3, <2>4 DEF Loop
<1>2. CASE \E j \in Jobs : Sender(j) /\ ~Panic
  <2>1. PICK j \in Jobs : Sender(j) /\ ~Panic
    BY <1>2
  <2>2. /\ UNCHANGED <<loop, reply>> /\ send[j] # "gone"
        /\ \A k \in Jobs \ {j} : send'[k] = send[k]
    BY <2>1, SenderOthers DEF loopVars, Inside
  <2>. QED
    BY <2>2 DEF LateInv
<1>3. CASE (\E p \in Procs : Process(p)) \/ (Stop /\ ~Panic)
  BY <1>3, ProcessFrame, StopFrame DEF LateInv, TypeOK, loopVars, sendVars
<1>4. CASE UNCHANGED vars \/ Panic \/ \E w \in Workers : LoopExit(w)
  BY <1>4 DEF LateInv, vars, Panic, LoopExit, loopVars, sendVars
<1>5. CASE \E j \in Jobs : Submit(j) /\ ~Panic
  BY <1>0, <1>5 DEF LateInv, Submit, Goto, sendVars
<1>6. CASE \E w \in Workers, j \in Jobs : Take(w, j)
  BY <1>0, <1>6 DEF LateInv, Take, Goto, SendGoto
<1>. QED
  BY <1>1, <1>2, <1>3, <1>4, <1>5, <1>6, NextCases

\* Every step keeps the pipes in order of the workers that are sound.
LEMMA TalkStep ==
  ASSUME IInv, LoopsInv, FailedInv, FirstInv, GotInv, LateInv, NewInv, TalkInv, ~StrayOutput,
         [Next]_vars
  PROVE  TalkInv'
<1>0. TypeOK /\ WellFormed /\ Locks /\ IsolationPoints
  BY DEF IInv
<1>. SUFFICES ASSUME NEW w \in Workers, Sound(w)' PROVE Talk(w)'
  BY DEF TalkInv
<1>1. Sound(w) /\ Single(w) /\ Single(w)' /\ Talk(w)
  BY <1>0, SoundStep DEF TalkInv, Sound
<1>2. CASE \E j \in Jobs : Loop(j) /\ ~Panic
  BY <1>0, <1>1, <1>2, TalkLoop
<1>3. CASE \E j \in Jobs : Sender(j) /\ ~Panic
  BY <1>0, <1>1, <1>3, TalkSender
<1>4. CASE \E q \in Procs : Process(q)
  BY <1>0, <1>1, <1>4, TalkProcess
<1>5. CASE Stop /\ ~Panic
  BY <1>0, <1>1, <1>5, TalkStop
<1>6. CASE \/ UNCHANGED vars \/ Panic
           \/ (\E j \in Jobs : Submit(j) /\ ~Panic)
           \/ (\E v \in Workers : LoopExit(v) \/ \E j \in Jobs : Take(v, j))
  BY <1>0, <1>1, <1>6, TalkQueue
<1>. QED
  BY <1>2, <1>3, <1>4, <1>5, <1>6, NextCases

\* A pool that has just been started has read and written nothing.
LEMMA TalkInit == Init => GotInv /\ LateInv /\ NewInv /\ TalkInv
<1>. SUFFICES ASSUME Init PROVE GotInv /\ LateInv /\ NewInv /\ TalkInv
  OBVIOUS
<1>1. GotInv /\ LateInv
  BY DEF Init, GotInv, LateInv
<1>2. NewInv
  BY PoolAssumption DEF Init, NewInv, Procs
<1>3. TalkInv
  BY PoolAssumption DEF Init, TalkInv, Talk, Failed, Failures, Taken, Settled, Clear, Blank, Procs
<1>. QED
  BY <1>1, <1>2, <1>3

-----------------------------------------------------------------------------
(* The refinement.                                                         *)

\* A worker that has failed no job, or one, is Single.
LEMMA TwoFailures ==
  ASSUME LoopsInv, NEW w \in Workers, ~Single(w)
  PROVE  Cardinality(Failed(w)) > 1
<1>1. IsFiniteSet(Failed(w))
  BY FiniteJobs DEF LoopsInv, Counted
<1>2. PICK f \in Jobs : f \in Failed(w)
  BY DEF Single, Failed
<1>3. PICK g \in Jobs : g \in Failed(w) /\ g # f
  <2>1. Failed(w) # {f}
    BY DEF Single
  <2>. QED
    BY <1>2, <2>1 DEF Failed
<1>4. Cardinality({f, g}) = 2
  <2>1. IsFiniteSet({f}) /\ Cardinality({f}) = 1
    BY FS_Singleton
  <2>2. {f, g} = {f} \cup {g}
    OBVIOUS
  <2>. QED
    BY <1>3, <2>1, <2>2, FS_AddElement
<1>5. {f, g} \in SUBSET Failed(w)
  BY <1>2, <1>3
<1>6. Cardinality({f, g}) <= Cardinality(Failed(w)) /\ Cardinality(Failed(w)) \in Nat
  BY <1>1, <1>5, FS_Subset, FS_CardinalityType
<1>. QED
  BY <1>4, <1>6

\* After these failures of its worker a job may get any answer.
Spoiled(w) ==
  \/ Cardinality(Failed(w)) > 1
  \/ Frames /\ \E f \in Failed(w) : reply[f] = "timeout"

\* A job that does not fail gets its own answer, unless its worker has failed twice, or
\* once by a timeout.
LEMMA OwnAnswer ==
  ASSUME TypeOK, WellFormed, LoopsInv, GotInv, TalkInv, NEW j \in Jobs, Receive(j), got[j] # "err"
  PROVE  got[j] \in Jobs \cup {"mixed"} /\ (got[j] = j \/ Spoiled(owner[j]))
<1>1. loop[j] = "select" /\ send[j] = "result" /\ owner[j] \in Workers
  BY Owned DEF Receive, TypeOK
<1>2. got[j] \in Jobs \cup {"mixed"}
  BY <1>1 DEF GotInv
<1>3. CASE Sound(owner[j])
  <2>1. Own(owner[j], j)
    BY <1>1, <1>3 DEF TalkInv, Talk, Taken
  <2>. QED
    BY <1>1, <1>2, <2>1 DEF Own
<1>4. CASE ~Single(owner[j])
  BY <1>1, <1>2, <1>4, TwoFailures DEF Spoiled
<1>5. CASE Single(owner[j]) /\ ~Sound(owner[j])
  BY <1>2, <1>5 DEF Sound, Spoiled
<1>. QED
  BY <1>3, <1>4, <1>5

\* To a client every step of the pool is a step of the service, or none.
LEMMA ServiceStep ==
  ASSUME TypeOK, WellFormed, LoopsInv, FailedInv, GotInv, TalkInv, [Next]_vars
  PROVE  [Service!Next]_(Service!vars)
<1>. DEFINE sent == {j \in Jobs : loop[j] # "new"}
            answered == {j \in Jobs : loop[j] = "done"}
<1>0. /\ DOMAIN loop = Jobs /\ DOMAIN reply = Jobs /\ Nil \notin Workers
      /\ {"new", "select", "queued", "done"} \cap Restarts = {} /\ "check" \in Restarts
  BY PoolAssumption DEF TypeOK, LoopType, Restarts, Began
<1>1. ASSUME UNCHANGED <<queue, owner, reply, sent, answered>>
      PROVE  [Service!Next]_(Service!vars)
  BY <1>1 DEF Service!vars
<1>2. CASE \E j \in Jobs : Loop(j) /\ ~Panic
  <2>1. PICK j \in Jobs : Loop(j) /\ ~Panic
    BY <1>2
  <2>2. UNCHANGED <<queue, owner>> /\ owner[j] \in Workers
    BY <2>1, LoopFrame, Owned DEF TypeOK
  <2>3. CASE /\ loop[j] = "select" /\ loop' = [loop EXCEPT ![j] = "check"]
             /\ \E r \in Failures : reply' = [reply EXCEPT ![j] = r]
    <3>1. PICK r \in Failures : reply' = [reply EXCEPT ![j] = r]
      BY <2>3
    <3>2. sent' = sent /\ answered' = answered /\ reply[j] = "none"
      BY <1>0, <2>3 DEF FailedInv
    <3>3. Service!Fail(j, r)
      BY <1>0, <2>2, <3>1, <3>2 DEF Service!Fail
    <3>. QED
      BY <3>3 DEF Service!Next
  <2>4. CASE /\ loop[j] = "select" /\ loop' = [loop EXCEPT ![j] = "done"]
             /\ got[j] # "err" /\ reply' = [reply EXCEPT ![j] = got[j]]
    <3>1. sent' = sent /\ answered' = answered \cup {j} /\ reply[j] = "none"
      BY <1>0, <2>4 DEF FailedInv
    <3>2. Receive(j)
      <4>1. loop'[j] = "done"
        BY <1>0, <2>4
      <4>2. Receive(j) \/ Timeout(j)
        BY <2>1, <2>4 DEF Loop, Restart, AfterRestart, RestartCheck,
           RestartKill, RestartWait, RestartReap, RestartReset, StartReader, StartSpawn,
           StartRead, StartLine, StartDrain, StartDone
      <4>. QED
        BY <1>0, <4>1, <4>2 DEF Timeout, Goto
    <3>3. got[j] \in Jobs \cup {"mixed"} /\ (got[j] = j \/ Spoiled(owner[j]))
      BY <2>4, <3>2, OwnAnswer
    <3>4. PICK r : r = got[j] /\ r \in Jobs \cup {"mixed"}
      BY <3>3
    <3>5. r = j \/ Service!Spoiled(owner[j])
      <4>1. Service!Cardinality(Failed(owner[j])) = Cardinality(Failed(owner[j]))
        BY Zenon DEF Cardinality, Service!Cardinality
      <4>2. Service!Failed(owner[j]) = Failed(owner[j])
        BY DEF Service!Failed, Failed
      <4>3. CASE Cardinality(Failed(owner[j])) > 1
        BY <4>1, <4>2, <4>3 DEF Service!Spoiled
      <4>4. CASE Frames /\ \E f \in Failed(owner[j]) : reply[f] = "timeout"
        BY <4>2, <4>4 DEF Service!Spoiled
      <4>. QED
        BY <3>3, <3>4, <4>3, <4>4 DEF Spoiled
    <3>6. Service!Succeed(j, r)
      BY <1>0, <2>2, <2>4, <3>1, <3>4, <3>5 DEF Service!Succeed
    <3>. QED
      BY <3>4, <3>6 DEF Service!Next
  <2>5. CASE /\ loop[j] \in Restarts /\ UNCHANGED reply
             /\ \E l \in Restarts \cup {"done"} : loop' = [loop EXCEPT ![j] = l]
    <3>1. PICK l \in Restarts \cup {"done"} : loop' = [loop EXCEPT ![j] = l]
      BY <2>5
    <3>2. CASE l = "done"
      <4>1. sent' = sent /\ answered' = answered \cup {j} /\ j \notin answered
            /\ reply[j] \in Failures
        BY <1>0, <2>5, <3>1, <3>2 DEF FailedInv
      <4>2. Service!AnswerFailed(j)
        BY <2>2, <2>5, <4>1 DEF Service!AnswerFailed
      <4>. QED
        BY <4>2 DEF Service!Next
    <3>3. CASE l \in Restarts
      <4>1. sent' = sent /\ answered' = answered
        BY <1>0, <2>5, <3>1, <3>3
      <4>. QED
        BY <1>1, <2>2, <2>5, <4>1
    <3>. QED
      BY <3>1, <3>2, <3>3
  <2>. QED
    BY <2>1, <2>3, <2>4, <2>5, LoopReply
<1>3. CASE \E j \in Jobs : Submit(j) /\ ~Panic
  <2>1. PICK j \in Jobs : Submit(j) /\ ~Panic
    BY <1>3
  <2>2. /\ loop[j] = "new" /\ loop' = [loop EXCEPT ![j] = "queued"]
        /\ Len(queue) < QueueCap /\ queue' = Append(queue, j) /\ UNCHANGED <<owner, reply>>
    BY <2>1 DEF Submit, Goto
  <2>3. sent' = sent \cup {j} /\ answered' = answered /\ j \notin sent
    BY <1>0, <2>2
  <2>4. Service!Send(j)
    BY <2>2, <2>3 DEF Service!Send
  <2>. QED
    BY <2>4 DEF Service!Next
<1>4. CASE \E w \in Workers, j \in Jobs : Take(w, j)
  <2>1. PICK w \in Workers, j \in Jobs : Take(w, j)
    BY <1>4
  <2>2. /\ queue # <<>> /\ j = Head(queue) /\ queue' = Tail(queue)
        /\ owner' = [owner EXCEPT ![j] = w] /\ UNCHANGED reply
        /\ loop' = [loop EXCEPT ![j] = "select"]
    BY <2>1 DEF Take, Goto
  <2>3. loop[j] = "queued"
    BY <2>2, QueueFacts DEF TypeOK, QueueType, WellFormed
  <2>4. sent' = sent /\ answered' = answered
    BY <1>0, <2>2, <2>3
  <2>5. Service!Begin(w)
    BY <2>2, <2>4 DEF Service!Begin
  <2>. QED
    BY <2>5 DEF Service!Next
<1>5. CASE \/ UNCHANGED vars \/ Panic \/ (\E w \in Workers : LoopExit(w))
           \/ (\E j \in Jobs : Sender(j) /\ ~Panic) \/ (\E p \in Procs : Process(p))
           \/ (Stop /\ ~Panic)
  <2>1. UNCHANGED <<queue, loopVars>>
    <3>1. CASE UNCHANGED vars \/ Panic \/ \E w \in Workers : LoopExit(w)
      BY <3>1 DEF vars, Panic, LoopExit, queueVars
    <3>2. CASE \E j \in Jobs : Sender(j) /\ ~Panic
      BY <3>2, SenderFrame DEF TypeOK
    <3>3. CASE \E p \in Procs : Process(p)
      BY <3>3, ProcessFrame DEF queueVars
    <3>4. CASE Stop /\ ~Panic
      BY <3>4, StopFrame DEF TypeOK
    <3>. QED
      BY <1>5, <3>1, <3>2, <3>3, <3>4
  <2>. QED
    BY <1>1, <2>1 DEF loopVars
<1>. QED
  BY <1>2, <1>3, <1>4, <1>5, NextCases

\* The pool is a JobService to its clients, if PHP programs print nothing but answers:
\* for any number of workers, jobs and faults, with timeouts, restarts and Pool.Stop, it
\* loses, repeats and reorders no job, and gives no wrong answer before a worker has
\* failed twice, or once by a timeout if data may be taken for messages
\* (worker.go 70-77, Dispatcher.php 54-70).
THEOREM PoolImplementsService ==
  ASSUME ~StrayOutput
  PROVE  Spec => ServiceSpec
<1>. DEFINE Inv == /\ IInv /\ LoopsInv /\ FailedInv /\ FirstInv
                   /\ GotInv /\ LateInv /\ NewInv /\ TalkInv
<1>1. Init => Inv
  BY InitIInv, LoopsInit, StopInit, FirstInit, TalkInit
<1>2. Inv /\ [Next]_vars => Inv'
  <2>1. IInv /\ [Next]_vars /\ LoopsInv /\ FailedInv /\ FirstInv
          => IInv' /\ LoopsInv' /\ FailedInv' /\ FirstInv'
    BY NextIInv, LoopsStep, FailedStep, FirstStep DEF IInv
  <2>2. Inv /\ [Next]_vars => GotInv' /\ LateInv' /\ NewInv'
    BY GotInvStep, LateStep, NewInvStep DEF IInv
  <2>3. Inv /\ [Next]_vars => TalkInv'
    BY TalkStep
  <2>. QED
    BY <2>1, <2>2, <2>3
<1>3. Init => Service!Init
  <2>. SUFFICES ASSUME Init PROVE Service!Init
    OBVIOUS
  <2>1. {j \in Jobs : loop[j] # "new"} = {} /\ {j \in Jobs : loop[j] = "done"} = {}
    BY DEF Init
  <2>. QED
    BY <2>1 DEF Init, Service!Init
<1>4. Inv /\ [Next]_vars => [Service!Next]_(Service!vars)
  BY ServiceStep DEF IInv
<1>. QED
  BY <1>1, <1>2, <1>3, <1>4, PTL DEF Spec, ServiceSpec, Service!Spec
=============================================================================
