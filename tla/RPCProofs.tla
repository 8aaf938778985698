------------------------------ MODULE RPCProofs ------------------------------
(***************************************************************************)
(* Safety of RPC for any number of clients, calls and workers.             *)
(*                                                                         *)
(* The inductive invariant IInv says where the one call of a client can    *)
(* be: on its way as a request, in the server, or on its way back as a     *)
(* reply (LineInv), as long as the client keeps its socket and has never   *)
(* been left with a part of a line.  ReplyInv says that replies under way  *)
(* are true, CallInv what the places of a call and of its job have to do   *)
(* with each other.                                                        *)
(***************************************************************************)
EXTENDS RPC, SequenceTheorems, TLAPS

\* What the server has of client c and has not answered yet.
Running(c) == {k \in Calls : by[k] = c /\ run[k] \in {"called", "reply"}}

\* Nothing of c is under way.
Quiet(c) == requests[c] = <<>> /\ replies[c] = <<>> /\ Running(c) = {}

\* Call k of c, and nothing else, is under way: as a request, in the server, or as
\* a reply.
UnderWay(c, k) ==
  /\ at[k] = "wait" /\ by[k] = c
  /\ \/ requests[c] = <<k>> /\ replies[c] = <<>> /\ Running(c) = {}
     \/ requests[c] = <<>> /\ replies[c] = <<>> /\ Running(c) = {k}
     \/ /\ requests[c] = <<>> /\ Running(c) = {}
        /\ Len(replies[c]) = 1 /\ Head(replies[c]).to = k

LineInv ==
  \A c \in Clients :
    /\ \A i \in DOMAIN requests[c] : by[requests[c][i]] = c
    /\ socket[c] = "null" <=> conn[c] = "none"
    /\ socket[c] = "null" => Quiet(c)
    /\ socket[c] = "open" /\ c \notin cut => Quiet(c) \/ \E k \in Calls : UnderWay(c, k)

\* A reply is what became of its call.
Honest(r) ==
  /\ at[r.to] # "new"
  /\ r.value = "true" => job[r.to] # "none"
  /\ r.value = "error" => kind[r.to] = "unknown"

ReplyInv == \A c \in Clients : \A i \in DOMAIN replies[c] : Honest(replies[c][i])

CallInv ==
  \A k \in Calls :
    /\ at[k] = "new" <=> by[k] = Nil
    /\ at[k] = "wait" => socket[by[k]] = "open"
    /\ run[k] # "none" => at[k] # "new" /\ kind[k] # "unknown"
    /\ run[k] = "reply" => job[k] # "none"
    /\ job[k] # "none" => run[k] # "none"
    /\ k \in sent => job[k] # "none"
    /\ job[k] \in {"wait", "done"} => jobsPool /\ k \in sent
    /\ at[k] = "told" => reply[k] \in Replies /\ Honest(reply[k])
    /\ at[k] = "told" /\ by[k] \notin cut => reply[k].to = k

OneCall == \A j, k \in Calls : at[j] = "wait" /\ at[k] = "wait" /\ by[j] = by[k] => j = k

IInv == TypeOK /\ OneCall /\ LineInv /\ ReplyInv /\ CallInv
-----------------------------------------------------------------------------
(* A part of a line.                                                       *)

\* What is under way after fgets has returned a part of the first line.
Parted(s) == [s EXCEPT ![1] = [to |-> s[1].to, value |-> "rest"]]

\* Its first line is for the same call, the others are the same.
LEMMA PartedFacts ==
  ASSUME NEW s \in Seq(Replies), s # <<>>
  PROVE  /\ Parted(s) \in Seq(Replies) /\ DOMAIN Parted(s) = DOMAIN s
         /\ s[1] \in Replies /\ 1 \in DOMAIN s
         /\ Parted(s)[1] = [to |-> s[1].to, value |-> "rest"]
         /\ [to |-> s[1].to, value |-> "rest"] \in Replies
         /\ \A i \in DOMAIN s : i # 1 => Parted(s)[i] = s[i]
<1>1. Len(s) \in Nat \ {0} /\ DOMAIN s = 1..Len(s) /\ s[1] \in Replies
  BY EmptySeq, LenProperties, ElementOfSeq
<1>2. [to |-> s[1].to, value |-> "rest"] \in Replies
  BY <1>1 DEF Replies
<1>3. Parted(s) \in Seq(Replies)
  BY <1>1, <1>2, ExceptSeq DEF Parted
<1>4. /\ DOMAIN Parted(s) = DOMAIN s
      /\ \A i \in DOMAIN s :
           Parted(s)[i] = IF i = 1 THEN [to |-> s[1].to, value |-> "rest"] ELSE s[i]
  BY <1>1 DEF Parted
<1>. QED
  BY <1>1, <1>2, <1>3, <1>4
-----------------------------------------------------------------------------
(* Types.                                                                  *)

\* Every step keeps the types.
THEOREM TypeStep == ASSUME RPCAssumption, TypeOK, CallInv, [Next]_vars PROVE TypeOK'
<1>. USE DEF TypeOK, poolVars, clientVars, lineVars, runVars
<1>1. ASSUME NEW k \in Calls, NEW c \in Clients, NEW q \in Kinds, Send(k, c, q)
      PROVE TypeOK'
  <2>1. Append(requests[c], k) \in Seq(Calls)
    BY AppendProperties
  <2>2. requests' \in [Clients -> Seq(Calls)]
    <3>1. UNCHANGED requests \/ requests' = [requests EXCEPT ![c] = Append(@, k)]
      BY <1>1, Zenon DEF Send, Write
    <3>2. requests \in [Clients -> Seq(Calls)]
      OBVIOUS
    <3>. QED
      BY ONLY <2>1, <3>1, <3>2
  <2>3. at' \in [Calls -> {"new", "wait", "told", "thrown"}]
    <3>1. \E l \in {"wait", "thrown"} : at' = [at EXCEPT ![k] = l]
      BY <1>1, Zenon DEF Send, Write, Throw
    <3>. QED
      BY <3>1
  <2>4. /\ socket' \in [Clients -> {"null", "open", "closed"}]
        /\ conn' \in [Clients -> {"none", "pending", "served", "over"}]
    BY <1>1 DEF Send
  <2>5. /\ by' \in [Calls -> Clients \cup {Nil}] /\ kind' \in [Calls -> Kinds]
        /\ UNCHANGED <<poolVars, jobsPool, program, reply, cut, replies, runVars>>
    BY <1>1 DEF Send
  <2>. QED
    BY <2>2, <2>3, <2>4, <2>5
<1>2. ASSUME NEW c \in Clients, Close(c) \/ Accept(c) \/ Hangup(c) PROVE TypeOK'
  BY <1>2 DEF Close, Accept, Hangup
<1>3. ASSUME NEW c \in Clients, Read(c) PROVE TypeOK'
  <2>1. Head(requests[c]) \in Calls /\ Tail(requests[c]) \in Seq(Calls)
    BY <1>3, HeadTailProperties DEF Read
  <2>2. Append(replies[c], [to |-> Head(requests[c]), value |-> "error"]) \in Seq(Replies)
    BY <2>1, AppendProperties, ZenonT(30) DEF Replies
  <2>3. CASE kind[Head(requests[c])] = "unknown"
    <3>1. replies' = [replies EXCEPT ![c] =
                        Append(@, [to |-> Head(requests[c]), value |-> "error"])]
      BY <1>3, <2>3 DEF Read
    <3>2. replies \in [Clients -> Seq(Replies)]
      OBVIOUS
    <3>3. replies' \in [Clients -> Seq(Replies)]
      BY ONLY <2>2, <3>1, <3>2
    <3>. QED
      BY <1>3, <2>1, <2>3, <3>3 DEF Read
  <2>4. CASE kind[Head(requests[c])] # "unknown"
    BY <1>3, <2>1, <2>4 DEF Read
  <2>. QED
    BY <2>3, <2>4
<1>4. ASSUME NEW k \in Calls, Take(k) \/ TakePart(k) PROVE TypeOK'
  <2>1. by[k] \in Clients
    BY <1>4 DEF Take, TakePart, CallInv
  <2>2. replies[by[k]] \in Seq(Replies) /\ replies[by[k]] # <<>>
    BY <1>4, <2>1 DEF Take, TakePart
  <2>3. CASE Take(k)
    <3>1. Head(replies[by[k]]) \in Replies /\ Tail(replies[by[k]]) \in Seq(Replies)
      BY <2>2, HeadTailProperties
    <3>2. replies' \in [Clients -> Seq(Replies)]
      <4>1. replies' = [replies EXCEPT ![by[k]] = Tail(replies[by[k]])]
        BY <2>3 DEF Take
      <4>2. replies \in [Clients -> Seq(Replies)]
        OBVIOUS
      <4>. QED
        BY ONLY <3>1, <4>1, <4>2
    <3>3. /\ at' \in [Calls -> {"new", "wait", "told", "thrown"}]
          /\ reply' \in [Calls -> Replies \cup {Nil}]
      <4>1. /\ \E l \in {"thrown", "told"} : at' = [at EXCEPT ![k] = l]
            /\ \/ UNCHANGED reply
               \/ reply' = [reply EXCEPT ![k] = Head(replies[by[k]])]
        BY <2>3, Zenon DEF Take, Throw
      <4>2. /\ at \in [Calls -> {"new", "wait", "told", "thrown"}]
            /\ reply \in [Calls -> Replies \cup {Nil}]
        OBVIOUS
      <4>. QED
        BY ONLY <3>1, <4>1, <4>2
    <3>. QED
      BY <2>3, <3>2, <3>3 DEF Take
  <2>4. CASE TakePart(k)
    <3>1. replies' = [replies EXCEPT ![by[k]] = Parted(replies[by[k]])]
      BY <2>4 DEF TakePart, Parted
    <3>2. Parted(replies[by[k]]) \in Seq(Replies)
      BY <2>2, PartedFacts
    <3>3. replies' \in [Clients -> Seq(Replies)]
      <4>1. replies \in [Clients -> Seq(Replies)]
        OBVIOUS
      <4>. QED
        BY ONLY <3>1, <3>2, <4>1
    <3>. QED
      BY <2>1, <2>4, <3>3 DEF TakePart, Throw
  <2>. QED
    BY <1>4, <2>3, <2>4
<1>5. ASSUME NEW k \in Calls, Fail(k) PROVE TypeOK'
  BY <1>5 DEF Fail, Throw
<1>6. ASSUME NEW k \in Calls, RunJob(k) PROVE TypeOK'
  BY <1>6, ZenonT(30) DEF RunJob
<1>7. ASSUME NEW k \in Calls, Answer(k) PROVE TypeOK'
  BY <1>7, AppendProperties, ZenonT(30) DEF Answer, Replies
<1>8. ASSUME NEW k \in Calls, JobSend(k) \/ JobDone(k) PROVE TypeOK'
  <2>1. CASE JobSend(k) /\ jobsPool
    <3>1. Append(waiting, k) \in Seq(Calls)
      <4>1. waiting \in Seq(Calls)
        OBVIOUS
      <4>. QED
        BY <4>1, AppendProperties
    <3>2. /\ Pool!Send(k) /\ job' = [job EXCEPT ![k] = "wait"]
          /\ UNCHANGED <<jobsPool, program, clientVars, lineVars, run>>
      BY <2>1, Zenon DEF JobSend
    <3>. QED
      BY <3>1, <3>2 DEF Pool!Send
  <2>2. CASE JobSend(k) /\ ~jobsPool
    BY <2>2 DEF JobSend
  <2>3. CASE JobDone(k)
    BY <2>3 DEF JobDone
  <2>. QED
    BY <1>8, <2>1, <2>2, <2>3
<1>9. ASSUME NEW k \in Calls, PoolAnswers(k) PROVE TypeOK'
  <2>1. ASSUME NEW o \in Calls \cup {"mixed"}, Pool!Succeed(k, o) PROVE TypeOK'
    BY <1>9, <2>1 DEF PoolAnswers, Pool!Succeed
  <2>2. ASSUME NEW o \in Failures, Pool!Fail(k, o) PROVE TypeOK'
    BY <1>9, <2>2 DEF PoolAnswers, Pool!Fail
  <2>3. CASE Pool!AnswerFailed(k)
    BY <1>9, <2>3 DEF PoolAnswers, Pool!AnswerFailed
  <2>. QED
    BY <1>9, <2>1, <2>2, <2>3 DEF PoolAnswers
<1>10. CASE PoolBegins
  <2>1. PICK w \in Workers : Pool!Begin(w)
    BY <1>10 DEF PoolBegins
  <2>2. Head(waiting) \in Calls /\ Tail(waiting) \in Seq(Calls)
    BY <2>1, HeadTailProperties DEF Pool!Begin
  <2>. QED
    BY <1>10, <2>1, <2>2 DEF PoolBegins, Pool!Begin
<1>11. CASE Listen \/ End
  BY <1>11 DEF Listen, End
<1>12. CASE UNCHANGED vars
  BY <1>12 DEF vars
<1>. QED
  BY <1>1, <1>2, <1>3, <1>4, <1>5, <1>6, <1>7, <1>8, <1>9, <1>10, <1>11, <1>12
     DEF Next, Client, Serve, Handler, Job
-----------------------------------------------------------------------------
(* One call of a client at a time.                                         *)

\* No step lets a client make a second call before the first is over.
THEOREM OneCallStep == ASSUME TypeOK, CallInv, OneCall, [Next]_vars PROVE OneCall'
<1>1. ASSUME NEW k \in Calls, NEW c \in Clients, NEW q \in Kinds, Send(k, c, q)
      PROVE OneCall'
  <2>1. /\ \A j \in Calls \ {k} : by'[j] = by[j] /\ at'[j] = at[j]
        /\ by'[k] = c
    BY <1>1 DEF Send, Write, Throw, TypeOK
  <2>2. \A j \in Calls : at[j] = "wait" => by[j] # c
    BY <1>1 DEF Send, Busy
  <2>. QED
    BY <2>1, <2>2 DEF OneCall
<1>2. CASE by' = by /\ \A j \in Calls : at'[j] = "wait" => at[j] = "wait"
  BY <1>2 DEF OneCall
<1>3. ASSUME NEW k \in Calls, Take(k) \/ TakePart(k) \/ Fail(k) PROVE OneCall'
  BY <1>2, <1>3 DEF Take, TakePart, Fail, Throw, TypeOK
<1>4. CASE UNCHANGED <<by, at>>
  BY <1>2, <1>4
<1>. QED
  BY <1>1, <1>3, <1>4 DEF Next, Client, Serve, Handler, Job, Close, Accept, Read, Hangup,
     RunJob, Answer, JobSend, JobDone, PoolAnswers, Listen, End, PoolBegins, clientVars, vars
-----------------------------------------------------------------------------
(* Replies and places.                                                     *)

\* What the rest of the invariant asks of a step: a call that has been made keeps its
\* client and its request, and a job that has been started stays so.
Steady ==
  \A k \in Calls :
    /\ at[k] # "new" => at'[k] # "new" /\ by'[k] = by[k] /\ kind'[k] = kind[k]
    /\ job[k] # "none" => job'[k] # "none"

LEMMA AlwaysSteady == ASSUME TypeOK, [Next]_vars PROVE Steady
<1>1. ASSUME NEW k \in Calls, NEW c \in Clients, NEW q \in Kinds, Send(k, c, q)
      PROVE Steady
  BY <1>1 DEF Steady, Send, Write, Throw, TypeOK, runVars
<1>2. CASE /\ UNCHANGED <<by, kind>>
           /\ \A k \in Calls : at'[k] = at[k] \/ at'[k] \in {"told", "thrown"}
           /\ \A k \in Calls : job'[k] = job[k] \/ job'[k] \in {"send", "wait", "done"}
  BY <1>2 DEF Steady
<1>3. ASSUME NEW k \in Calls, Client(k) \/ Handler(k) \/ Job(k) PROVE Steady
  <2>1. UNCHANGED <<by, kind>>
    BY <1>3, Zenon DEF Client, Take, TakePart, Fail, Handler, RunJob, Answer, Job, JobSend, JobDone,
       clientVars
  <2>2. \/ UNCHANGED at
        \/ \E l \in {"told", "thrown"} : at' = [at EXCEPT ![k] = l]
    BY <1>3, Zenon DEF Client, Take, TakePart, Fail, Throw, Handler, RunJob, Answer, Job, JobSend,
       JobDone, clientVars
  <2>3. \/ UNCHANGED job
        \/ \E l \in {"send", "wait", "done"} : job' = [job EXCEPT ![k] = l]
    BY <1>3, Zenon DEF Client, Take, TakePart, Fail, Handler, RunJob, Answer, Job, JobSend, JobDone,
       runVars
  <2>. QED
    BY <1>2, <2>1, <2>2, <2>3 DEF TypeOK
<1>4. CASE UNCHANGED <<by, kind, at, job>>
  BY <1>2, <1>4
<1>. QED
  BY <1>1, <1>3, <1>4 DEF Next, Serve, Close, Accept, Read, Hangup, PoolAnswers, Listen,
     End, PoolBegins, clientVars, runVars, vars

\* What Append and Tail leave in a sequence was there before, or is what is appended.
LEMMA Elements ==
  ASSUME NEW S, NEW s \in Seq(S), NEW x \in S
  PROVE  /\ \A i \in DOMAIN Append(s, x) :
              Append(s, x)[i] = x \/ \E j \in DOMAIN s : Append(s, x)[i] = s[j]
         /\ s # <<>> => \A i \in DOMAIN Tail(s) : \E j \in DOMAIN s : Tail(s)[i] = s[j]
<1>1. \A i \in DOMAIN Append(s, x) :
        Append(s, x)[i] = x \/ \E j \in DOMAIN s : Append(s, x)[i] = s[j]
  BY AppendProperties
<1>2. ASSUME s # <<>>, NEW i \in DOMAIN Tail(s)
      PROVE \E j \in DOMAIN s : Tail(s)[i] = s[j]
  <2>1. i \in 1..(Len(s) - 1) /\ Tail(s)[i] = s[i + 1]
    BY <1>2, HeadTailProperties
  <2>2. i + 1 \in DOMAIN s
    BY <2>1
  <2>. QED
    BY <2>1, <2>2
<1>. QED
  BY <1>1, <1>2

\* A reply that is true stays true.
LEMMA StillHonest ==
  ASSUME TypeOK, Steady, NEW r \in Replies, Honest(r) PROVE Honest(r)'
BY DEF Honest, Steady, Replies

\* What the server reads next is a call of that client.
LEMMA Requested ==
  ASSUME TypeOK, LineInv, NEW c \in Clients, requests[c] # <<>>
  PROVE  \E k \in Calls : k = Head(requests[c]) /\ by[k] = c
<1>1. requests[c] \in Seq(Calls)
  BY DEF TypeOK
<1>2. /\ Head(requests[c]) = requests[c][1] /\ 1 \in DOMAIN requests[c]
      /\ Head(requests[c]) \in Calls
  BY <1>1, HeadTailProperties
<1>. QED
  BY <1>2 DEF LineInv

\* Every step keeps the replies under way true.
THEOREM ReplyStep ==
  ASSUME RPCAssumption, TypeOK, CallInv, LineInv, ReplyInv, [Next]_vars PROVE ReplyInv'
<1>0. Steady
  BY AlwaysSteady
<1>. SUFFICES ASSUME NEW c \in Clients, NEW i \in DOMAIN replies'[c],
                     NEW r, r = replies'[c][i]
              PROVE Honest(r)'
  BY DEF ReplyInv, Honest
<1>1. ASSUME NEW j \in DOMAIN replies[c], r = replies[c][j] PROVE Honest(r)'
  <2>1. r \in Replies /\ Honest(r)
    BY <1>1 DEF TypeOK, ReplyInv
  <2>. QED
    BY <1>0, <2>1, StillHonest
<1>2. ASSUME replies'[c] = replies[c] PROVE Honest(r)'
  BY <1>1, <1>2
<1>3. ASSUME NEW k \in Calls, NEW v \in {"true", "error"}, Honest([to |-> k, value |-> v])',
             replies'[c] = Append(replies[c], [to |-> k, value |-> v])
      PROVE Honest(r)'
  <2>1. /\ replies[c] \in Seq(Replies) /\ [to |-> k, value |-> v] \in Replies
    BY DEF TypeOK, Replies
  <2>2. r = [to |-> k, value |-> v] \/ \E j \in DOMAIN replies[c] : r = replies[c][j]
    BY <1>3, <2>1, Elements
  <2>. QED
    BY <1>1, <1>3, <2>2
<1>4. ASSUME NEW k \in Calls, Take(k) PROVE Honest(r)'
  <2>1. CASE by[k] = c
    <3>1. replies[c] # <<>> /\ replies'[c] = Tail(replies[c]) /\ replies[c] \in Seq(Replies)
      BY <1>4, <2>1 DEF Take, TypeOK
    <3>2. [to |-> k, value |-> "true"] \in Replies
      BY DEF Replies
    <3>3. \E j \in DOMAIN replies[c] : r = replies[c][j]
      BY <3>1, <3>2, Elements
    <3>. QED
      BY <1>1, <3>3
  <2>2. CASE by[k] # c
    BY <1>2, <1>4, <2>2 DEF Take, TypeOK
  <2>. QED
    BY <2>1, <2>2
<1>8. ASSUME NEW k \in Calls, TakePart(k) PROVE Honest(r)'
  <2>1. CASE by[k] = c
    <3>1. replies[c] # <<>> /\ replies'[c] = Parted(replies[c]) /\ replies[c] \in Seq(Replies)
      BY <1>8, <2>1 DEF TakePart, Parted, TypeOK
    <3>2. i \in DOMAIN replies[c]
      BY <3>1, PartedFacts
    <3>3. CASE i # 1
      <4>1. Parted(replies[c])[i] = replies[c][i]
        BY <3>1, <3>2, <3>3, PartedFacts
      <4>2. r = replies[c][i]
        BY <3>1, <4>1
      <4>. QED
        BY <1>1, <3>2, <4>2
    <3>4. CASE i = 1
      <4>1. r = [to |-> replies[c][1].to, value |-> "rest"] /\ r \in Replies
        BY <3>1, <3>4, PartedFacts
      <4>2. replies[c][1] \in Replies /\ Honest(replies[c][1])
        BY <3>1, <3>2, <3>4, PartedFacts DEF ReplyInv
      <4>3. Honest(r)
        BY <4>1, <4>2 DEF Honest
      <4>. QED
        BY <1>0, <4>1, <4>3, StillHonest
    <3>. QED
      BY <3>3, <3>4
  <2>2. CASE by[k] # c
    BY <1>2, <1>8, <2>2 DEF TakePart, TypeOK
  <2>. QED
    BY <2>1, <2>2
<1>5. ASSUME NEW d \in Clients, Read(d) PROVE Honest(r)'
  <2>1. PICK k \in Calls : k = Head(requests[d]) /\ by[k] = d
    BY <1>5, Requested DEF Read
  <2>2. at[k] # "new"
    BY <2>1 DEF CallInv, RPCAssumption
  <2>3. CASE kind[k] = "unknown" /\ c = d
    <3>1. replies'[c] = Append(replies[c], [to |-> k, value |-> "error"])
      BY <1>5, <2>1, <2>3 DEF Read, TypeOK
    <3>2. Honest([to |-> k, value |-> "error"])'
      BY <1>0, <2>1, <2>2, <2>3 DEF Honest, Steady
    <3>. QED
      BY <1>3, <2>1, <3>1, <3>2
  <2>4. CASE kind[k] # "unknown" \/ c # d
    BY <1>2, <1>5, <2>1, <2>4 DEF Read, TypeOK
  <2>. QED
    BY <2>3, <2>4
<1>6. ASSUME NEW k \in Calls, Answer(k) PROVE Honest(r)'
  <2>1. CASE by[k] = c
    <3>1. replies'[c] = Append(replies[c], [to |-> k, value |-> "true"])
      BY <1>6, <2>1 DEF Answer, TypeOK
    <3>2. Honest([to |-> k, value |-> "true"])'
      BY <1>0, <1>6 DEF Answer, CallInv, Honest, Steady
    <3>. QED
      BY <1>3, <3>1, <3>2
  <2>2. CASE by[k] # c
    BY <1>2, <1>6, <2>2 DEF Answer, TypeOK
  <2>. QED
    BY <2>1, <2>2
<1>7. CASE UNCHANGED replies
  BY <1>2, <1>7
<1>. QED
  BY <1>4, <1>5, <1>6, <1>7, <1>8 DEF Next, Client, Serve, Handler, Job, Send, Fail, Close, Accept,
     Hangup, RunJob, JobSend, JobDone, PoolAnswers, Listen, End, PoolBegins, lineVars, vars
-----------------------------------------------------------------------------
(* The places of a call and of its job.                                    *)

\* Every step keeps the places of a call and of its job in step.
THEOREM CallStep ==
  ASSUME RPCAssumption, TypeOK, OneCall, CallInv, LineInv, ReplyInv, [Next]_vars
  PROVE  CallInv'
<1>0. Steady
  BY AlwaysSteady
<1>1. ASSUME NEW k \in Calls, at'[k] = "told"
      PROVE  /\ reply'[k] \in Replies /\ Honest(reply[k])'
             /\ by'[k] \notin cut' => reply'[k].to = k
  <2>1. ASSUME NEW r \in Replies, by[k] \notin cut => r.to = k, Honest(r), reply'[k] = r,
               by'[k] = by[k], cut \subseteq cut'
        PROVE  /\ reply'[k] \in Replies /\ Honest(reply[k])'
               /\ by'[k] \notin cut' => reply'[k].to = k
    <3>1. Honest(r)'
      BY <1>0, <2>1, StillHonest
    <3>. QED
      BY <2>1, <3>1 DEF Honest
  <2>2. CASE at[k] = "told" /\ reply'[k] = reply[k] /\ cut \subseteq cut'
    <3>1. by'[k] = by[k]
      BY <1>0, <2>2 DEF Steady
    <3>. QED
      BY <2>1, <2>2, <3>1 DEF CallInv
  <2>3. CASE Take(k)
    <3>. DEFINE c == by[k]
    <3>1. c \in Clients /\ socket[c] = "open" /\ replies[c] # <<>> /\ at[k] = "wait"
      BY <2>3 DEF Take, TypeOK, CallInv
    <3>2. by[k] \notin cut => Head(replies[c]).to = k
      <4>. SUFFICES ASSUME by[k] \notin cut PROVE Head(replies[c]).to = k
        OBVIOUS
      <4>1. PICK j \in Calls : UnderWay(c, j)
        BY <3>1 DEF LineInv, Quiet
      <4>. QED
        BY <3>1, <4>1 DEF UnderWay, OneCall
    <3>3. Head(replies[c]) \in Replies /\ Honest(Head(replies[c]))
      <4>1. replies[c] \in Seq(Replies)
        BY <3>1 DEF TypeOK
      <4>2. /\ Head(replies[c]) = replies[c][1] /\ 1 \in DOMAIN replies[c]
            /\ Head(replies[c]) \in Replies
        BY <3>1, <4>1, HeadTailProperties
      <4>. QED
        BY <3>1, <4>2 DEF ReplyInv
    <3>4. reply'[k] = Head(replies[c]) /\ by' = by /\ cut' = cut
      <4>1. Head(replies[c]).value # "rest"
        BY <1>1, <2>3 DEF Take, Throw, TypeOK
      <4>. QED
        BY <2>3, <4>1 DEF Take, TypeOK
    <3>. QED
      BY <2>1, <3>2, <3>3, <3>4
  <2>4. \/ at[k] = "told" /\ reply'[k] = reply[k] /\ cut \subseteq cut'
        \/ Take(k)
    <3>1. ASSUME NEW j \in Calls, NEW c \in Clients, NEW q \in Kinds, Send(j, c, q)
          PROVE at[k] = "told" /\ reply'[k] = reply[k] /\ cut \subseteq cut'
      BY <1>1, <3>1 DEF Send, Write, Throw, TypeOK
    <3>2. ASSUME NEW j \in Calls, Take(j), j # k
          PROVE at[k] = "told" /\ reply'[k] = reply[k] /\ cut \subseteq cut'
      BY <1>1, <3>2 DEF Take, Throw, TypeOK
    <3>3. ASSUME NEW j \in Calls, Fail(j) \/ TakePart(j)
          PROVE at[k] = "told" /\ reply'[k] = reply[k] /\ cut \subseteq cut'
      BY <1>1, <3>3 DEF Fail, TakePart, Throw, TypeOK
    <3>4. CASE UNCHANGED <<at, reply, cut>>
      BY <1>1, <3>4
    <3>. QED
      BY <3>1, <3>2, <3>3, <3>4 DEF Next, Client, Serve, Handler, Job, Close, Accept, Read,
         Hangup, RunJob, Answer, JobSend, JobDone, PoolAnswers, Listen, End, PoolBegins,
         clientVars, vars
  <2>. QED
    BY <2>2, <2>3, <2>4
<1>. DEFINE
       Call(k) == /\ at[k] = "new" <=> by[k] = Nil
                  /\ at[k] = "wait" => socket[by[k]] = "open"
                  /\ run[k] # "none" => at[k] # "new" /\ kind[k] # "unknown"
                  /\ run[k] = "reply" => job[k] # "none"
                  /\ job[k] # "none" => run[k] # "none"
                  /\ k \in sent => job[k] # "none"
                  /\ job[k] \in {"wait", "done"} => jobsPool /\ k \in sent
<1>2. \A k \in Calls : Call(k)
  BY DEF CallInv
<1>3. ASSUME NEW j \in Calls, NEW c \in Clients, NEW q \in Kinds, Send(j, c, q),
             NEW k \in Calls
      PROVE Call(k)'
  <2>1. CASE k = j
    BY <1>2, <1>3, <2>1 DEF Send, Write, Throw, TypeOK, RPCAssumption, poolVars, runVars
  <2>2. CASE k # j
    BY <1>2, <1>3, <2>2 DEF Send, Write, Throw, TypeOK, RPCAssumption, poolVars, runVars
  <2>. QED
    BY <2>1, <2>2
<1>4. ASSUME NEW j \in Calls, Client(j), NEW k \in Calls PROVE Call(k)'
  BY <1>2, <1>4 DEF Client, Take, TakePart, Fail, Throw, TypeOK, OneCall, poolVars, runVars
<1>5. ASSUME NEW c \in Clients, Close(c), NEW k \in Calls PROVE Call(k)'
  BY <1>2, <1>5 DEF Close, Busy, TypeOK, poolVars, runVars
<1>6. ASSUME NEW c \in Clients, Read(c), NEW k \in Calls PROVE Call(k)'
  <2>1. PICK h \in Calls : h = Head(requests[c]) /\ by[h] = c
    BY <1>6, Requested DEF Read
  <2>. QED
    BY <1>2, <1>6, <2>1 DEF Read, TypeOK, RPCAssumption, poolVars, clientVars
<1>7. ASSUME NEW j \in Calls, Handler(j), NEW k \in Calls PROVE Call(k)'
  BY <1>2, <1>7 DEF Handler, RunJob, Answer, TypeOK, poolVars, clientVars, runVars
<1>8. ASSUME NEW j \in Calls, Job(j), NEW k \in Calls PROVE Call(k)'
  <2>1. CASE JobSend(j) /\ jobsPool
    BY <1>2, <2>1 DEF JobSend, Pool!Send, TypeOK, clientVars
  <2>2. CASE JobSend(j) /\ ~jobsPool
    BY <1>2, <2>2 DEF JobSend, TypeOK, clientVars, poolVars
  <2>3. CASE JobDone(j)
    BY <1>2, <2>3 DEF JobDone, TypeOK, clientVars, poolVars
  <2>. QED
    BY <1>8, <2>1, <2>2, <2>3 DEF Job
<1>9. ASSUME UNCHANGED <<at, by, kind, socket, run, job, sent, jobsPool>>, NEW k \in Calls
      PROVE  Call(k)'
  BY <1>2, <1>9
<1>10. \/ UNCHANGED <<at, by, kind, socket, run, job, sent, jobsPool>>
       \/ \E j \in Calls : Client(j) \/ Handler(j) \/ Job(j)
       \/ \E c \in Clients : Close(c) \/ Read(c)
       \/ \E j \in Calls, c \in Clients, q \in Kinds : Send(j, c, q)
  BY DEF Next, Serve, Accept, Hangup, PoolAnswers, Pool!Succeed, Pool!Fail,
     Pool!AnswerFailed, Listen, End, PoolBegins, Pool!Begin, clientVars, poolVars, runVars,
     vars
<1>. HIDE DEF Call
<1>11. \A k \in Calls : Call(k)'
  BY <1>3, <1>4, <1>5, <1>6, <1>7, <1>8, <1>9, <1>10
<1>. USE DEF Call
<1>. QED
  BY <1>1, <1>11 DEF CallInv
-----------------------------------------------------------------------------
(* What is under way.                                                      *)

LineOf(c) ==
  /\ socket[c] = "null" <=> conn[c] = "none"
  /\ socket[c] = "null" => Quiet(c)
  /\ socket[c] = "open" /\ c \notin cut => Quiet(c) \/ \E k \in Calls : UnderWay(c, k)

\* A step that changes nothing of a client, and calls of its only beyond run, leaves
\* what it has under way.
LEMMA SameLine ==
  ASSUME NEW c \in Clients, LineOf(c),
         requests'[c] = requests[c], replies'[c] = replies[c],
         socket'[c] = socket[c], (conn'[c] = "none") <=> (conn[c] = "none"),
         Running(c)' = Running(c), cut \subseteq cut',
         \A k \in Calls : at[k] = "wait" /\ by[k] = c => at'[k] = "wait" /\ by'[k] = c
  PROVE  LineOf(c)'
BY DEF LineOf, Quiet, UnderWay

\* Every step keeps one call of a client under way at most.
THEOREM LineStep ==
  ASSUME RPCAssumption, TypeOK, OneCall, CallInv, LineInv, [Next]_vars PROVE LineInv'
<1>0. Steady
  BY AlwaysSteady
<1>1. \A c \in Clients : LineOf(c)
  BY DEF LineInv, LineOf
<1>2. \A k \in Calls : run[k] # "none" => at[k] # "new" /\ by[k] \in Clients
  BY DEF CallInv, TypeOK
<1>3. ASSUME NEW c \in Clients, NEW i \in DOMAIN requests'[c] PROVE by'[requests'[c][i]] = c
  <2>1. ASSUME NEW j \in DOMAIN requests[c], requests'[c][i] = requests[c][j]
        PROVE  by'[requests'[c][i]] = c
    <3>1. requests[c][j] \in Calls /\ by[requests[c][j]] = c
      BY DEF TypeOK, LineInv
    <3>. QED
      BY <1>0, <2>1, <3>1 DEF CallInv, Steady, RPCAssumption
  <2>2. requests[c] \in Seq(Calls)
    BY DEF TypeOK
  <2>3. ASSUME NEW k \in Calls, NEW d \in Clients, NEW q \in Kinds, Send(k, d, q)
        PROVE  by'[requests'[c][i]] = c
    <3>1. CASE requests'[c] = requests[c]
      BY <2>1, <3>1
    <3>2. CASE c = d /\ requests'[c] = Append(requests[c], k)
      <4>1. by'[k] = c
        BY <2>3, <3>2 DEF Send, TypeOK
      <4>2. requests'[c][i] = k \/ \E j \in DOMAIN requests[c] : requests'[c][i] = requests[c][j]
        BY <2>2, <3>2, Elements
      <4>. QED
        BY <2>1, <4>1, <4>2
    <3>. QED
      BY <2>3, <3>1, <3>2 DEF Send, Write, TypeOK
  <2>4. ASSUME NEW d \in Clients, Read(d) PROVE by'[requests'[c][i]] = c
    <3>1. CASE c = d
      <4>1. requests[c] # <<>> /\ requests'[c] = Tail(requests[c])
        BY <2>4, <3>1 DEF Read, TypeOK
      <4>2. \E j \in DOMAIN requests[c] : requests'[c][i] = requests[c][j]
        BY <2>2, <4>1, Elements, HeadTailProperties
      <4>. QED
        BY <2>1, <4>2
    <3>2. CASE c # d
      BY <2>1, <2>4, <3>2 DEF Read, TypeOK
    <3>. QED
      BY <3>1, <3>2
  <2>5. CASE UNCHANGED requests
    BY <2>1, <2>5
  <2>. QED
    BY <2>3, <2>4, <2>5 DEF Next, Client, Serve, Handler, Job, Take, TakePart, Fail,
       Close, Accept, Hangup, RunJob, Answer, JobSend, JobDone, PoolAnswers, Listen, End,
       PoolBegins, lineVars, vars
<1>4. ASSUME NEW c \in Clients, NEW k \in Calls, NEW d \in Clients, NEW q \in Kinds,
             Send(k, d, q)
      PROVE  LineOf(c)'
  <2>1. run[k] = "none" /\ by[k] = Nil /\ Running(c)' = Running(c)
    <3>1. at[k] = "new" /\ run[k] = "none" /\ by[k] = Nil /\ run' = run
      BY <1>2, <1>4 DEF Send, CallInv, runVars, TypeOK
    <3>2. \A j \in Calls \ {k} : by'[j] = by[j]
      BY <1>4 DEF Send, TypeOK
    <3>. QED
      BY <3>1, <3>2 DEF Running
  <2>2. CASE c # d
    <3>1. /\ requests'[c] = requests[c] /\ replies'[c] = replies[c]
          /\ socket'[c] = socket[c] /\ conn'[c] = conn[c] /\ cut' = cut
      BY <1>4, <2>2 DEF Send, Write, TypeOK
    <3>2. \A j \in Calls : at[j] = "wait" /\ by[j] = c => at'[j] = "wait" /\ by'[j] = c
      BY <1>4 DEF Send, Write, Throw, TypeOK
    <3>. QED
      BY <1>1, <2>1, <3>1, <3>2, SameLine
  <2>3. CASE c = d
    <3>1. \A j \in Calls : ~UnderWay(c, j)
      BY <1>4, <2>3 DEF Send, Busy, UnderWay
    <3>2. cut' = cut /\ (socket[c] # "closed" /\ c \notin cut => Quiet(c))
      BY <1>1, <1>4, <3>1 DEF LineOf, TypeOK, Send
    <3>3. /\ replies' = replies
          /\ \/ socket[c] \in {"null", "open"} /\ socket'[c] = "open" /\ conn'[c] # "none"
                /\ \/ requests'[c] = requests[c]
                   \/ /\ requests'[c] = Append(requests[c], k)
                      /\ at'[k] = "wait" /\ by'[k] = c
             \/ socket'[c] = socket[c] /\ socket[c] # "open" /\ requests'[c] = requests[c]
                /\ conn' = conn
      BY <1>1, <1>4, <2>3 DEF Send, Write, TypeOK, LineOf
    <3>4. CASE requests'[c] = requests[c]
      BY <1>1, <2>1, <3>2, <3>3, <3>4 DEF LineOf, Quiet
    <3>5. CASE /\ requests'[c] = Append(requests[c], k) /\ socket[c] # "closed"
               /\ at'[k] = "wait" /\ by'[k] = c /\ socket'[c] = "open" /\ conn'[c] # "none"
      <4>. SUFFICES ASSUME c \notin cut PROVE UnderWay(c, k)'
        BY <3>2, <3>5 DEF LineOf
      <4>1. requests[c] = <<>> /\ replies[c] = <<>> /\ Running(c) = {}
        BY <3>2, <3>5 DEF Quiet
      <4>2. requests'[c] = <<k>>
        BY <3>5, <4>1
      <4>. QED
        BY <2>1, <3>3, <3>5, <4>1, <4>2 DEF UnderWay
    <3>. QED
      BY <3>3, <3>4, <3>5
  <2>. QED
    BY <2>2, <2>3
<1>5. ASSUME NEW c \in Clients, NEW k \in Calls, Take(k) PROVE LineOf(c)'
  <2>1. /\ by[k] \in Clients /\ Running(c)' = Running(c) /\ socket' = socket
        /\ conn' = conn /\ cut' = cut
    BY <1>5 DEF Take, CallInv, TypeOK, Running, runVars
  <2>2. CASE c = by[k]
    <3>1. socket[c] = "open" /\ replies[c] # <<>>
      BY <1>5, <2>2 DEF Take, CallInv
    <3>. SUFFICES ASSUME c \notin cut PROVE Quiet(c)'
      BY <1>1, <2>1, <3>1 DEF LineOf
    <3>2. PICK j \in Calls : UnderWay(c, j)
      BY <1>1, <3>1 DEF LineOf, Quiet
    <3>3. requests[c] = <<>> /\ Running(c) = {} /\ Len(replies[c]) = 1
      BY <3>1, <3>2 DEF UnderWay
    <3>4. replies'[c] = <<>> /\ requests'[c] = <<>>
      <4>1. replies[c] \in Seq(Replies) /\ replies'[c] = Tail(replies[c])
        BY <1>5, <2>2 DEF Take, TypeOK
      <4>2. replies'[c] \in Seq(Replies) /\ Len(replies'[c]) = 0
        BY <3>1, <3>3, <4>1, HeadTailProperties
      <4>3. requests'[c] = <<>>
        BY <1>5, <3>3 DEF Take
      <4>. QED
        BY <4>2, <4>3, EmptySeq
    <3>. QED
      BY <2>1, <3>3, <3>4 DEF Quiet
  <2>3. CASE c # by[k]
    <3>1. /\ requests'[c] = requests[c] /\ replies'[c] = replies[c]
          /\ \A j \in Calls : at[j] = "wait" /\ by[j] = c => at'[j] = "wait" /\ by'[j] = c
      BY <1>5, <2>3 DEF Take, Throw, TypeOK
    <3>. QED
      BY <1>1, <2>1, <3>1, SameLine
  <2>. QED
    BY <2>2, <2>3
<1>13. ASSUME NEW c \in Clients, NEW k \in Calls, TakePart(k) PROVE LineOf(c)'
  <2>1. /\ by[k] \in Clients /\ Running(c)' = Running(c) /\ socket' = socket
        /\ conn' = conn /\ requests' = requests /\ cut' = cut \cup {by[k]}
    BY <1>13 DEF TakePart, CallInv, TypeOK, Running, runVars
  <2>2. CASE c = by[k]
    <3>1. socket[c] = "open"
      BY <1>13, <2>2 DEF TakePart, CallInv
    <3>. QED
      BY <1>1, <2>1, <2>2, <3>1 DEF LineOf
  <2>3. CASE c # by[k]
    <3>1. /\ replies'[c] = replies[c]
          /\ \A j \in Calls : at[j] = "wait" /\ by[j] = c => at'[j] = "wait" /\ by'[j] = c
      BY <1>13, <2>3 DEF TakePart, Throw, TypeOK
    <3>. QED
      BY <1>1, <2>1, <3>1, SameLine
  <2>. QED
    BY <2>2, <2>3
<1>6. ASSUME NEW c \in Clients, NEW k \in Calls, Fail(k) PROVE LineOf(c)'
  <2>1. /\ by[k] \in Clients /\ Running(c)' = Running(c) /\ conn' = conn
        /\ requests' = requests /\ replies' = replies /\ cut' = cut
    BY <1>6 DEF Fail, CallInv, TypeOK, Running, runVars, lineVars
  <2>2. CASE c = by[k]
    BY <1>1, <1>6, <2>1, <2>2 DEF Fail, CallInv, TypeOK, LineOf
  <2>3. CASE c # by[k]
    <3>1. /\ socket'[c] = socket[c]
          /\ \A j \in Calls : at[j] = "wait" /\ by[j] = c => at'[j] = "wait" /\ by'[j] = c
      BY <1>6, <2>3 DEF Fail, Throw, TypeOK
    <3>. QED
      BY <1>1, <2>1, <3>1, SameLine
  <2>. QED
    BY <2>2, <2>3
<1>7. ASSUME NEW c \in Clients, NEW d \in Clients, Close(d) \/ Accept(d) \/ Hangup(d)
      PROVE  LineOf(c)'
  <2>1. /\ requests' = requests /\ replies' = replies /\ UNCHANGED <<at, by, run, cut>>
        /\ Running(c)' = Running(c)
    BY <1>7 DEF Close, Accept, Hangup, clientVars, lineVars, runVars, Running
  <2>2. \/ c = d /\ Close(d)
        \/ socket'[c] = socket[c] /\ ((conn'[c] = "none") <=> (conn[c] = "none"))
    BY <1>7 DEF Close, Accept, Hangup, clientVars, lineVars, TypeOK
  <2>3. CASE c = d /\ Close(d)
    BY <1>1, <2>1, <2>3 DEF Close, lineVars, TypeOK, LineOf
  <2>. QED
    BY <1>1, <2>1, <2>2, <2>3, SameLine
<1>8. ASSUME NEW c \in Clients, NEW d \in Clients, Read(d) PROVE LineOf(c)'
  <2>1. PICK h \in Calls : h = Head(requests[d]) /\ by[h] = d
    BY <1>8, Requested DEF Read
  <2>2. UNCHANGED <<at, by, socket, conn, cut>>
    BY <1>8 DEF Read, clientVars
  <2>3. CASE c # d
    <3>1. requests'[c] = requests[c] /\ replies'[c] = replies[c]
      BY <1>8, <2>3 DEF Read, TypeOK
    <3>2. Running(c)' = Running(c)
      BY <1>8, <2>1, <2>2, <2>3 DEF Read, Running, TypeOK
    <3>. QED
      BY <1>1, <2>2, <3>1, <3>2, SameLine
  <2>4. CASE c = d /\ socket[c] = "open" /\ c \notin cut
    <3>1. PICK k \in Calls : UnderWay(c, k)
      BY <1>1, <1>8, <2>4 DEF LineOf, Quiet, Read
    <3>2. requests[c] = <<k>> /\ replies[c] = <<>> /\ Running(c) = {} /\ h = k
      BY <1>8, <2>1, <2>4, <3>1 DEF UnderWay, Read
    <3>3. requests'[c] = <<>>
      BY <1>8, <2>4, <3>2 DEF Read, TypeOK
    <3>4. CASE kind[k] = "unknown"
      <4>1. replies'[c] = <<[to |-> k, value |-> "error"]>> /\ run' = run
        BY <1>8, <2>1, <2>4, <3>2, <3>4 DEF Read, TypeOK
      <4>2. Len(replies'[c]) = 1 /\ Head(replies'[c]).to = k /\ Running(c)' = {}
        BY <2>2, <3>2, <4>1 DEF Running
      <4>. QED
        BY <1>1, <2>2, <2>4, <3>1, <3>3, <4>2 DEF LineOf, UnderWay
    <3>5. CASE kind[k] # "unknown"
      <4>1. replies'[c] = <<>> /\ run' = [run EXCEPT ![k] = "called"]
        BY <1>8, <2>1, <2>4, <3>2, <3>5 DEF Read, TypeOK
      <4>2. Running(c)' = {k}
        BY <2>2, <3>1, <3>2, <4>1 DEF Running, UnderWay, TypeOK
      <4>. QED
        BY <1>1, <2>2, <2>4, <3>1, <3>3, <4>1, <4>2 DEF LineOf, UnderWay
    <3>. QED
      BY <3>4, <3>5
  <2>5. CASE c = d /\ (socket[c] # "open" \/ c \in cut)
    <3>1. socket[c] # "null"
      BY <1>1, <1>8, <2>5 DEF LineOf, Quiet, Read
    <3>. QED
      BY <1>1, <2>2, <2>5, <3>1 DEF LineOf
  <2>. QED
    BY <2>3, <2>4, <2>5
<1>9. ASSUME NEW c \in Clients, NEW k \in Calls, RunJob(k) PROVE LineOf(c)'
  <2>1. UNCHANGED <<clientVars, lineVars>>
    BY <1>9, Zenon DEF RunJob
  <2>2. Running(c)' = Running(c)
    BY <1>9, <2>1 DEF RunJob, Running, TypeOK, clientVars, runVars
  <2>. QED
    BY <1>1, <2>1, <2>2, SameLine DEF clientVars, lineVars
<1>10. ASSUME NEW c \in Clients, NEW k \in Calls, Answer(k) PROVE LineOf(c)'
  <2>1. /\ UNCHANGED <<at, by, socket, conn, requests, cut>> /\ run[k] = "reply"
        /\ run' = [run EXCEPT ![k] = "done"]
        /\ replies' = [replies EXCEPT ![by[k]] = Append(@, [to |-> k, value |-> "true"])]
    BY <1>10 DEF Answer, clientVars
  <2>2. CASE c # by[k]
    <3>1. replies'[c] = replies[c] /\ Running(c)' = Running(c)
      BY <2>1, <2>2 DEF Running, TypeOK
    <3>. QED
      BY <1>1, <2>1, <3>1, SameLine
  <2>3. CASE c = by[k]
    <3>1. k \in Running(c)
      BY <2>1, <2>3 DEF Running
    <3>2. socket[c] # "null"
      BY <1>1, <3>1 DEF LineOf, Quiet
    <3>3. ASSUME socket[c] = "open", c \notin cut
          PROVE  UnderWay(c, k)'
      <4>1. PICK j \in Calls : UnderWay(c, j)
        BY <1>1, <3>1, <3>3 DEF LineOf, Quiet
      <4>2. requests[c] = <<>> /\ replies[c] = <<>> /\ Running(c) = {k} /\ at[k] = "wait"
        BY <3>1, <4>1 DEF UnderWay
      <4>3. replies'[c] = <<[to |-> k, value |-> "true"]>>
        BY <2>1, <2>3, <4>2 DEF TypeOK
      <4>4. Running(c)' = {}
        BY <2>1, <4>2 DEF Running, TypeOK
      <4>5. Len(replies'[c]) = 1 /\ Head(replies'[c]).to = k
        BY <4>3
      <4>. QED
        BY <2>1, <2>3, <4>2, <4>4, <4>5 DEF UnderWay
    <3>. QED
      BY <1>1, <2>1, <3>2, <3>3 DEF LineOf
  <2>. QED
    BY <2>2, <2>3
<1>11. ASSUME NEW c \in Clients, UNCHANGED <<clientVars, lineVars, run>> PROVE LineOf(c)'
  <2>1. Running(c)' = Running(c)
    BY <1>11 DEF Running, clientVars
  <2>. QED
    BY <1>1, <1>11, <2>1, SameLine DEF clientVars, lineVars
<1>12. \A c \in Clients : LineOf(c)'
  <2>1. \/ UNCHANGED <<clientVars, lineVars, run>>
        \/ \E k \in Calls : Take(k) \/ TakePart(k) \/ Fail(k) \/ RunJob(k) \/ Answer(k)
        \/ \E d \in Clients : Close(d) \/ Accept(d) \/ Hangup(d) \/ Read(d)
        \/ \E k \in Calls, d \in Clients, q \in Kinds : Send(k, d, q)
    BY DEF Next, Client, Serve, Handler, Job, JobSend, JobDone, PoolAnswers, Listen, End,
       PoolBegins, clientVars, lineVars, runVars, vars
  <2>. QED
    BY <1>4, <1>5, <1>6, <1>7, <1>8, <1>9, <1>10, <1>11, <1>13, <2>1
<1>. QED
  BY <1>3, <1>12 DEF LineInv, LineOf
-----------------------------------------------------------------------------
(* The theorems.                                                           *)

LEMMA InitInv == ASSUME RPCAssumption, Init PROVE IInv
<1>1. TypeOK
  BY DEF Init, Pool!Init, TypeOK, Kinds
<1>2. OneCall /\ ReplyInv /\ CallInv
  BY DEF Init, Pool!Init, OneCall, ReplyInv, CallInv
<1>3. LineInv
  BY DEF Init, LineInv, Quiet, Running
<1>. QED
  BY <1>1, <1>2, <1>3 DEF IInv

LEMMA InvStep == ASSUME RPCAssumption, IInv, [Next]_vars PROVE IInv'
BY TypeStep, OneCallStep, ReplyStep, CallStep, LineStep DEF IInv

LEMMA Invariance == Spec => []IInv
BY RPCAssumption, InitInv, InvStep, PTL DEF Spec

\* Every variable keeps its type, for any number of clients and calls.
THEOREM TypeCorrect == Spec => []TypeOK
BY Invariance, PTL DEF IInv

\* A call returns the reply to its own request (RPC.php 31), unless its client has been
\* left with a part of a line.
THEOREM AlwaysOwnReply == Spec => []OwnReply
<1>1. IInv => OwnReply
  BY DEF IInv, CallInv, OwnReply
<1>. QED
  BY <1>1, Invariance, PTL

\* A call that is said to be "true" has a job, one that is said to fail has none
\* (main.go 178).
THEOREM AlwaysRepliesTrue == Spec => []RepliesTrue
<1>1. ASSUME IInv PROVE RepliesTrue
  <2>. SUFFICES ASSUME NEW k \in Calls, at[k] = "told", NEW j, j = reply[k].to
                PROVE  /\ reply[k].value = "error" => j \notin sent /\ job[j] = "none"
                       /\ reply[k].value = "true" /\ program = "serve" =>
                            job[j] = "send" \/ (jobsPool /\ j \in sent)
    BY DEF RepliesTrue
  <2>1. /\ j \in Calls
        /\ reply[k].value = "true" => job[j] # "none"
        /\ reply[k].value = "error" => kind[j] = "unknown"
    BY <1>1 DEF IInv, CallInv, Honest, Replies
  <2>2. kind[j] = "unknown" => job[j] = "none" /\ j \notin sent
    BY <1>1, <2>1 DEF IInv, CallInv
  <2>3. job[j] # "none" => job[j] = "send" \/ (jobsPool /\ j \in sent)
    BY <1>1, <2>1 DEF IInv, TypeOK, CallInv
  <2>. QED
    BY <2>1, <2>2, <2>3
<1>. QED
  BY <1>1, Invariance, PTL
=============================================================================
