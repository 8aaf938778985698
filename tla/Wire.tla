-------------------------------- MODULE Wire --------------------------------
(***************************************************************************)
(* A client of the pool (http/worker.go, jobs/jobs.go), a job loop that    *)
(* sends its messages one after the other (Worker.writeMsg, readMsg), and  *)
(* the PHP program at the other end of the two pipes (Dispatcher.php and   *)
(* the example programs).  A message is framed by a line with its length   *)
(* and goes through the pipe in pieces; reads return what has arrived.     *)
(***************************************************************************)
EXTENDS Binary, FiniteSetsExt

CONSTANTS
  Requests,     \* [kind]: the messages a client of that kind may send
  Exchanges,    \* how many it sends
  Numeric,      \* the keys PHP turns into numbers
  Chunk,        \* PipeChunkSize: 2048
  PipeCap       \* what a pipe holds

ASSUME WireAssumption ==
  /\ DOMAIN Requests \subseteq {"http", "job", "raw"}
  /\ \A k \in DOMAIN Requests : \A m \in Requests[k] :
       CASE k = "http" -> MessageFits(HTTPRequest, m)
         [] k = "job" -> MessageFits(JobRequest, m)
         [] k = "raw" -> m \in Bytes
  /\ {Exchanges, Chunk, PipeCap} \subseteq Nat \ {0}

VARIABLES
  kind, msgs,        \* the client and what it sends
  stdin, stdout,     \* the pipes
  go,                \* "idle", "write", "line", "body", "failed" or "gone"
  goOut, goLeft, goBuf,    \* pieces to write, bytes to read, bytes read
  got,               \* what readMsg has returned
  php,               \* "line", "body", "handle", "write", "spin" or "exited"
  phpOut, phpLeft, phpBuf,
  given,             \* what the handler was called with
  killed, cut        \* has PHP been killed?  has Go ended inside a message?

goVars == <<go, goOut, goLeft, goBuf, got>>
phpVars == <<php, phpOut, phpLeft, phpBuf, given>>
vars == <<kind, msgs, stdin, stdout, goVars, phpVars, killed, cut>>

\* On the pipe a line is one item, told from the bytes by its size.
Line(n) == Base + n

Pieces(data) ==
  [k \in 1..((Len(data) + Chunk - 1) \div Chunk) |->
     SubSeq(data, (k - 1) * Chunk + 1, Min({k * Chunk, Len(data)}))]

\* Mutant of Framed: only pieces that are full are written.
FramedFull(data) == <<<<Line(Len(data))>>>> \o SelectSeq(Pieces(data), LAMBDA p : Len(p) = Chunk)

Framed(data) == <<<<Line(Len(data))>>>> \o Pieces(data)

\* What one call moves into a pipe, and what is left.
Room(pipe, out) == Min({PipeCap - Len(pipe), Len(Head(out))})
Moved(pipe, out) == pipe \o SubSeq(Head(out), 1, Room(pipe, out))
Left(pipe, out) ==
  LET rest == Drop(Head(out), Room(pipe, out))
  IN IF rest = <<>> THEN Tail(out) ELSE <<rest>> \o Tail(out)
-----------------------------------------------------------------------------
(* The client.                                                             *)

Encode(k, m) ==
  CASE k = "http" -> Write(HTTPRequest, m)
    [] k = "job" -> Write(JobRequest, m)
    [] k = "raw" -> m

Encoded(m) == Encode(kind, m)

\* What the client makes of what readMsg has returned.
Decoded(data) ==
  LET fields == IF kind = "http" THEN HTTPResponse ELSE JobResponse
      p == Parse(fields, data, TRUE)
  IN CASE kind = "raw" -> [ok |-> TRUE, val |-> data]
       [] kind # "raw" /\ p.ok -> [ok |-> TRUE, val |-> Meaning(fields, p.val)]
       [] OTHER -> Fail

Init ==
  /\ kind \in DOMAIN Requests /\ msgs \in [1..Exchanges -> Requests[kind]]
  /\ stdin = <<>> /\ stdout = <<>>
  /\ go = "idle" /\ goOut = <<>> /\ goLeft = 0 /\ goBuf = <<>> /\ got = <<>>
  /\ php = "line" /\ phpOut = <<>> /\ phpLeft = 0 /\ phpBuf = <<>> /\ given = <<>>
  /\ killed = FALSE /\ cut = FALSE

Send ==
  /\ go = "idle" /\ Len(got) < Exchanges
  /\ go' = "write" /\ goOut' = Framed(Encoded(msgs[Len(got) + 1]))
  /\ UNCHANGED <<kind, msgs, stdin, stdout, goLeft, goBuf, got, phpVars, killed, cut>>

\* writeMsg, into the pipe as far as there is room.
GoWrites ==
  /\ go = "write" /\ goOut # <<>> /\ php # "exited" /\ Len(stdin) < PipeCap
  /\ stdin' = Moved(stdin, goOut) /\ goOut' = Left(stdin, goOut)
  /\ UNCHANGED <<kind, msgs, stdout, go, goLeft, goBuf, got, phpVars, killed, cut>>

Written ==
  /\ go = "write" /\ goOut = <<>> /\ go' = "line"
  /\ UNCHANGED <<kind, msgs, stdin, stdout, goOut, goLeft, goBuf, got, phpVars, killed, cut>>

\* readMsg: the length, ...
GoReadsLine ==
  /\ go = "line" /\ stdout # <<>>
  /\ go' = "body" /\ goLeft' = Head(stdout) - Base /\ goBuf' = <<>>
  /\ stdout' = Tail(stdout)
  /\ UNCHANGED <<kind, msgs, stdin, goOut, got, phpVars, killed, cut>>

\* ... and as many bytes, in parts.
GoReads ==
  /\ go = "body"
  /\ \E n \in 1..Min({goLeft, Chunk, Len(stdout)}) :
       /\ goBuf' = goBuf \o SubSeq(stdout, 1, n) /\ stdout' = Drop(stdout, n)
       /\ goLeft' = goLeft - n
  /\ UNCHANGED <<kind, msgs, stdin, go, goOut, got, phpVars, killed, cut>>

\* The client is told.
GoAnswers ==
  /\ go = "body" /\ goLeft = 0
  /\ go' = "idle" /\ got' = Append(got, [ok |-> TRUE, data |-> goBuf]) /\ goBuf' = <<>>
  /\ UNCHANGED <<kind, msgs, stdin, stdout, goOut, goLeft, phpVars, killed, cut>>

\* Mutant of GoFails: what has been read is taken for the answer.
GoFailsNot ==
  /\ php = "exited" /\ go' = "failed"
  /\ \/ go = "write" /\ goOut # <<>>
     \/ go = "line" /\ stdout = <<>>
     \/ go = "body" /\ stdout = <<>> /\ goLeft > 0
  /\ got' = Append(got, [ok |-> TRUE, data |-> goBuf])
  /\ UNCHANGED <<kind, msgs, stdin, stdout, goOut, goLeft, goBuf, phpVars, killed, cut>>

\* Mutant of GoFails: the worker keeps the process that has failed.
GoFailsOn ==
  /\ php = "exited" /\ go' = "idle"
  /\ \/ go = "write" /\ goOut # <<>>
     \/ go = "line" /\ stdout = <<>>
     \/ go = "body" /\ stdout = <<>> /\ goLeft > 0
  /\ got' = Append(got, Fail)
  /\ UNCHANGED <<kind, msgs, stdin, stdout, goOut, goLeft, goBuf, phpVars, killed, cut>>

\* A pipe that has nobody at the other end is an error in each of the three.
GoFails ==
  /\ php = "exited" /\ go' = "failed"
  /\ \/ go = "write" /\ goOut # <<>>
     \/ go = "line" /\ stdout = <<>>
     \/ go = "body" /\ stdout = <<>> /\ goLeft > 0
  /\ got' = Append(got, Fail)
  /\ UNCHANGED <<kind, msgs, stdin, stdout, goOut, goLeft, goBuf, phpVars, killed, cut>>

\* The server ends (log.Fatal, a panic): the pipes are closed.
GoEnds ==
  /\ go \notin {"failed", "gone"} /\ go' = "gone"
  /\ cut' = (go = "write" /\ goOut \notin {<<>>, Framed(Encoded(msgs[Len(got) + 1]))})
  /\ goOut' = <<>>
  /\ UNCHANGED <<kind, msgs, stdin, stdout, goLeft, goBuf, got, phpVars, killed>>
-----------------------------------------------------------------------------
(* Dispatcher::messages and send.                                          *)

\* Mutant of PhpReadsLine: the end of the line counts as part of the message.
PhpReadsLineMore ==
  /\ php = "line" /\ stdin # <<>>
  /\ phpLeft' = (Head(stdin) - Base) + 1 /\ phpBuf' = <<>> /\ stdin' = Tail(stdin)
  /\ php' = IF phpLeft' = 0 THEN "exited" ELSE "body"
  /\ UNCHANGED <<kind, msgs, stdout, goVars, phpOut, given, killed, cut>>

\* fread of no bytes throws, which ends the program.
PhpReadsLine ==
  /\ php = "line" /\ stdin # <<>>
  /\ phpLeft' = Head(stdin) - Base /\ phpBuf' = <<>> /\ stdin' = Tail(stdin)
  /\ php' = IF phpLeft' = 0 THEN "exited" ELSE "body"
  /\ UNCHANGED <<kind, msgs, stdout, goVars, phpOut, given, killed, cut>>

\* Mutant of PhpReads: every read counts as a full one.
PhpReadsFull ==
  /\ php = "body"
  /\ \E n \in 1..Min({phpLeft, Chunk, Len(stdin)}) :
       /\ phpBuf' = phpBuf \o SubSeq(stdin, 1, n) /\ stdin' = Drop(stdin, n)
       /\ phpLeft' = phpLeft - Min({phpLeft, Chunk})
  /\ php' = IF phpLeft' = 0 THEN "handle" ELSE "body"
  /\ UNCHANGED <<kind, msgs, stdout, goVars, phpOut, given, killed, cut>>

PhpReads ==
  /\ php = "body"
  /\ \E n \in 1..Min({phpLeft, Chunk, Len(stdin)}) :
       /\ phpBuf' = phpBuf \o SubSeq(stdin, 1, n) /\ stdin' = Drop(stdin, n)
       /\ phpLeft' = phpLeft - n
  /\ php' = IF phpLeft' = 0 THEN "handle" ELSE "body"
  /\ UNCHANGED <<kind, msgs, stdout, goVars, phpOut, given, killed, cut>>

\* Mutant of PhpInputEnds: the end of the input is not told from an empty read.
PhpInputEndsNot ==
  /\ go = "gone" /\ stdin = <<>> /\ php \in {"line", "body"} /\ php' = "spin"
  /\ UNCHANGED <<kind, msgs, stdin, stdout, goVars, phpOut, phpLeft, phpBuf, given, killed, cut>>

\* At the end of the input fgets returns false, but fread "", for ever.
PhpInputEnds ==
  /\ go = "gone" /\ stdin = <<>> /\ php \in {"line", "body"}
  /\ php' = IF php = "line" THEN "exited" ELSE "spin"
  /\ UNCHANGED <<kind, msgs, stdin, stdout, goVars, phpOut, phpLeft, phpBuf, given, killed, cut>>

\* The status of a response: 200.
Success == 1

\* The answers of the example programs: a response with the headers and the
\* body of the request, the payload of a job, or any string.  A key that looks
\* like a number has become one, and writing it throws.
Replies(k, data) ==
  CASE k = "http" ->
         LET p == Parse(HTTPRequest, data, FALSE)
         IN IF ~p.ok \/ \E e \in ToSet(p.val[3]) : e[1] \in Numeric THEN {}
            ELSE {Write(HTTPResponse, <<Success, p.val[3], p.val[4]>>)}
    [] k = "job" ->
         LET p == Parse(JobRequest, data, FALSE)
         IN IF p.ok THEN {Write(JobResponse, <<p.val[2]>>)} ELSE {}
    [] k = "raw" -> {<<>>, data}

\* A program is a function of its message.  (As a constant it is computed once.)
Program ==
  [k \in DOMAIN Requests |->
     [data \in {Encode(k, m) : m \in Requests[k]} |-> Replies(k, data)]]

PhpHandles ==
  /\ php = "handle" /\ given' = Append(given, phpBuf) /\ phpBuf' = <<>>
  /\ LET replies == IF phpBuf \in DOMAIN Program[kind] THEN Program[kind][phpBuf] ELSE {}
     IN \/ \E r \in replies : php' = "write" /\ phpOut' = Framed(r)
        \/ replies = {} /\ php' = "exited" /\ UNCHANGED phpOut
  /\ UNCHANGED <<kind, msgs, stdin, stdout, goVars, phpLeft, killed, cut>>

\* fwrite, which has no effect when nobody reads.
PhpWrites ==
  /\ php = "write" /\ phpOut # <<>>
  /\ IF go = "gone" THEN phpOut' = <<>> /\ UNCHANGED stdout
     ELSE /\ Len(stdout) < PipeCap
          /\ stdout' = Moved(stdout, phpOut) /\ phpOut' = Left(stdout, phpOut)
  /\ UNCHANGED <<kind, msgs, stdin, goVars, php, phpLeft, phpBuf, given, killed, cut>>

PhpSent ==
  /\ php = "write" /\ phpOut = <<>> /\ php' = "line"
  /\ UNCHANGED <<kind, msgs, stdin, stdout, goVars, phpOut, phpLeft, phpBuf, given, killed, cut>>

PhpKilled ==
  /\ php \notin {"spin", "exited"} /\ php' = "exited" /\ killed' = TRUE
  /\ UNCHANGED <<kind, msgs, stdin, stdout, goVars, phpOut, phpLeft, phpBuf, given, cut>>
-----------------------------------------------------------------------------
Go ==
  \/ Send \/ GoWrites \/ Written \/ GoReadsLine \/ GoReads \/ GoAnswers \/ GoFails
Php ==
  \/ PhpReadsLine \/ PhpReads \/ PhpInputEnds \/ PhpHandles \/ PhpWrites \/ PhpSent

Next == Go \/ Php \/ GoEnds \/ PhpKilled

Spec == Init /\ [][Next]_vars
-----------------------------------------------------------------------------
\* Every variable has a value of its type.
TypeOK ==
  /\ kind \in DOMAIN Requests /\ msgs \in [1..Exchanges -> Requests[kind]]
  /\ Len(stdin) <= PipeCap /\ Len(stdout) <= PipeCap
  /\ go \in {"idle", "write", "line", "body", "failed", "gone"}
  /\ php \in {"line", "body", "handle", "write", "spin", "exited"}
  /\ goLeft \in Nat /\ phpLeft \in Nat
  /\ goBuf \in Seq(Byte) /\ phpBuf \in Seq(Byte) /\ given \in Seq(Seq(Byte))
  /\ Len(got) <= Exchanges /\ {killed, cut} \subseteq BOOLEAN

\* The handler is called with the messages that were sent, whole and in order,
\* however the pipes cut them, also when the server ends in the middle of one;
\* and when the client has its answer nothing of it is left in a pipe.
Intact ==
  /\ Len(given) <= Len(got) + 1
  /\ \A i \in DOMAIN given : given[i] = Encoded(msgs[i])
  /\ go = "idle" => stdin = <<>> /\ stdout = <<>>

\* What the client has to be told if PHP answers at all.
Expected(m) ==
  CASE kind = "http" -> {<<Success, GoMap(m[3]), m[4]>>}
    [] kind = "job" -> {<<m[2]>>}
    [] kind = "raw" -> {<<>>, m}

Unanswerable(m) ==
  \/ kind = "raw" /\ m = <<>>
  \/ kind = "http" /\ \E e \in ToSet(m[3]) : e[1] \in Numeric

\* A client is told the answer to its request, as PHP meant it, or an error; an
\* error only if PHP has been killed, or cannot answer: an empty message, or a
\* header whose name is a number (Serializer.php 254).
RoundTrip ==
  \A i \in DOMAIN got :
    IF got[i].ok
    THEN LET told == Decoded(got[i].data) IN told.ok /\ told.val \in Expected(msgs[i])
    ELSE killed \/ Unanswerable(msgs[i])

\* No part of a message passes for a message: Go's parsers reject every proper
\* prefix, and Serializer.php those that do not end within a string at the end.
CutRejected ==
  go = "idle" /\ kind # "raw" /\ Len(got) < Exchanges =>
    LET fields == IF kind = "http" THEN HTTPRequest ELSE JobRequest
        m == msgs[Len(got) + 1]
        b == Encoded(m)
        last == m[Len(fields)]
        tail == IF kind = "http" /\ last # <<>> THEN Len(last[Len(last)][2]) ELSE 0
    IN \A n \in 0..(Len(b) - 1) :
         /\ ~Parse(fields, SubSeq(b, 1, n), TRUE).ok
         /\ n < Len(b) - tail => ~Parse(fields, SubSeq(b, 1, n), FALSE).ok

\* Neither waits for the other while the other waits for it, whatever the pipes
\* hold: as long as an answer is due and PHP runs, one of them can go on.
NoStandstill ==
  go \in {"write", "line", "body"} /\ php # "exited" =>
    \/ go = "write" /\ (goOut = <<>> \/ Len(stdin) < PipeCap)
    \/ go = "line" /\ stdout # <<>>
    \/ go = "body" /\ (goLeft = 0 \/ stdout # <<>>)
    \/ php \in {"line", "body"} /\ stdin # <<>>
    \/ php = "handle"
    \/ php = "write" /\ (phpOut = <<>> \/ Len(stdout) < PipeCap)

\* What each message is encoded as.  (As a constant it is computed once.)
Encodings == [k \in DOMAIN Requests |-> [m \in Requests[k] |-> Encode(k, m)]]

\* Pipes, pieces and lengths left out, client and program keep to Exchange.
Exchanged == INSTANCE Exchange WITH
  Count <- Exchanges, Error <- Fail,
  Programs <- {Program[k] : k \in DOMAIN Requests},
  program <- Program[kind],
  messages <- [i \in 1..Exchanges |-> Encodings[kind][msgs[i]]],
  handled <- given, told <- got,
  state <- CASE go = "failed" -> "failed" [] go = "gone" -> "ended" [] OTHER -> "open"

ExchangeSpec == Exchanged!Spec
-----------------------------------------------------------------------------
\* Go runs its goroutines and the system its processes.
FairSpec == Spec /\ WF_vars(Go) /\ WF_vars(Php)

\* Neither side waits for ever for bytes the other will not send.
EventuallyTold == go = "write" ~> go \in {"idle", "failed", "gone"}

\* A PHP program whose server has ended ends too, unless the server was in the
\* middle of a message: then it reads nothing for ever (Dispatcher.php 64).
OrphanEnds == go = "gone" /\ ~cut ~> php = "exited"
=============================================================================
