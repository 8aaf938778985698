------------------------------- MODULE Binary -------------------------------
(***************************************************************************)
(* The binary protocol of binary.go and Serializer.php.  A message is a    *)
(* list of fields in a fixed order: unsigned numbers of a fixed width,     *)
(* little endian; strings, after their length; maps, after their number of *)
(* entries, which are lists of numbers and strings.  Bytes are digits,     *)
(* 0..Base-1, and a number has Width of them (8 bytes in the code).        *)
(***************************************************************************)
EXTENDS Integers, Sequences, SequencesExt

CONSTANTS Base, Width

ASSUME BinaryAssumption == Base \in Nat \ {0, 1} /\ Width \in Nat \ {0}

Byte == 0..(Base - 1)
Bytes == Seq(Byte)

\* The kinds of fields.  The key of an entry of a map is its first field.
Uint == [kind |-> "uint"]
Str == [kind |-> "string"]
MapOf(fields) == [kind |-> "map", of |-> <<Str>> \o fields]

File == <<Str, Str, Uint>>
HTTPRequest == <<Str, Str, MapOf(<<Str>>), Str, MapOf(File), MapOf(<<Str>>)>>
HTTPResponse == <<Uint, MapOf(<<Str>>), Str>>
JobRequest == <<Str, Str, Uint>>
JobResponse == <<Str>>
-----------------------------------------------------------------------------
(* Writing.                                                                *)

\* n without its last i digits, for i up to Width.
Shifted(n) ==
  LET q[i \in 0..Width] == IF i = 0 THEN n ELSE q[i - 1] \div Base IN q

WriteUint(n) == [i \in 1..Width |-> Shifted(n)[i - 1] % Base]

WriteString(s) == WriteUint(Len(s)) \o s

WriteSimple(field, val) ==
  IF field.kind = "uint" THEN WriteUint(val) ELSE WriteString(val)

WriteEntry(of, entry) == FlattenSeq([i \in DOMAIN of |-> WriteSimple(of[i], entry[i])])

\* A map is written in the order its entries come in: any order in Go, the
\* order of the array in PHP.
WriteMap(of, entries) ==
  WriteUint(Len(entries)) \o
    FlattenSeq([i \in DOMAIN entries |-> WriteEntry(of, entries[i])])

WriteField(field, val) ==
  IF field.kind = "map" THEN WriteMap(field.of, val) ELSE WriteSimple(field, val)

\* The fields one after the other.
Write(fields, vals) == FlattenSeq([i \in DOMAIN fields |-> WriteField(fields[i], vals[i])])
-----------------------------------------------------------------------------
(* Numbers of Width digits.                                                *)

Number(b) ==
  LET v[i \in 0..Width] == IF i = 0 THEN 0 ELSE b[Width - i + 1] + Base * v[i - 1]
  IN v[Width]

\* How many there are (2^64 in the code).
Modulus == 1 + Number([i \in 1..Width |-> Base - 1])

\* PHP has no unsigned numbers: unpack takes the upper half of them for negative ones.
Signed(n) == IF 2 * n < Modulus THEN n ELSE n - Modulus
-----------------------------------------------------------------------------
(* What can be written: numbers that have Width digits, and lengths, which *)
(* are ints in Go and in PHP.                                              *)

Fits(n) == n \in Nat /\ Shifted(n)[Width] = 0
LengthFits(n) == Fits(n) /\ Signed(n) = n

SimpleFits(field, val) ==
  IF field.kind = "uint" THEN Fits(val) ELSE val \in Bytes /\ LengthFits(Len(val))

EntryFits(of, entry) ==
  /\ entry = [i \in DOMAIN of |-> entry[i]]
  /\ \A i \in DOMAIN of : SimpleFits(of[i], entry[i])

MapFits(of, entries) ==
  /\ LengthFits(Len(entries)) /\ entries = [i \in 1..Len(entries) |-> entries[i]]
  /\ \A i \in DOMAIN entries : EntryFits(of, entries[i])

FieldFits(field, val) ==
  IF field.kind = "map" THEN MapFits(field.of, val) ELSE SimpleFits(field, val)

MessageFits(fields, vals) ==
  /\ vals = [i \in DOMAIN fields |-> vals[i]]
  /\ \A i \in DOMAIN fields : FieldFits(fields[i], vals[i])
-----------------------------------------------------------------------------
(* A parser is a function of the bytes that are to be read; it returns the *)
(* value and the bytes that are left, or fails.  Go (strict) fails when    *)
(* there are too few bytes; PHP's fread returns those there are, and only  *)
(* a number that is too short is noticed, or a length that is negative.    *)

Fail == [ok |-> FALSE]
Parsed(v, rest) == [ok |-> TRUE, val |-> v, rest |-> rest]
Drop(b, n) == SubSeq(b, n + 1, Len(b))

Value(n, strict) == IF strict THEN n ELSE Signed(n)

ParseUint(b, strict) ==
  IF Len(b) < Width THEN Fail ELSE Parsed(Value(Number(b), strict), Drop(b, Width))

\* Mutant of ParseString: Go takes what a single read returns, too.
ParseStringShort(b, strict) ==
  LET n == ParseUint(b, strict)
  IN IF ~n.ok \/ n.val < 0 THEN Fail
     ELSE LET len == IF n.val > Len(n.rest) THEN Len(n.rest) ELSE n.val
          IN Parsed(SubSeq(n.rest, 1, len), Drop(n.rest, len))

ParseString(b, strict) ==
  LET n == ParseUint(b, strict)
  IN IF ~n.ok \/ n.val < 0 \/ (strict /\ n.val > Len(n.rest)) THEN Fail
     ELSE LET len == IF n.val > Len(n.rest) THEN Len(n.rest) ELSE n.val
          IN Parsed(SubSeq(n.rest, 1, len), Drop(n.rest, len))

SimpleParser(field, strict) ==
  [b \in Bytes |-> IF field.kind = "uint" THEN ParseUint(b, strict) ELSE ParseString(b, strict)]

\* p, and then what the parser q finds in the rest.
Then(p, q) ==
  IF ~p.ok THEN Fail
  ELSE LET r == q[p.rest]
       IN IF r.ok THEN Parsed(Append(p.val, r.val), r.rest) ELSE Fail

\* The parsers one after the other: what the first i of them make of b.
Steps(parsers, b) ==
  LET s[i \in 0..Len(parsers)] ==
        IF i = 0 THEN Parsed(<<>>, b) ELSE Then(s[i - 1], parsers[i])
  IN s
Chain(parsers, b) == Steps(parsers, b)[Len(parsers)]

EntryParser(of, strict) ==
  [b \in Bytes |-> Chain([i \in DOMAIN of |-> SimpleParser(of[i], strict)], b)]

MapParser(of, strict) ==
  [b \in Bytes |->
     LET n == ParseUint(b, strict)
     IN IF n.ok THEN Chain([i \in 1..n.val |-> EntryParser(of, strict)], n.rest)
        ELSE Fail]

FieldParser(field, strict) ==
  IF field.kind = "map" THEN MapParser(field.of, strict) ELSE SimpleParser(field, strict)

Parse(fields, b, strict) ==
  Chain([i \in DOMAIN fields |-> FieldParser(fields[i], strict)], b)

\* What a Go map holds after its entries were put in: the last one of a key.
GoMap(entries) ==
  [k \in {e[1] : e \in ToSet(entries)} |->
     Tail(entries[CHOOSE i \in DOMAIN entries :
            entries[i][1] = k /\ \A j \in DOMAIN entries : entries[j][1] = k => j <= i])]

Meaning(fields, vals) ==
  [i \in DOMAIN fields |->
     IF fields[i].kind = "map" THEN GoMap(vals[i]) ELSE vals[i]]
=============================================================================
