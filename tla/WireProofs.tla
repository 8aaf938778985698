----------------------------- MODULE WireProofs -----------------------------
(***************************************************************************)
(* Proofs about Wire, for any messages that can be written, any size of    *)
(* chunks and of pipes and any base and width of the numbers.              *)
(*                                                                         *)
(* First the codec: a parser reads what the writer of its field has        *)
(* written, whatever follows (Codes), field by field, entry by entry and   *)
(* message by message.  Then the pieces in a pipe, put together, are what  *)
(* was written.  The invariant says of each phase of an exchange that what *)
(* the reader has, what is in the pipe and what the writer has left are,   *)
(* one after the other, the message.                                       *)
(***************************************************************************)
EXTENDS Wire, SequenceTheorems, WellFoundedInduction, TLAPS
-----------------------------------------------------------------------------
(* Induction and recursion over numbers, for sets and functions.           *)

\* A set of numbers with 0 and the successors of its members has them all.
LEMMA Induction ==
  ASSUME NEW T, T \subseteq Nat, 0 \in T, \A n \in T : n + 1 \in T
  PROVE  T = Nat
<1>. DEFINE R == OpToRel(<, Nat)
            U == Nat \ T
<1>1. SUFFICES ASSUME U # {} PROVE FALSE
  OBVIOUS
<1>2. U \subseteq Nat
  OBVIOUS
<1>3. IsWellFoundedOn(R, Nat)
  BY NatLessThanWellFounded
<1>. HIDE DEF R, U
<1>4. PICK x \in U : \A y \in U : ~(<<y, x>> \in R)
  BY <1>1, <1>2, <1>3, WFMin
<1>5. x \in Nat /\ x # 0 /\ x \notin T
  BY <1>4 DEF U
<1>6. x - 1 \in Nat /\ (x - 1) + 1 = x
  BY <1>5
<1>7. x - 1 \in U
  BY <1>5, <1>6 DEF U
<1>8. <<x - 1, x>> \in R
  BY <1>5, <1>6 DEF R, OpToRel
<1>. QED
  BY <1>4, <1>7, <1>8

\* The same up to m.
LEMMA InductionUpTo ==
  ASSUME NEW m \in Nat, NEW T, 0 \in T,
         \A n \in 0..(m - 1) : n \in T => n + 1 \in T
  PROVE  \A n \in 0..m : n \in T
<1>. DEFINE U == {n \in Nat : n <= m => n \in T}
<1>1. U \subseteq Nat /\ 0 \in U /\ \A n \in U : n + 1 \in U
  OBVIOUS
<1>2. U = Nat
  <2>. HIDE DEF U
  <2>. QED
    BY <1>1, Induction
<1>. QED
  BY <1>2

\* A sequence given by its elements.
LEMMA Listed ==
  ASSUME NEW n \in Nat, NEW f, f = [i \in 1..n |-> f[i]],
         NEW S, \A i \in 1..n : f[i] \in S
  PROVE  f \in Seq(S) /\ Len(f) = n /\ DOMAIN f = 1..n
<1>1. f \in [1..n -> S]
  OBVIOUS
<1>2. f \in Seq(S)
  BY <1>1, SeqDef
<1>3. 1..Len(f) = 1..n /\ Len(f) \in Nat
  BY <1>1, <1>2, LenProperties
<1>. QED
  BY <1>2, <1>3

\* Three sequences one after the other.  (The provers find the lemma when the
\* equation has a name.)
Assoc(s, t, u) == (s \o t) \o u = s \o (t \o u)

LEMMA Associative == \A S : \A s, t, u \in Seq(S) : Assoc(s, t, u)
  BY ConcatAssociative DEF Assoc

\* f comes from iterating a step n times, and there is such a function.
Iterates(f, n, S, c, step) ==
  /\ f \in [0..n -> S] /\ f[0] = c
  /\ \A i \in 1..n : f[i] = step[<<f[i - 1], i>>]

\* A function whose values follow from one another is there, as far as n.
\* (tlapm does not take that for granted of a recursive definition.)
LEMMA Iteration ==
  ASSUME NEW n \in Nat, NEW S, NEW c \in S, NEW step \in [S \X (1..n) -> S]
  PROVE  \E f : Iterates(f, n, S, c, step)
<1>. DEFINE It(f, k) == f = [i \in 0..k |-> IF i = 0 THEN c ELSE step[<<f[i - 1], i>>]]
            T == {k \in Nat : \E f \in [0..k -> S] : It(f, k)}
<1>1. 0 \in T
  <2>. DEFINE f == [i \in 0..0 |-> c]
  <2>1. f \in [0..0 -> S] /\ It(f, 0)
    OBVIOUS
  <2>. QED
    BY <2>1
<1>2. ASSUME NEW k \in 0..(n - 1), k \in T PROVE k + 1 \in T
  <2>1. PICK f \in [0..k -> S] : It(f, k)
    BY <1>2
  <2>. DEFINE g == [i \in 0..(k + 1) |-> IF i <= k THEN f[i] ELSE step[<<f[k], k + 1>>]]
  <2>2. k \in Nat /\ k + 1 \in Nat /\ k \in 0..k /\ k + 1 \in 1..n
    OBVIOUS
  <2>3. f[k] \in S /\ step[<<f[k], k + 1>>] \in S
    BY <2>2
  <2>4. ASSUME NEW i \in 0..(k + 1) PROVE g[i] \in S
    <3>1. CASE i <= k
      <4>1. i \in 0..k
        BY <2>2, <3>1
      <4>. QED
        BY <4>1, <3>1
    <3>. QED
      BY <2>3, <3>1
  <2>5. g \in [0..(k + 1) -> S]
    BY <2>4
  <2>6. ASSUME NEW i \in 0..(k + 1)
        PROVE  g[i] = IF i = 0 THEN c ELSE step[<<g[i - 1], i>>]
    <3>0. \A h \in 0..k : f[h] = IF h = 0 THEN c ELSE step[<<f[h - 1], h>>]
      BY <2>1
    <3>1. CASE i = 0
      <4>1. g[i] = f[0] /\ 0 \in 0..k
        BY <2>2, <3>1
      <4>. HIDE DEF g
      <4>. QED
        BY <3>0, <3>1, <4>1
    <3>2. CASE i \in 1..k
      <4>1. i - 1 \in 0..(k + 1) /\ i - 1 <= k /\ i <= k /\ i # 0 /\ i \in 0..k
        BY <3>2
      <4>2. g[i] = f[i] /\ g[i - 1] = f[i - 1]
        BY <4>1
      <4>. HIDE DEF g
      <4>. QED
        BY <3>0, <4>1, <4>2
    <3>3. CASE i = k + 1
      <4>1. k + 1 \in 0..(k + 1) /\ k \in 0..(k + 1) /\ ~(k + 1 <= k) /\ (k + 1) - 1 = k
        BY <2>2
      <4>2. g[k + 1] = step[<<f[k], k + 1>>] /\ g[k] = f[k] /\ k + 1 # 0
        BY <2>2, <4>1
      <4>. HIDE DEF g
      <4>. QED
        BY <3>3, <4>1, <4>2
    <3>4. i = 0 \/ i \in 1..k \/ i = k + 1
      BY <2>2
    <3>. HIDE DEF g
    <3>. QED
      BY <3>1, <3>2, <3>3, <3>4
  <2>7. It(g, k + 1)
    BY <2>6
  <2>. HIDE DEF g
  <2>8. \E h \in [0..(k + 1) -> S] : It(h, k + 1)
    BY <2>5, <2>7
  <2>. QED
    BY <2>2, <2>8
<1>3. n \in T
  <2>. HIDE DEF T
  <2>. QED
    BY <1>1, <1>2, InductionUpTo
<1>4. PICK f \in [0..n -> S] : It(f, n)
  BY <1>3
<1>5. f[0] = c /\ \A i \in 1..n : f[i] = step[<<f[i - 1], i>>]
  BY <1>4
<1>. QED
  BY <1>4, <1>5 DEF Iterates
-----------------------------------------------------------------------------
(* Numbers.                                                                *)

\* The last digit of a number, and the others.
LEMMA Division ==
  ASSUME NEW x \in Nat
  PROVE  /\ x \div Base \in Nat /\ x % Base \in Byte
         /\ x = (x % Base) + Base * (x \div Base)
  BY BinaryAssumption DEF Byte

\* What the assumption says of Base and Width, in three facts.
LEMMA Constants == Width \in Nat \ {0} /\ Base \in Nat \ {0, 1} /\ Byte \subseteq Nat
  BY BinaryAssumption DEF Byte

\* Shifted(n) drops one digit after the other.
LEMMA ShiftedDefined ==
  ASSUME NEW n \in Nat
  PROVE  /\ Shifted(n) \in [0..Width -> Nat] /\ Shifted(n)[0] = n
         /\ \A i \in 1..Width : Shifted(n)[i] = Shifted(n)[i - 1] \div Base
<1>. DEFINE step == [a \in Nat \X (1..Width) |-> a[1] \div Base]
<1>0. Width \in Nat \ {0}
  BY Constants
<1>1. step \in [Nat \X (1..Width) -> Nat]
  BY Division
<1>2. \A x \in Nat, i \in 1..Width : step[<<x, i>>] = x \div Base
  OBVIOUS
<1>. HIDE DEF step
<1>3a. PICK f : Iterates(f, Width, Nat, n, step)
  BY <1>0, <1>1, Iteration
<1>3. f \in [0..Width -> Nat] /\ f[0] = n /\ \A i \in 1..Width : f[i] = step[<<f[i - 1], i>>]
  BY <1>3a DEF Iterates
<1>4. ASSUME NEW i \in 1..Width PROVE step[<<f[i - 1], i>>] = f[i - 1] \div Base
  <2>1. i - 1 \in 0..Width
    BY <1>0
  <2>2. f[i - 1] \in Nat
    BY <1>3, <2>1
  <2>. QED
    BY <1>2, <2>2
<1>5. ASSUME NEW i \in 0..Width
      PROVE  f[i] = IF i = 0 THEN n ELSE f[i - 1] \div Base
  <2>1. CASE i # 0
    <3>1. i \in 1..Width
      BY <1>0, <2>1
    <3>. QED
      BY <1>3, <1>4, <2>1, <3>1
  <2>. QED
    BY <1>3, <2>1
<1>6. f = [i \in 0..Width |-> IF i = 0 THEN n ELSE f[i - 1] \div Base]
  BY <1>3, <1>5
<1>. DEFINE q == CHOOSE q : q = [i \in 0..Width |-> IF i = 0 THEN n ELSE q[i - 1] \div Base]
<1>7. q = [i \in 0..Width |-> IF i = 0 THEN n ELSE q[i - 1] \div Base]
  BY <1>6
<1>8. Shifted(n) = q
  BY DEF Shifted
<1>. HIDE DEF q
<1>9. q[0] = n /\ \A i \in 1..Width : q[i] = q[i - 1] \div Base
  BY <1>0, <1>7
<1>. DEFINE T == {k \in Nat : q[k] \in Nat}
<1>10. 0 \in T
  BY <1>9
<1>11. ASSUME NEW k \in 0..(Width - 1), k \in T PROVE k + 1 \in T
  <2>1. k + 1 \in Nat /\ k + 1 \in 1..Width /\ (k + 1) - 1 = k
    BY <1>0
  <2>2. q[k + 1] = q[k] \div Base
    BY <1>9, <2>1
  <2>. QED
    BY <1>11, <2>1, <2>2, Division
<1>. HIDE DEF T
<1>12. \A k \in 0..Width : k \in T
  BY <1>0, <1>10, <1>11, InductionUpTo
<1>13. \A k \in 0..Width : q[k] \in Nat
  BY <1>12 DEF T
<1>. QED
  BY <1>7, <1>8, <1>9, <1>13

\* A number has Width digits, all of them bytes.
LEMMA UintWritten ==
  ASSUME NEW n \in Nat
  PROVE  WriteUint(n) \in Bytes /\ Len(WriteUint(n)) = Width
<1>1. ASSUME NEW i \in 1..Width PROVE Shifted(n)[i - 1] % Base \in Byte
  <2>1. i - 1 \in 0..Width
    BY Constants
  <2>2. Shifted(n)[i - 1] \in Nat
    BY <2>1, ShiftedDefined
  <2>. QED
    BY <2>2, Division
<1>. DEFINE d == WriteUint(n)
<1>2. d = [i \in 1..Width |-> d[i]] /\ \A i \in 1..Width : d[i] \in Byte
  BY <1>1 DEF WriteUint
<1>. HIDE DEF d
<1>3. d \in Seq(Byte) /\ Len(d) = Width
  BY <1>2, Listed, Constants
<1>. QED
  BY <1>3 DEF d, Bytes

\* The value of Width digits, the last first.
LEMMA NumberDefined ==
  ASSUME NEW b, \A i \in 1..Width : b[i] \in Byte
  PROVE  \E v \in [0..Width -> Nat] :
           /\ v[0] = 0 /\ Number(b) = v[Width]
           /\ \A i \in 1..Width : v[i] = b[Width - i + 1] + Base * v[i - 1]
<1>. DEFINE step == [a \in Nat \X (1..Width) |-> b[Width - a[2] + 1] + Base * a[1]]
<1>0. Width \in Nat \ {0} /\ Base \in Nat
  BY Constants
<1>1. ASSUME NEW x \in Nat, NEW i \in 1..Width
      PROVE  b[Width - i + 1] + Base * x \in Nat
  <2>1. Width - i + 1 \in 1..Width
    BY <1>0
  <2>2. b[Width - i + 1] \in Nat
    BY <2>1, Constants
  <2>3. Base * x \in Nat
    BY <1>0
  <2>. QED
    BY <2>2, <2>3
<1>2. step \in [Nat \X (1..Width) -> Nat]
  BY <1>1
<1>3. \A x \in Nat, i \in 1..Width : step[<<x, i>>] = b[Width - i + 1] + Base * x
  OBVIOUS
<1>. HIDE DEF step
<1>4a. PICK f : Iterates(f, Width, Nat, 0, step)
  BY <1>0, <1>2, Iteration
<1>4. f \in [0..Width -> Nat] /\ f[0] = 0 /\ \A i \in 1..Width : f[i] = step[<<f[i - 1], i>>]
  BY <1>4a DEF Iterates
<1>5. ASSUME NEW i \in 0..Width
      PROVE  f[i] = IF i = 0 THEN 0 ELSE b[Width - i + 1] + Base * f[i - 1]
  <2>1. CASE i # 0
    <3>1. i \in 1..Width /\ i - 1 \in 0..Width
      BY <1>0, <2>1
    <3>2. f[i - 1] \in Nat
      BY <1>4, <3>1
    <3>. QED
      BY <1>3, <1>4, <2>1, <3>1, <3>2
  <2>. QED
    BY <1>4, <2>1
<1>6. f = [i \in 0..Width |-> IF i = 0 THEN 0 ELSE b[Width - i + 1] + Base * f[i - 1]]
  BY <1>4, <1>5
<1>. DEFINE v == CHOOSE v : v = [i \in 0..Width |->
                   IF i = 0 THEN 0 ELSE b[Width - i + 1] + Base * v[i - 1]]
<1>7. v = [i \in 0..Width |-> IF i = 0 THEN 0 ELSE b[Width - i + 1] + Base * v[i - 1]]
  BY <1>6
<1>8. Number(b) = v[Width]
  BY DEF Number
<1>. HIDE DEF v
<1>9. v[0] = 0 /\ \A i \in 1..Width : v[i] = b[Width - i + 1] + Base * v[i - 1]
  BY <1>0, <1>7
<1>. DEFINE T == {k \in Nat : v[k] \in Nat}
<1>10. 0 \in T
  BY <1>9
<1>11. ASSUME NEW k \in 0..(Width - 1), k \in T PROVE k + 1 \in T
  <2>1. k + 1 \in Nat /\ k + 1 \in 1..Width /\ (k + 1) - 1 = k
    BY <1>0
  <2>2. v[k + 1] = b[Width - (k + 1) + 1] + Base * v[k]
    BY <1>9, <2>1
  <2>3. v[k] \in Nat
    BY <1>11
  <2>. QED
    BY <1>1, <2>1, <2>2, <2>3
<1>. HIDE DEF T
<1>12. \A k \in 0..Width : k \in T
  BY <1>0, <1>10, <1>11, InductionUpTo
<1>13. v \in [0..Width -> Nat]
  BY <1>7, <1>12 DEF T
<1>. QED
  BY <1>8, <1>9, <1>13

\* A number is read as it was written, whatever comes after it, but PHP has its sign.
LEMMA UintRead ==
  ASSUME NEW n, Fits(n), NEW r \in Bytes, NEW strict \in BOOLEAN
  PROVE  ParseUint(WriteUint(n) \o r, strict) = Parsed(Value(n, strict), r)
<1>. DEFINE d == WriteUint(n)
            b == d \o r
            q == Shifted(n)
<1>0. n \in Nat /\ Width \in Nat \ {0} /\ q[Width] = 0
  BY Constants DEF Fits
<1>1. d \in Seq(Byte) /\ Len(d) = Width /\ r \in Seq(Byte)
  BY <1>0, UintWritten DEF Bytes
<1>2. \A i \in 1..Width : d[i] = q[i - 1] % Base
  BY DEF WriteUint
<1>3. /\ q \in [0..Width -> Nat] /\ q[0] = n
      /\ \A i \in 1..Width : q[i] = q[i - 1] \div Base
  BY <1>0, ShiftedDefined
<1>. HIDE DEF d, q
<1>4. /\ b \in Seq(Byte) /\ Len(b) = Width + Len(r) /\ Len(r) \in Nat
      /\ \A i \in 1..Width + Len(r) : b[i] = IF i <= Width THEN d[i] ELSE r[i - Width]
  BY <1>1, ConcatProperties, LenProperties
<1>. HIDE DEF b
<1>5. \A i \in 1..Width : b[i] = d[i] /\ b[i] \in Byte
  <2>1. \A i \in 1..Width : i \in 1..Width + Len(r) /\ i <= Width
    BY <1>0, <1>4
  <2>2. \A i \in 1..Width : d[i] \in Byte
    BY <1>1, ElementOfSeq
  <2>. QED
    BY <1>4, <2>1, <2>2
<1>6. PICK v \in [0..Width -> Nat] :
        /\ v[0] = 0 /\ Number(b) = v[Width]
        /\ \A i \in 1..Width : v[i] = b[Width - i + 1] + Base * v[i - 1]
  BY <1>5, NumberDefined
<1>. DEFINE T == {k \in Nat : v[k] = q[Width - k]}
<1>7. 0 \in T
  BY <1>0, <1>6
<1>8. ASSUME NEW k \in 0..(Width - 1), k \in T PROVE k + 1 \in T
  <2>. DEFINE j == Width - k
  <2>1. /\ j \in 1..Width /\ j - 1 \in 0..Width /\ k + 1 \in 1..Width /\ (k + 1) - 1 = k
        /\ Width - (k + 1) + 1 = j /\ Width - (k + 1) = j - 1 /\ k + 1 \in Nat
    BY <1>0
  <2>2. v[k + 1] = b[j] + Base * v[k]
    BY <1>6, <2>1
  <2>3. b[j] = q[j - 1] % Base
    BY <1>2, <1>5, <2>1
  <2>4. v[k] = q[j - 1] \div Base /\ q[j - 1] \in Nat
    BY <1>3, <1>8, <2>1
  <2>. HIDE DEF j
  <2>5. v[k + 1] = q[j - 1]
    BY <2>2, <2>3, <2>4, Division
  <2>. QED
    BY <2>1, <2>5
<1>. HIDE DEF T
<1>9. \A k \in 0..Width : k \in T
  BY <1>0, <1>7, <1>8, InductionUpTo
<1>10. Number(b) = n
  <2>1. Width \in 0..Width /\ Width - Width = 0
    BY <1>0
  <2>. QED
    BY <1>3, <1>6, <1>9, <2>1 DEF T
<1>11. Drop(b, Width) = r
  <2>. DEFINE t == SubSeq(b, Width + 1, Len(b))
  <2>1. \A i \in Width + 1..Len(b) : b[i] \in Byte
    <3>1. \A i \in Width + 1..Len(b) : i \in 1..Len(b)
      BY <1>0, <1>4
    <3>. QED
      BY <1>4, <3>1, ElementOfSeq
  <2>2. Width + 1 \in Int /\ Len(b) \in Int /\ Len(b) - (Width + 1) + 1 = Len(r)
        /\ (Width + 1 > Len(b) => Len(r) = 0)
    BY <1>0, <1>4
  <2>3. t \in Seq(Byte) /\ Len(t) = Len(r) /\ \A i \in 1..Len(r) : t[i] = b[Width + 1 + i - 1]
    BY <1>4, <2>1, <2>2, SubSeqProperties
  <2>. HIDE DEF t
  <2>4. ASSUME NEW i \in 1..Len(r) PROVE t[i] = r[i]
    <3>1. /\ Width + 1 + i - 1 = Width + i /\ (Width + i) - Width = i /\ ~(Width + i <= Width)
          /\ Width + i \in 1..Width + Len(r)
      BY <1>0, <1>4
    <3>. QED
      BY <1>4, <2>3, <3>1
  <2>5. t = r
    BY <1>1, <2>3, <2>4, SeqEqual
  <2>. QED
    BY <2>5 DEF t, Drop
<1>. QED
  <2>1. ~(Len(b) < Width)
    BY <1>0, <1>4
  <2>. QED
    BY <1>10, <1>11, <2>1 DEF ParseUint, b, d
-----------------------------------------------------------------------------
(* FlattenSeq.                                                             *)

\* f[i] is the first i members of s one after the other.
Joins(f, s, S) ==
  /\ f \in [0..Len(s) -> Seq(S)] /\ f[0] = <<>> /\ FlattenSeq(s) = f[Len(s)]
  /\ \A i \in 1..Len(s) : f[i] = f[i - 1] \o s[i]

\* The recursive function of FlattenSeq is there.
LEMMA FlattenDefined ==
  ASSUME NEW S, NEW s \in Seq(Seq(S))
  PROVE  \E f : Joins(f, s, S)
<1>. DEFINE n == Len(s)
            step == [a \in Seq(S) \X (1..n) |-> a[1] \o s[a[2]]]
<1>1. n \in Nat /\ \A i \in 1..n : s[i] \in Seq(S)
  BY LenProperties, ElementOfSeq
<1>2. step \in [Seq(S) \X (1..n) -> Seq(S)]
  BY <1>1, ConcatProperties
<1>3. \A x \in Seq(S), i \in 1..n : step[<<x, i>>] = x \o s[i]
  OBVIOUS
<1>4. <<>> \in Seq(S)
  OBVIOUS
<1>. HIDE DEF step, n
<1>5. PICK f : Iterates(f, n, Seq(S), <<>>, step)
  BY <1>1, <1>2, <1>4, Iteration
<1>6. f \in [0..n -> Seq(S)] /\ f[0] = <<>>
  BY <1>5 DEF Iterates
<1>7. \A i \in 1..n : f[i] = f[i - 1] \o s[i]
  <2>1. ASSUME NEW i \in 1..n PROVE f[i] = f[i - 1] \o s[i]
    <3>1. i - 1 \in 0..n
      BY <1>1
    <3>2. f[i - 1] \in Seq(S) /\ f[i] = step[<<f[i - 1], i>>]
      BY <1>5, <1>6, <3>1 DEF Iterates
    <3>. QED
      BY <1>3, <3>2
  <2>. QED
    BY <2>1
<1>8. FlattenSeq(s) = f[n]
  <2>1. CASE n = 0
    <3>1. s = <<>>
      BY <2>1, EmptySeq DEF n
    <3>. QED
      BY <1>6, <2>1, <3>1 DEF FlattenSeq, n
  <2>2. CASE n # 0
    <3>. DEFINE Flat(q) == q = [i \in 1..n |-> IF i = 1 THEN s[i] ELSE q[i - 1] \o s[i]]
                g == [i \in 1..n |-> f[i]]
    <3>1. ASSUME NEW i \in 1..n PROVE g[i] = IF i = 1 THEN s[i] ELSE g[i - 1] \o s[i]
      <4>1. CASE i = 1
        <5>1. f[i] = f[i - 1] \o s[i]
          BY <1>7
        <5>2. i - 1 = 0
          BY <4>1
        <5>3. s[i] \in Seq(S)
          BY <1>1
        <5>. QED
          BY <1>6, <4>1, <5>1, <5>2, <5>3, ConcatEmptySeq
      <4>2. CASE i # 1
        <5>1. i - 1 \in 1..n
          BY <1>1, <4>2
        <5>. QED
          BY <1>7, <4>2, <5>1
      <4>. QED
        BY <4>1, <4>2
    <3>2. Flat(g)
      BY <3>1
    <3>. DEFINE q == CHOOSE q : Flat(q)
    <3>3. Flat(q)
      <4>. HIDE DEF g
      <4>. QED
        BY <3>2
    <3>4. FlattenSeq(s) = q[n]
      BY <2>2 DEF FlattenSeq, n
    <3>. HIDE DEF q
    <3>5. \A i \in 1..n : q[i] = IF i = 1 THEN s[i] ELSE q[i - 1] \o s[i]
      BY <3>3
    <3>. DEFINE T == {k \in Nat : q[k + 1] = f[k + 1]}
    <3>6. 0 \in T
      <4>1. 1 \in 1..n /\ 1 - 1 = 0 /\ 0 + 1 = 1
        BY <1>1, <2>2
      <4>2. f[1] = <<>> \o s[1] /\ s[1] \in Seq(S)
        BY <1>1, <1>6, <1>7, <4>1
      <4>3. q[1] = s[1]
        BY <3>5, <4>1
      <4>. QED
        BY <4>1, <4>2, <4>3, ConcatEmptySeq
    <3>7. ASSUME NEW k \in 0..(n - 1 - 1), k \in T PROVE k + 1 \in T
      <4>0. n \in Nat
        BY <1>1
      <4>1. k + 1 \in Nat /\ k + 1 + 1 \in 1..n /\ k + 1 + 1 # 1 /\ (k + 1 + 1) - 1 = k + 1
        BY <4>0
      <4>2. f[k + 1 + 1] = f[k + 1] \o s[k + 1 + 1] /\ q[k + 1 + 1] = q[k + 1] \o s[k + 1 + 1]
        BY <1>7, <3>5, <4>1
      <4>. QED
        BY <3>7, <4>1, <4>2
    <3>8. n - 1 \in Nat
      BY <1>1, <2>2
    <3>. HIDE DEF T
    <3>. DEFINE m == n - 1
    <3>9. \A k \in 0..m : k \in T
      <4>1. m \in Nat /\ \A k \in 0..(m - 1) : k \in T => k + 1 \in T
        BY <3>7, <3>8
      <4>. HIDE DEF m
      <4>. QED
        BY <3>6, <4>1, InductionUpTo
    <3>10. n - 1 \in 0..(n - 1) /\ (n - 1) + 1 = n
      <4>1. n \in Nat
        BY <1>1
      <4>. QED
        BY <3>8, <4>1
    <3>. QED
      BY <3>4, <3>9, <3>10 DEF T
  <2>. QED
    BY <2>1, <2>2
<1>. QED
  BY <1>6, <1>7, <1>8 DEF Joins, n

\* What is appended comes last, and what is put in front comes first.
LEMMA FlattenAppend ==
  ASSUME NEW S, NEW s \in Seq(Seq(S)), NEW x \in Seq(S)
  PROVE  /\ FlattenSeq(s) \in Seq(S)
         /\ FlattenSeq(Append(s, x)) = FlattenSeq(s) \o x
<1>. DEFINE t == Append(s, x)
            n == Len(s)
<1>1. /\ n \in Nat /\ t \in Seq(Seq(S)) /\ Len(t) = n + 1
      /\ t[n + 1] = x /\ \A i \in 1..n : t[i] = s[i]
  BY AppendProperties, LenProperties
<1>. HIDE DEF t, n
<1>2. PICK f : Joins(f, s, S)
  BY FlattenDefined
<1>3. PICK g : Joins(g, t, S)
  BY <1>1, FlattenDefined
<1>4. /\ f \in [0..n -> Seq(S)] /\ f[0] = <<>> /\ FlattenSeq(s) = f[n]
      /\ \A i \in 1..n : f[i] = f[i - 1] \o s[i]
  BY <1>2 DEF Joins, n
<1>5. /\ g[0] = <<>> /\ FlattenSeq(t) = g[n + 1]
      /\ \A i \in 1..(n + 1) : g[i] = g[i - 1] \o t[i]
  BY <1>1, <1>3 DEF Joins
<1>. DEFINE T == {k \in Nat : f[k] = g[k]}
<1>6. 0 \in T
  BY <1>4, <1>5
<1>7. ASSUME NEW k \in 0..(n - 1), k \in T PROVE k + 1 \in T
  <2>1. k + 1 \in Nat /\ k + 1 \in 1..n /\ k + 1 \in 1..(n + 1) /\ (k + 1) - 1 = k
    BY <1>1
  <2>2. f[k + 1] = f[k] \o s[k + 1] /\ g[k + 1] = g[k] \o s[k + 1]
    BY <1>1, <1>4, <1>5, <2>1
  <2>. QED
    BY <1>7, <2>1, <2>2
<1>. HIDE DEF T
<1>8. \A k \in 0..n : k \in T
  BY <1>1, <1>6, <1>7, InductionUpTo
<1>9. n \in 0..n /\ n + 1 \in 1..(n + 1) /\ (n + 1) - 1 = n
  BY <1>1
<1>10. f[n] = g[n]
  BY <1>8, <1>9 DEF T
<1>11. g[n + 1] = g[n] \o x
  BY <1>1, <1>5, <1>9
<1>. QED
  BY <1>4, <1>5, <1>9, <1>10, <1>11 DEF t

\* No sequences at all make the empty one.
LEMMA FlattenNothing == FlattenSeq(<<>>) = <<>>
  BY DEF FlattenSeq

\* What is put in front comes first.
LEMMA FlattenCons ==
  ASSUME NEW S, NEW x \in Seq(S), NEW s \in Seq(Seq(S))
  PROVE  FlattenSeq(<<x>> \o s) = x \o FlattenSeq(s)
<1>. DEFINE P(t) == FlattenSeq(<<x>> \o t) = x \o FlattenSeq(t)
            T == {n \in Nat : \A t \in Seq(Seq(S)) : Len(t) = n => P(t)}
<1>1. 0 \in T
  <2>1. ASSUME NEW t \in Seq(Seq(S)), Len(t) = 0 PROVE P(t)
    <3>1. t = <<>>
      BY <2>1, EmptySeq
    <3>2. <<x>> \o t = Append(<<>>, x) /\ <<>> \in Seq(Seq(S)) /\ <<>> \in Seq(S)
      BY <3>1
    <3>3. FlattenSeq(<<x>> \o t) = FlattenSeq(<<>>) \o x
      BY <3>2, FlattenAppend
    <3>. QED
      BY <3>1, <3>2, <3>3, FlattenNothing, ConcatEmptySeq
  <2>. QED
    BY <2>1
<1>2. ASSUME NEW n \in T PROVE n + 1 \in T
  <2>1. ASSUME NEW t \in Seq(Seq(S)), Len(t) = n + 1 PROVE P(t)
    <3>0. t # <<>>
      BY <2>1, EmptySeq
    <3>1. PICK u \in Seq(Seq(S)), e \in Seq(S) : t = Append(u, e)
      BY <3>0, SequenceEmptyOrAppend
    <3>2. Len(u) = n
      BY <2>1, <3>1, AppendProperties, LenProperties
    <3>3. FlattenSeq(<<x>> \o u) = x \o FlattenSeq(u)
      BY <1>2, <3>2
    <3>4. <<x>> \in Seq(Seq(S)) /\ <<x>> \o u \in Seq(Seq(S)) /\ FlattenSeq(u) \in Seq(S)
      BY ConcatProperties, FlattenAppend
    <3>5. <<x>> \o t = Append(<<x>> \o u, e)
      <4>1. t = u \o <<e>> /\ <<e>> \in Seq(Seq(S))
        BY <3>1, AppendIsConcat
      <4>2. Append(<<x>> \o u, e) = (<<x>> \o u) \o <<e>>
        BY <3>4, AppendIsConcat
      <4>3. (<<x>> \o u) \o <<e>> = <<x>> \o (u \o <<e>>)
        <5>1. Assoc(<<x>>, u, <<e>>)
          BY <3>4, <4>1, Associative
        <5>. QED
          BY <5>1 DEF Assoc
      <4>. QED
        BY <4>1, <4>2, <4>3, Zenon
    <3>. DEFINE w == <<x>> \o u
    <3>6. FlattenSeq(<<x>> \o t) = (x \o FlattenSeq(u)) \o e
      <4>1. w \in Seq(Seq(S)) /\ FlattenSeq(w) = x \o FlattenSeq(u) /\ <<x>> \o t = Append(w, e)
        BY <3>3, <3>4, <3>5
      <4>. HIDE DEF w
      <4>2. FlattenSeq(Append(w, e)) = FlattenSeq(w) \o e
        BY <4>1, FlattenAppend
      <4>. QED
        BY <4>1, <4>2
    <3>7. FlattenSeq(t) = FlattenSeq(u) \o e
      BY <3>1, FlattenAppend
    <3>8. (x \o FlattenSeq(u)) \o e = x \o (FlattenSeq(u) \o e)
      <4>1. Assoc(x, FlattenSeq(u), e)
        BY <3>4, Associative
      <4>. QED
        BY <4>1 DEF Assoc
    <3>. QED
      BY <3>6, <3>7, <3>8, Zenon
  <2>2. n + 1 \in Nat
    OBVIOUS
  <2>. QED
    BY <2>1, <2>2
<1>3. T \subseteq Nat
  OBVIOUS
<1>. HIDE DEF T
<1>4. T = Nat
  BY <1>1, <1>2, <1>3, Induction
<1>5. Len(s) \in T
  BY <1>4, LenProperties
<1>. QED
  BY <1>5 DEF T

\* The first k members of s.
LEMMA FlattenFirst ==
  ASSUME NEW S, NEW s \in Seq(Seq(S)), NEW k \in 0..(Len(s) - 1)
  PROVE  /\ SubSeq(s, 1, k) \in Seq(Seq(S)) /\ s[k + 1] \in Seq(S)
         /\ SubSeq(s, 1, k + 1) = Append(SubSeq(s, 1, k), s[k + 1])
         /\ FlattenSeq(SubSeq(s, 1, k + 1)) = FlattenSeq(SubSeq(s, 1, k)) \o s[k + 1]
<1>1. Len(s) \in Nat /\ k + 1 \in 1..Len(s) /\ 1 \in 1..Len(s) /\ k + 1 \in 1..(k + 1)
      /\ k + 1 \in 1..Len(s) /\ (k + 1) - 1 = k
  BY LenProperties
<1>2. s[k + 1] \in Seq(S) /\ \A i \in 1..k : s[i] \in Seq(S)
  BY <1>1, ElementOfSeq
<1>3. SubSeq(s, 1, k) \in Seq(Seq(S))
  BY <1>2, SubSeqProperties
<1>4. SubSeq(s, 1, k + 1) = SubSeq(s, 1, (k + 1) - 1) \o <<s[k + 1]>>
  BY <1>1, SubSeqRecursiveSecond
<1>5. SubSeq(s, 1, k + 1) = Append(SubSeq(s, 1, k), s[k + 1])
  BY <1>1, <1>2, <1>3, <1>4, AppendIsConcat
<1>. QED
  BY <1>2, <1>3, <1>5, FlattenAppend
-----------------------------------------------------------------------------
(* Parsers one after the other.                                            *)

\* What i parsers make of b, given what i - 1 of them do.
Step(f, parsers, b, i) ==
  IF i = 0 THEN Parsed(<<>>, b) ELSE Then(f[i - 1], parsers[i])

\* The recursive function of Steps is there, whatever the parsers are.
LEMMA StepsDefined ==
  ASSUME NEW parsers, Len(parsers) \in Nat, NEW b
  PROVE  /\ Steps(parsers, b)[0] = Parsed(<<>>, b)
         /\ \A i \in 1..Len(parsers) :
              Steps(parsers, b)[i] = Then(Steps(parsers, b)[i - 1], parsers[i])
<1>. DEFINE N == Len(parsers)
            Is(f, n) == f = [i \in 0..n |-> Step(f, parsers, b, i)]
            T == {n \in Nat : \E f : Is(f, n)}
<1>1. 0 \in T
  <2>. DEFINE f == [i \in 0..0 |-> Parsed(<<>>, b)]
  <2>1. \A i \in 0..0 : Step(f, parsers, b, i) = Parsed(<<>>, b)
    BY DEF Step
  <2>2. Is(f, 0)
    BY <2>1
  <2>. HIDE DEF f
  <2>. QED
    BY <2>2
<1>2. ASSUME NEW n \in T PROVE n + 1 \in T
  <2>1. n \in Nat /\ n + 1 \in Nat
    OBVIOUS
  <2>2. PICK f : Is(f, n)
    OBVIOUS
  <2>. DEFINE g == [i \in 0..(n + 1) |-> IF i <= n THEN f[i] ELSE Then(f[n], parsers[n + 1])]
  <2>3. \A i \in 0..n : f[i] = Step(f, parsers, b, i)
    BY <2>2
  <2>4. \A i \in 0..n : g[i] = f[i]
    BY <2>1
  <2>5. g[n + 1] = Then(f[n], parsers[n + 1])
    BY <2>1
  <2>6. g = [i \in 0..(n + 1) |-> g[i]]
    OBVIOUS
  <2>. HIDE DEF g
  <2>7. ASSUME NEW i \in 0..(n + 1) PROVE g[i] = Step(g, parsers, b, i)
    <3>1. CASE i = 0
      <4>1. g[0] = f[0] /\ f[0] = Step(f, parsers, b, 0)
        BY <2>1, <2>3, <2>4
      <4>. QED
        BY <3>1, <4>1 DEF Step
    <3>2. CASE i \in 1..n
      <4>1. i \in 0..n /\ i - 1 \in 0..n /\ i # 0
        BY <2>1, <3>2
      <4>2. g[i] = Step(f, parsers, b, i) /\ g[i - 1] = f[i - 1]
        BY <2>3, <2>4, <4>1
      <4>. QED
        BY <4>1, <4>2 DEF Step
    <3>3. CASE i = n + 1
      <4>1. n \in 0..n /\ (n + 1) - 1 = n /\ n + 1 # 0
        BY <2>1
      <4>. QED
        BY <2>4, <2>5, <3>3, <4>1 DEF Step
    <3>. QED
      BY <2>1, <3>1, <3>2, <3>3
  <2>8. Is(g, n + 1)
    BY <2>6, <2>7
  <2>9. \E h : Is(h, n + 1)
    BY <2>8
  <2>. QED
    BY <2>1, <2>9
<1>3. T \subseteq Nat
  OBVIOUS
<1>4. N \in T
  <2>. HIDE DEF T
  <2>. QED
    BY <1>1, <1>2, <1>3, Induction
<1>. DEFINE s == CHOOSE f : Is(f, N)
<1>5. Is(s, N)
  <2>1. \E f : Is(f, N)
    BY <1>4
  <2>. QED
    BY <2>1
<1>6. Steps(parsers, b) = s
  BY DEF Steps, Step
<1>. HIDE DEF s
<1>7. \A i \in 0..N : s[i] = Step(s, parsers, b, i)
  BY <1>5
<1>. QED
  BY <1>6, <1>7 DEF Step

\* The first n values, and one more.
LEMMA OneMore ==
  ASSUME NEW n \in Nat, NEW v
  PROVE  Append([i \in 1..n |-> v[i]], v[n + 1]) = [i \in 1..(n + 1) |-> v[i]]
<1>. DEFINE S == {v[i] : i \in 1..(n + 1)}
            s == [i \in 1..n |-> v[i]]
            t == [i \in 1..(n + 1) |-> v[i]]
<1>1. n + 1 \in Nat /\ n + 1 \in 1..(n + 1) /\ \A i \in 1..n : i \in 1..(n + 1)
  OBVIOUS
<1>2. s = [i \in 1..n |-> s[i]] /\ \A i \in 1..n : s[i] = v[i] /\ s[i] \in S
  BY <1>1
<1>3. t = [i \in 1..(n + 1) |-> t[i]] /\ \A i \in 1..(n + 1) : t[i] = v[i] /\ t[i] \in S
  BY <1>1
<1>4. v[n + 1] \in S
  BY <1>1
<1>. HIDE DEF s, t, S
<1>5. s \in Seq(S) /\ Len(s) = n
  BY <1>2, Listed
<1>6. t \in Seq(S) /\ Len(t) = n + 1
  BY <1>1, <1>3, Listed
<1>. DEFINE u == Append(s, v[n + 1])
<1>7. u \in Seq(S) /\ Len(u) = n + 1 /\ u[n + 1] = v[n + 1] /\ \A i \in 1..n : u[i] = s[i]
  BY <1>4, <1>5, AppendProperties
<1>. HIDE DEF u
<1>8. \A i \in 1..(n + 1) : u[i] = t[i]
  <2>1. ASSUME NEW i \in 1..(n + 1) PROVE u[i] = t[i]
    <3>1. i \in 1..n \/ i = n + 1
      OBVIOUS
    <3>. QED
      BY <1>2, <1>3, <1>7, <3>1
  <2>. QED
    BY <2>1
<1>9. u = t
  BY <1>6, <1>7, <1>8, SeqEqual
<1>. QED
  BY <1>9 DEF u, s, t
-----------------------------------------------------------------------------
(* Parsers that read what was written.                                      *)

\* The parser p reads v where e is, whatever comes after it; ...
Reads(p, e, v) == \A r \in Bytes : p[e \o r] = Parsed(v, r)

\* ... and where e is cut it fails, or, among the last t bytes, takes all there is.
Whole(x, m, e, t) == x = Fail \/ (m >= Len(e) - t /\ \E v : x = Parsed(v, <<>>))
Cut(p, e, t) == \A m \in 0..(Len(e) - 1) : Whole(p[SubSeq(e, 1, m)], m, e, t)

Codes(p, e, v, t) ==
  /\ e \in Bytes /\ t \in Nat /\ t < Len(e) /\ Reads(p, e, v) /\ Cut(p, e, t)

\* n parsers, and what each of them reads.
AllCode(n, ps, es, vs, ts) ==
  /\ n \in Nat /\ Len(ps) = n /\ es \in Seq(Seq(Byte)) /\ Len(es) = n
  /\ \A i \in 1..n : Codes(ps[i], es[i], vs[i], ts[i])

\* A parser fails, or has a value and a rest.
LEMMA Outcome ==
  /\ Fail.ok = FALSE
  /\ \A v, r : Parsed(v, r).ok = TRUE /\ Parsed(v, r).val = v /\ Parsed(v, r).rest = r
  BY DEF Fail, Parsed

\* A parser that runs after another one.
LEMMA AfterParsed ==
  ASSUME NEW w, NEW x, NEW q
  PROVE  /\ \A v, r : q[x] = Parsed(v, r) => Then(Parsed(w, x), q) = Parsed(Append(w, v), r)
         /\ q[x] = Fail => Then(Parsed(w, x), q) = Fail
         /\ Then(Fail, q) = Fail
<1>. DEFINE y == q[x]
<1>1. Then(Parsed(w, x), q) = IF y.ok THEN Parsed(Append(w, y.val), y.rest) ELSE Fail
  BY Outcome DEF Then
<1>. HIDE DEF y
<1>2. \A v, r : y = Parsed(v, r) => Then(Parsed(w, x), q) = Parsed(Append(w, v), r)
  BY <1>1, Outcome
<1>3. y = Fail => Then(Parsed(w, x), q) = Fail
  BY <1>1, Outcome
<1>4. Then(Fail, q) = Fail
  BY Outcome DEF Then
<1>. QED
  BY <1>2, <1>3, <1>4 DEF y

\* The first k parsers read the first k values.
LEMMA ChainSteps ==
  ASSUME NEW n, NEW ps, NEW es, NEW vs, NEW ts, AllCode(n, ps, es, vs, ts),
         NEW k \in 0..n, NEW r \in Bytes
  PROVE  /\ FlattenSeq(SubSeq(es, 1, k)) \in Bytes
         /\ Steps(ps, FlattenSeq(SubSeq(es, 1, k)) \o r)[k] = Parsed([i \in 1..k |-> vs[i]], r)
<1>. DEFINE First(j) == FlattenSeq(SubSeq(es, 1, j))
            P(j) == /\ First(j) \in Bytes
                    /\ \A u \in Bytes : Steps(ps, First(j) \o u)[j] = Parsed([i \in 1..j |-> vs[i]], u)
            T == {j \in Nat : P(j)}
<1>1. n \in Nat /\ Len(ps) = n /\ es \in Seq(Seq(Byte)) /\ Len(es) = n
  BY DEF AllCode
<1>2. \A i \in 1..n : es[i] \in Bytes /\ \A u \in Bytes : ps[i][es[i] \o u] = Parsed(vs[i], u)
  BY DEF AllCode, Codes, Reads
<1>3. 0 \in T
  <2>1. First(0) = <<>>
    <3>1. SubSeq(es, 1, 0) = <<>>
      BY SubSeqEmpty
    <3>. QED
      BY <3>1, FlattenNothing
  <2>2. [i \in 1..0 |-> vs[i]] = <<>>
    OBVIOUS
  <2>3. \A u \in Bytes : <<>> \o u = u
    BY ConcatEmptySeq DEF Bytes
  <2>4. \A u \in Bytes : Steps(ps, u)[0] = Parsed(<<>>, u)
    BY <1>1, StepsDefined
  <2>5. <<>> \in Bytes
    BY DEF Bytes
  <2>. HIDE DEF First
  <2>. QED
    BY <2>1, <2>2, <2>3, <2>4, <2>5
<1>4. ASSUME NEW j \in 0..(n - 1), j \in T PROVE j + 1 \in T
  <2>1. j \in Nat /\ j + 1 \in Nat /\ j + 1 \in 1..n /\ (j + 1) - 1 = j
    BY <1>1
  <2>. DEFINE e == es[j + 1]
  <2>2. e \in Bytes
    BY <1>2, <2>1
  <2>3. First(j + 1) = First(j) \o e /\ First(j) \in Bytes
    BY <1>1, <1>4, FlattenFirst
  <2>. HIDE DEF First, e
  <2>4. ASSUME NEW u \in Bytes
        PROVE  Steps(ps, First(j + 1) \o u)[j + 1] = Parsed([i \in 1..(j + 1) |-> vs[i]], u)
    <3>1. First(j + 1) \o u = First(j) \o (e \o u) /\ e \o u \in Bytes
      <4>1. First(j) \in Seq(Byte) /\ e \in Seq(Byte) /\ u \in Seq(Byte)
        BY <2>2, <2>3 DEF Bytes
      <4>2. (First(j) \o e) \o u = First(j) \o (e \o u)
        <5>1. Assoc(First(j), e, u)
          BY <4>1, Associative
        <5>. QED
          BY <5>1 DEF Assoc
      <4>3. e \o u \in Bytes
        BY <4>1, ConcatProperties DEF Bytes
      <4>. QED
        BY <2>3, <4>2, <4>3
    <3>. DEFINE b == First(j + 1) \o u
                w == [i \in 1..j |-> vs[i]]
    <3>2. Steps(ps, b)[j] = Parsed(w, e \o u)
      BY <1>4, <3>1
    <3>3. Steps(ps, b)[j + 1] = Then(Steps(ps, b)[j], ps[j + 1])
      <4>. HIDE DEF b
      <4>1. /\ Len(ps) \in Nat /\ j + 1 \in 1..Len(ps)
            /\ \A i \in 1..Len(ps) : Steps(ps, b)[i] = Then(Steps(ps, b)[i - 1], ps[i])
        BY <1>1, <2>1, StepsDefined
      <4>. QED
        BY ONLY <2>1, <4>1
    <3>4. ps[j + 1][e \o u] = Parsed(vs[j + 1], u)
      BY <1>2, <2>1 DEF e
    <3>5. Append(w, vs[j + 1]) = [i \in 1..(j + 1) |-> vs[i]]
      BY <2>1, OneMore
    <3>. HIDE DEF b, w
    <3>6. Then(Parsed(w, e \o u), ps[j + 1]) = Parsed(Append(w, vs[j + 1]), u)
      BY <3>4, AfterParsed
    <3>7. Steps(ps, b)[j + 1] = Parsed([i \in 1..(j + 1) |-> vs[i]], u)
      BY <3>2, <3>3, <3>5, <3>6
    <3>. QED
      BY <3>7 DEF b
  <2>5. First(j + 1) \in Bytes
    BY <2>2, <2>3, ConcatProperties DEF Bytes
  <2>. QED
    BY <2>1, <2>4, <2>5
<1>5. k \in T
  <2>. HIDE DEF T
  <2>. QED
    BY <1>1, <1>3, <1>4, InductionUpTo
<1>. QED
  BY <1>5

\* One after the other they read one value after the other.
LEMMA ChainReads ==
  ASSUME NEW n, NEW ps, NEW es, NEW vs, NEW ts, AllCode(n, ps, es, vs, ts), NEW r \in Bytes
  PROVE  /\ FlattenSeq(es) \in Bytes
         /\ Chain(ps, FlattenSeq(es) \o r) = Parsed([i \in 1..n |-> vs[i]], r)
<1>1. n \in Nat /\ Len(ps) = n /\ es \in Seq(Seq(Byte)) /\ Len(es) = n /\ n \in 0..n
  BY DEF AllCode
<1>2. SubSeq(es, 1, n) = es
  BY <1>1, SubSeqFull
<1>3. /\ FlattenSeq(SubSeq(es, 1, n)) \in Bytes
      /\ Steps(ps, FlattenSeq(SubSeq(es, 1, n)) \o r)[n] = Parsed([i \in 1..n |-> vs[i]], r)
  BY <1>1, ChainSteps
<1>. QED
  BY <1>1, <1>2, <1>3 DEF Chain

\* The first m members of s \o t.
LEMMA PrefixOfConcat ==
  ASSUME NEW S, NEW s \in Seq(S), NEW t \in Seq(S), NEW m \in 0..(Len(s) + Len(t))
  PROVE  /\ SubSeq(s \o t, 1, m) \in Seq(S) /\ Len(SubSeq(s \o t, 1, m)) = m
         /\ m <= Len(s) => SubSeq(s \o t, 1, m) = SubSeq(s, 1, m)
         /\ m >= Len(s) => SubSeq(s \o t, 1, m) = s \o SubSeq(t, 1, m - Len(s))
<1>. DEFINE u == s \o t
<1>1. /\ Len(s) \in Nat /\ Len(t) \in Nat /\ m \in Nat
      /\ u \in Seq(S) /\ Len(u) = Len(s) + Len(t)
      /\ \A i \in 1..(Len(s) + Len(t)) : u[i] = IF i <= Len(s) THEN s[i] ELSE t[i - Len(s)]
  BY LenProperties, ConcatProperties
<1>. HIDE DEF u
<1>. DEFINE p == SubSeq(u, 1, m)
<1>2. p \in Seq(S) /\ Len(p) = m /\ \A i \in 1..m : p[i] = u[i]
  <2>1. \A i \in 1..m : u[i] \in S
    <3>1. \A i \in 1..m : i \in 1..Len(u)
      BY <1>1
    <3>. QED
      BY <1>1, <3>1, ElementOfSeq
  <2>2. /\ p \in Seq(S) /\ Len(p) = IF 1 <= m THEN m - 1 + 1 ELSE 0
        /\ \A i \in 1..(m - 1 + 1) : p[i] = u[1 + i - 1]
    BY <1>1, <2>1, SubSeqProperties
  <2>. HIDE DEF p
  <2>3. \A i \in 1..m : i \in 1..(m - 1 + 1) /\ 1 + i - 1 = i
    BY <1>1
  <2>4. (IF 1 <= m THEN m - 1 + 1 ELSE 0) = m
    BY <1>1
  <2>. QED
    BY <2>2, <2>3, <2>4
<1>3. ASSUME m <= Len(s) PROVE p = SubSeq(s, 1, m)
  <2>. DEFINE q == SubSeq(s, 1, m)
  <2>1. \A i \in 1..m : s[i] \in S /\ i <= Len(s) /\ i \in 1..(Len(s) + Len(t))
    <3>1. \A i \in 1..m : i \in 1..Len(s) /\ i <= Len(s) /\ i \in 1..(Len(s) + Len(t))
      BY <1>1, <1>3
    <3>. QED
      BY <3>1, ElementOfSeq
  <2>2. /\ q \in Seq(S) /\ Len(q) = IF 1 <= m THEN m - 1 + 1 ELSE 0
        /\ \A i \in 1..(m - 1 + 1) : q[i] = s[1 + i - 1]
    BY <1>1, <2>1, SubSeqProperties
  <2>. HIDE DEF p, q
  <2>3. \A i \in 1..m : i \in 1..(m - 1 + 1) /\ 1 + i - 1 = i
    BY <1>1
  <2>4. (IF 1 <= m THEN m - 1 + 1 ELSE 0) = m
    BY <1>1
  <2>5. \A i \in 1..m : p[i] = q[i]
    BY <1>1, <1>2, <2>1, <2>2, <2>3
  <2>6. p = q
    BY <1>2, <2>2, <2>4, <2>5, SeqEqual
  <2>. QED
    BY <2>6 DEF q
<1>4. ASSUME m >= Len(s) PROVE p = s \o SubSeq(t, 1, m - Len(s))
  <2>. DEFINE l == m - Len(s)
              c == SubSeq(t, 1, l)
              q == s \o c
  <2>0. l \in Nat /\ l <= Len(t) /\ Len(s) + l = m
    BY <1>1, <1>4
  <2>. HIDE DEF l
  <2>1. \A i \in 1..l : t[i] \in S
    <3>1. \A i \in 1..l : i \in 1..Len(t)
      BY <1>1, <2>0
    <3>. QED
      BY <3>1, ElementOfSeq
  <2>2. /\ c \in Seq(S) /\ Len(c) = IF 1 <= l THEN l - 1 + 1 ELSE 0
        /\ \A i \in 1..(l - 1 + 1) : c[i] = t[1 + i - 1]
    BY <2>0, <2>1, SubSeqProperties
  <2>. HIDE DEF c
  <2>3. \A i \in 1..l : i \in 1..(l - 1 + 1) /\ 1 + i - 1 = i
    BY <2>0
  <2>4. Len(c) = l /\ \A i \in 1..l : c[i] = t[i]
    <3>1. (IF 1 <= l THEN l - 1 + 1 ELSE 0) = l
      BY <2>0
    <3>. QED
      BY <2>2, <2>3, <3>1
  <2>5. q \in Seq(S) /\ Len(q) = m /\ \A i \in 1..m : q[i] = IF i <= Len(s) THEN s[i] ELSE c[i - Len(s)]
    <3>1. /\ q \in Seq(S) /\ Len(q) = Len(s) + Len(c)
          /\ \A i \in 1..(Len(s) + Len(c)) : q[i] = IF i <= Len(s) THEN s[i] ELSE c[i - Len(s)]
      BY <2>2, ConcatProperties
    <3>. HIDE DEF q
    <3>2. Len(s) + Len(c) = m
      BY <2>0, <2>4
    <3>. QED
      BY <3>1, <3>2
  <2>. HIDE DEF q, p
  <2>6. ASSUME NEW i \in 1..m PROVE p[i] = q[i]
    <3>0. i \in 1..(Len(s) + Len(t))
      BY <1>1
    <3>1. CASE i <= Len(s)
      BY <1>1, <1>2, <2>5, <3>0, <3>1
    <3>2. CASE ~(i <= Len(s))
      <4>1. i - Len(s) \in 1..l
        BY <1>1, <2>0, <3>2
      <4>. QED
        BY <1>1, <1>2, <2>4, <2>5, <3>0, <3>2, <4>1
    <3>. QED
      BY <3>1, <3>2
  <2>7. p = q
    BY <1>2, <2>5, <2>6, SeqEqual
  <2>. QED
    BY <2>7 DEF q, c, l
<1>. QED
  BY <1>2, <1>3, <1>4 DEF u

\* The same, where it ends in t.
LEMMA PrefixOfAll ==
  \A S : \A s, t \in Seq(S) : \A m \in 0..(Len(s) + Len(t)) :
    m >= Len(s) => SubSeq(s \o t, 1, m) = s \o SubSeq(t, 1, m - Len(s))
  BY PrefixOfConcat

\* Cut in the middle: the parsers before read, the one at the cut is cut, and
\* those after it find nothing.
LEMMA ChainCut ==
  ASSUME NEW n, NEW ps, NEW es, NEW vs, NEW ts, AllCode(n, ps, es, vs, ts),
         NEW m \in 0..(Len(FlattenSeq(es)) - 1)
  PROVE  n > 0 /\ Whole(Chain(ps, SubSeq(FlattenSeq(es), 1, m)), m, FlattenSeq(es), ts[n])
<1>. DEFINE First(j) == FlattenSeq(SubSeq(es, 1, j))
            L(j) == Len(First(j))
            E == FlattenSeq(es)
            b == SubSeq(E, 1, m)
<1>1. n \in Nat /\ Len(ps) = n /\ es \in Seq(Seq(Byte)) /\ Len(es) = n
  BY DEF AllCode
<1>2. \A i \in 1..n : es[i] \in Seq(Byte) /\ Codes(ps[i], es[i], vs[i], ts[i])
  BY DEF AllCode, Codes, Bytes
<1>3. E = First(n)
  <2>1. SubSeq(es, 1, n) = es
    BY <1>1, SubSeqFull
  <2>. QED
    BY <2>1
<1>4. First(0) = <<>>
  <2>1. SubSeq(es, 1, 0) = <<>>
    BY SubSeqEmpty
  <2>. QED
    BY <2>1, FlattenNothing
<1>5. \A j \in 0..(n - 1) : First(j + 1) = First(j) \o es[j + 1]
  BY <1>1, FlattenFirst
<1>6. <<>> \in Bytes
  BY DEF Bytes
<1>7. \A j \in 0..n : /\ First(j) \in Seq(Byte) /\ L(j) \in Nat
                      /\ \A r \in Bytes : Steps(ps, First(j) \o r)[j] = Parsed([i \in 1..j |-> vs[i]], r)
  <2>1. \A j \in 0..n : /\ First(j) \in Bytes
                        /\ \A r \in Bytes : Steps(ps, First(j) \o r)[j] = Parsed([i \in 1..j |-> vs[i]], r)
    <3>1. ASSUME NEW j \in 0..n
          PROVE  /\ First(j) \in Bytes
                 /\ \A r \in Bytes : Steps(ps, First(j) \o r)[j] = Parsed([i \in 1..j |-> vs[i]], r)
      <4>1. First(j) \in Bytes
        BY <1>6, ChainSteps
      <4>2. ASSUME NEW r \in Bytes
            PROVE  Steps(ps, First(j) \o r)[j] = Parsed([i \in 1..j |-> vs[i]], r)
        BY ChainSteps
      <4>. QED
        BY <4>1, <4>2
    <3>. HIDE DEF First
    <3>. QED
      BY <3>1
  <2>2. \A j \in 0..n : First(j) \in Seq(Byte)
    BY <2>1 DEF Bytes
  <2>3. \A j \in 0..n : L(j) \in Nat
    <3>. HIDE DEF First
    <3>. QED
      BY <2>2, LenProperties
  <2>. QED
    BY <2>1, <2>2, <2>3
<1>8. m \in Nat /\ m < L(n)
  <2>1. n \in 0..n
    BY <1>1
  <2>2. Len(E) \in Nat
    BY <1>3, <1>7, <2>1
  <2>. HIDE DEF E
  <2>3. m \in Nat /\ m < Len(E)
    BY <2>2 DEF E
  <2>. QED
    BY <1>3, <2>3
<1>. HIDE DEF First, E
<1>9. PICK k \in 0..(n - 1) : L(k) <= m /\ m < L(k + 1)
  <2>1. SUFFICES ASSUME \A k \in 0..(n - 1) : ~(L(k) <= m /\ m < L(k + 1))
                 PROVE  FALSE
    OBVIOUS
  <2>. DEFINE T == {j \in Nat : L(j) <= m}
  <2>2. 0 \in T
    BY <1>4, <1>8, EmptySeq
  <2>3. ASSUME NEW j \in 0..(n - 1), j \in T PROVE j + 1 \in T
    <3>1. j + 1 \in Nat /\ j \in 0..n /\ j + 1 \in 0..n
      BY <1>1
    <3>2. L(j) \in Nat /\ L(j + 1) \in Nat
      BY <1>7, <3>1
    <3>. HIDE DEF L
    <3>3. L(j + 1) <= m
      BY <1>8, <2>1, <2>3, <3>2
    <3>. QED
      BY <3>1, <3>3
  <2>. HIDE DEF T
  <2>4. \A j \in 0..n : j \in T
    BY <1>1, <2>2, <2>3, InductionUpTo
  <2>5. n \in T
    BY <1>1, <2>4
  <2>6. L(n) \in Nat /\ L(n) <= m
    <3>1. n \in 0..n
      BY <1>1
    <3>. QED
      BY <1>7, <2>5, <3>1 DEF T
  <2>. QED
    BY <1>8, <2>6
<1>10. k \in Nat /\ k + 1 \in 1..n /\ k \in 0..n /\ k + 1 \in 0..n /\ (k + 1) - 1 = k /\ n > 0
  BY <1>1
<1>. DEFINE e == es[k + 1]
            l == m - L(k)
            c == SubSeq(e, 1, l)
<1>11. /\ e \in Seq(Byte) /\ Codes(ps[k + 1], e, vs[k + 1], ts[k + 1])
       /\ First(k + 1) = First(k) \o e /\ First(k) \in Seq(Byte) /\ L(k) \in Nat
       /\ Len(e) \in Nat /\ L(k + 1) = L(k) + Len(e)
  <2>1. e \in Seq(Byte) /\ Codes(ps[k + 1], e, vs[k + 1], ts[k + 1])
    BY <1>2, <1>10
  <2>2. First(k + 1) = First(k) \o e /\ First(k) \in Seq(Byte) /\ L(k) \in Nat
    BY <1>5, <1>7, <1>10
  <2>. QED
    BY <2>1, <2>2, ConcatProperties, LenProperties
<1>. HIDE DEF e
<1>12. l \in 0..(Len(e) - 1) /\ L(k) + l = m
  <2>. HIDE DEF L
  <2>. QED
    BY <1>8, <1>9, <1>11
<1>. DEFINE F == First(k)
            G == First(k + 1)
<1>13. SubSeq(G, 1, m) = F \o c
  <2>1. m \in 0..(Len(F) + Len(e)) /\ m >= Len(F) /\ m - Len(F) = l /\ F \in Seq(Byte) /\ G = F \o e
    BY <1>8, <1>9, <1>11, <1>12
  <2>. HIDE DEF F, l, G
  <2>2. SubSeq(F \o e, 1, m) = F \o SubSeq(e, 1, m - Len(F))
    <3>1. e \in Seq(Byte)
      BY <1>11
    <3>. DEFINE u == SubSeq(F \o e, 1, m)
    <3>2. m >= Len(F) => u = F \o SubSeq(e, 1, m - Len(F))
      BY ONLY <2>1, <3>1, PrefixOfAll
    <3>. QED
      BY <2>1, <3>2
  <2>. QED
    BY <2>1, <2>2
<1>14. ASSUME NEW j \in 0..n, j >= k + 1 PROVE SubSeq(First(j), 1, m) = SubSeq(First(k + 1), 1, m) /\ m <= L(j)
  <2>. DEFINE T == {i \in Nat : i >= k + 1 => SubSeq(First(i), 1, m) = SubSeq(First(k + 1), 1, m) /\ m <= L(i)}
  <2>1. 0 \in T
    BY <1>10
  <2>2. ASSUME NEW i \in 0..(n - 1), i \in T PROVE i + 1 \in T
    <3>1. i \in Nat /\ i + 1 \in Nat /\ i + 1 \in 1..n /\ i \in 0..n
      BY <1>1
    <3>2. CASE i >= k + 1
      <4>. DEFINE f == First(i)
                  x == es[i + 1]
      <4>1. /\ f \in Seq(Byte) /\ Len(f) \in Nat /\ First(i + 1) = f \o x /\ x \in Seq(Byte) /\ Len(x) \in Nat
            /\ m <= Len(f) /\ SubSeq(f, 1, m) = SubSeq(First(k + 1), 1, m)
        <5>1. f \in Seq(Byte) /\ Len(f) \in Nat /\ First(i + 1) = f \o x /\ x \in Seq(Byte)
          BY <1>2, <1>5, <1>7, <3>1
        <5>2. Len(x) \in Nat
          BY <5>1, LenProperties
        <5>. QED
          BY <2>2, <3>2, <5>1, <5>2
      <4>. HIDE DEF f, x
      <4>2. m \in 0..(Len(f) + Len(x))
        BY <1>8, <4>1
      <4>3. SubSeq(f \o x, 1, m) = SubSeq(f, 1, m)
        BY <4>1, <4>2, PrefixOfConcat
      <4>4. m <= L(i + 1)
        <5>1. Len(f \o x) = Len(f) + Len(x)
          BY <4>1, ConcatProperties
        <5>. QED
          BY <1>8, <4>1, <5>1
      <4>. QED
        BY <3>1, <4>1, <4>3, <4>4
    <3>3. CASE i + 1 = k + 1
      <4>1. L(k + 1) \in Nat
        BY <1>7, <1>10
      <4>2. m <= L(k + 1)
        <5>. HIDE DEF L
        <5>. QED
          BY <1>8, <1>9, <4>1
      <4>. QED
        BY <3>1, <3>3, <4>2
    <3>4. CASE ~(i + 1 >= k + 1)
      BY <3>1, <3>4
    <3>. QED
      BY <1>10, <3>1, <3>2, <3>3, <3>4
  <2>3. j \in T
    <3>. HIDE DEF T
    <3>. QED
      BY <1>1, <2>1, <2>2, InductionUpTo
  <2>. QED
    BY <1>14, <2>3
<1>15. b = F \o c
  <2>1. n \in 0..n /\ n >= k + 1
    BY <1>1, <1>10
  <2>. QED
    BY <1>3, <1>13, <1>14, <2>1
<1>16. c \in Bytes
  <2>1. \A i \in 1..l : i \in 1..Len(e)
    BY <1>11, <1>12
  <2>2. \A i \in 1..l : e[i] \in Byte
    BY <1>11, <2>1, ElementOfSeq
  <2>3. l \in Int
    BY <1>12
  <2>. HIDE DEF l
  <2>. QED
    BY <2>2, <2>3, SubSeqProperties DEF Bytes
<1>. HIDE DEF b, c, l
<1>. DEFINE St == Steps(ps, b)
            w == [i \in 1..k |-> vs[i]]
<1>17. St[k] = Parsed(w, c)
  BY <1>7, <1>10, <1>15, <1>16
<1>18. \A i \in 1..n : St[i] = Then(St[i - 1], ps[i])
  BY <1>1, StepsDefined
<1>. HIDE DEF St, w
<1>. DEFINE Q(j) == St[j] = Fail \/ (j = k + 1 /\ l >= Len(e) - ts[k + 1] /\ \E v : St[j] = Parsed(v, <<>>))
<1>19. Q(k + 1)
  <2>1. Whole(ps[k + 1][c], l, e, ts[k + 1])
    BY <1>11, <1>12 DEF Codes, Cut, c
  <2>2. St[k + 1] = Then(Parsed(w, c), ps[k + 1])
    BY <1>10, <1>17, <1>18
  <2>3. CASE ps[k + 1][c] = Fail
    BY <2>2, <2>3, AfterParsed
  <2>4. CASE ps[k + 1][c] # Fail
    <3>1. l >= Len(e) - ts[k + 1] /\ \E v : ps[k + 1][c] = Parsed(v, <<>>)
      BY <2>1, <2>4 DEF Whole
    <3>2. PICK v : ps[k + 1][c] = Parsed(v, <<>>)
      BY <3>1
    <3>3. St[k + 1] = Parsed(Append(w, v), <<>>)
      BY <2>2, <3>2, AfterParsed
    <3>. QED
      BY <3>1, <3>3
  <2>. QED
    BY <2>3, <2>4
<1>20. Q(n)
  <2>. DEFINE T == {i \in Nat : i >= k + 1 => Q(i)}
  <2>1. 0 \in T
    BY <1>10
  <2>2. ASSUME NEW i \in 0..(n - 1), i \in T PROVE i + 1 \in T
    <3>1. i \in Nat /\ i + 1 \in Nat /\ i + 1 \in 1..n /\ (i + 1) - 1 = i
      BY <1>1
    <3>2. CASE i >= k + 1
      <4>1. St[i + 1] = Then(St[i], ps[i + 1])
        BY <1>18, <3>1
      <4>2. Q(i)
        BY <2>2, <3>2
      <4>3. CASE St[i] = Fail
        BY <3>1, <4>1, <4>3, AfterParsed
      <4>4. CASE \E v : St[i] = Parsed(v, <<>>)
        <5>1. PICK v : St[i] = Parsed(v, <<>>)
          BY <4>4
        <5>. DEFINE x == es[i + 1]
                    p == ps[i + 1]
                    t == ts[i + 1]
        <5>2. x \in Seq(Byte) /\ Codes(p, x, vs[i + 1], t)
          BY <1>2, <3>1
        <5>3. Len(x) \in Nat
          BY <5>2, LenProperties
        <5>. HIDE DEF x, p, t
        <5>4. t \in Nat /\ t < Len(x)
          BY <5>2 DEF Codes
        <5>5. 0 \in 0..(Len(x) - 1) /\ ~(0 >= Len(x) - t)
          BY <5>3, <5>4
        <5>6. SubSeq(x, 1, 0) = <<>>
          BY SubSeqEmpty
        <5>7. p[<<>>] = Fail
          BY <5>2, <5>5, <5>6 DEF Codes, Cut, Whole
        <5>8. St[i + 1] = Fail
          BY <4>1, <5>1, <5>7, AfterParsed DEF p
        <5>. QED
          BY <3>1, <5>8
      <4>. QED
        BY <4>2, <4>3, <4>4
    <3>3. CASE i + 1 = k + 1
      BY <1>19, <3>1, <3>3
    <3>4. CASE ~(i + 1 >= k + 1)
      BY <3>1, <3>4
    <3>. QED
      BY <1>10, <3>1, <3>2, <3>3, <3>4
  <2>3. n \in T
    <3>1. \A i \in 0..n : i \in T
      <4>. HIDE DEF T
      <4>. QED
        BY <1>1, <2>1, <2>2, InductionUpTo
    <3>. QED
      BY <1>1, <3>1
  <2>. QED
    BY <1>1, <1>10, <2>3
<1>21. Whole(St[n], m, E, ts[n])
  <2>1. CASE St[n] = Fail
    BY <2>1 DEF Whole
  <2>2. CASE St[n] # Fail
    <3>1. n = k + 1 /\ l >= Len(e) - ts[k + 1] /\ \E v : St[n] = Parsed(v, <<>>)
      BY <1>20, <2>2
    <3>2. Len(E) = L(k) + Len(e) /\ ts[k + 1] \in Nat
      BY <1>3, <1>11, <3>1 DEF Codes
    <3>3. m >= Len(E) - ts[n]
      <4>1. l >= Len(e) - ts[n] /\ ts[n] \in Nat /\ l \in Nat /\ L(k) + l = m /\ L(k) \in Nat /\ Len(e) \in Nat
        BY <1>11, <1>12, <3>1, <3>2
      <4>. HIDE DEF L, l
      <4>. QED
        BY ONLY <3>2, <4>1
    <3>. QED
      BY <3>1, <3>3 DEF Whole
  <2>. QED
    BY <2>1, <2>2
<1>. QED
  BY <1>1, <1>10, <1>21 DEF Chain, St, b, E
-----------------------------------------------------------------------------
(* What each kind of field is read from.                                   *)

\* A sequence that two were put together to, and the two.
LEMMA SplitConcat ==
  ASSUME NEW S, NEW s \in Seq(S), NEW t \in Seq(S)
  PROVE  SubSeq(s \o t, 1, Len(s)) = s /\ Drop(s \o t, Len(s)) = t
<1>. DEFINE u == s \o t
            q == SubSeq(u, Len(s) + 1, Len(u))
<1>1. Len(s) \in Nat /\ Len(t) \in Nat
  BY LenProperties
<1>2. SubSeq(u, 1, Len(s)) = s
  <2>1. Len(s) \in 0..(Len(s) + Len(t)) /\ Len(s) <= Len(s)
    BY <1>1
  <2>2. SubSeq(s, 1, Len(s)) = s
    BY SubSeqFull
  <2>. QED
    BY <2>1, <2>2, PrefixOfConcat
<1>3. /\ u \in Seq(S) /\ Len(u) = Len(s) + Len(t)
      /\ \A i \in 1..(Len(s) + Len(t)) : u[i] = IF i <= Len(s) THEN s[i] ELSE t[i - Len(s)]
  BY ConcatProperties
<1>. HIDE DEF u
<1>4. \A i \in (Len(s) + 1)..Len(u) : u[i] \in S
  <2>1. \A i \in (Len(s) + 1)..Len(u) : i \in 1..Len(u)
    BY <1>1, <1>3
  <2>. QED
    BY <1>3, <2>1, ElementOfSeq
<1>5. /\ Len(s) + 1 \in Int /\ Len(u) \in Int /\ Len(u) - (Len(s) + 1) + 1 = Len(t)
      /\ (Len(s) + 1 > Len(u) => Len(t) = 0)
  BY <1>1, <1>3
<1>6. q \in Seq(S) /\ Len(q) = Len(t) /\ \A i \in 1..Len(t) : q[i] = u[Len(s) + 1 + i - 1]
  BY <1>1, <1>4, <1>5, SubSeqProperties
<1>. HIDE DEF q
<1>7. ASSUME NEW i \in 1..Len(t) PROVE q[i] = t[i]
  <2>1. /\ Len(s) + 1 + i - 1 = Len(s) + i /\ (Len(s) + i) - Len(s) = i
        /\ ~(Len(s) + i <= Len(s)) /\ Len(s) + i \in 1..(Len(s) + Len(t))
    BY <1>1
  <2>. QED
    BY <1>3, <1>6, <2>1
<1>8. q = t
  BY <1>6, <1>7, SeqEqual
<1>. QED
  BY <1>2, <1>8 DEF q, u, Drop

\* b is m bytes of the number n, and x after it: what ParseUint makes of them.
UintIn(b, n, x, m, strict) ==
  /\ b \in Bytes
  /\ m < Width => ParseUint(b, strict) = Fail
  /\ m >= Width => /\ ParseUint(b, strict) = Parsed(Value(n, strict), SubSeq(x, 1, m - Width))
                   /\ SubSeq(x, 1, m - Width) \in Bytes
                   /\ Len(SubSeq(x, 1, m - Width)) = m - Width

\* A number, and x, cut after m bytes.
LEMMA UintCut ==
  ASSUME NEW n, Fits(n), NEW x \in Bytes, NEW m \in 0..(Width + Len(x)), NEW strict \in BOOLEAN,
         NEW b, b = SubSeq(WriteUint(n) \o x, 1, m)
  PROVE  UintIn(b, n, x, m, strict)
<1>. DEFINE d == WriteUint(n)
            c == SubSeq(x, 1, m - Width)
<1>1. d \in Seq(Byte) /\ Len(d) = Width /\ x \in Seq(Byte) /\ Len(x) \in Nat /\ Width \in Nat /\ m \in Nat
  BY UintWritten, Constants, LenProperties DEF Bytes, Fits
<1>. HIDE DEF d
<1>2. m \in 0..(Len(d) + Len(x))
  BY <1>1
<1>3. b \in Seq(Byte) /\ Len(b) = m
  BY <1>1, <1>2, PrefixOfConcat DEF d
<1>4. ASSUME m < Width PROVE ParseUint(b, strict) = Fail
  BY <1>3, <1>4 DEF ParseUint
<1>5. ASSUME m >= Width
      PROVE  /\ ParseUint(b, strict) = Parsed(Value(n, strict), c)
             /\ c \in Bytes /\ Len(c) = m - Width
  <2>1. b = d \o c
    <3>. DEFINE p == SubSeq(d \o x, 1, m)
    <3>0. d \in Seq(Byte) /\ x \in Seq(Byte)
      BY <1>1
    <3>1. m >= Len(d) => p = d \o SubSeq(x, 1, m - Len(d))
      BY ONLY <1>2, <3>0, PrefixOfConcat
    <3>. QED
      BY <1>1, <1>5, <3>1 DEF d
  <2>2. c \in Seq(Byte) /\ Len(c) = m - Width
    <3>. DEFINE l == m - Width
    <3>1. l \in 0..(Len(x) + Len(<<>>)) /\ l <= Len(x) /\ <<>> \in Seq(Byte) /\ x \o <<>> = x
      <4>1. Len(<<>>) = 0 /\ <<>> \in Seq(Byte) /\ x \o <<>> = x
        BY <1>1, EmptySeq, ConcatEmptySeq
      <4>. QED
        BY <1>1, <1>5, <4>1
    <3>. HIDE DEF l
    <3>2. SubSeq(x \o <<>>, 1, l) \in Seq(Byte) /\ Len(SubSeq(x \o <<>>, 1, l)) = l
      BY <1>1, <3>1, PrefixOfConcat
    <3>. QED
      BY <3>1, <3>2 DEF l
  <2>. HIDE DEF c
  <2>. QED
    BY <2>1, <2>2, UintRead DEF Bytes, d
<1>. QED
  BY <1>3, <1>4, <1>5 DEF Bytes, UintIn

\* Go's parseUint64 reads what its writeUint64 writes (binary.go 253, 257) and PHP's the
\* signed number of it (Serializer.php 201); both fail where it is cut.
LEMMA UintCodes ==
  ASSUME NEW n, Fits(n), NEW strict \in BOOLEAN
  PROVE  Codes(SimpleParser(Uint, strict), WriteUint(n), Value(n, strict), 0)
<1>. DEFINE p == SimpleParser(Uint, strict)
            e == WriteUint(n)
<1>1. \A b \in Bytes : p[b] = ParseUint(b, strict)
  BY DEF SimpleParser, Uint
<1>2. e \in Bytes /\ Len(e) = Width /\ Width \in Nat \ {0}
  BY UintWritten, Constants DEF Fits
<1>. HIDE DEF p
<1>3. ASSUME NEW r \in Bytes PROVE p[e \o r] = Parsed(Value(n, strict), r)
  <2>1. e \o r \in Bytes
    BY <1>2, ConcatProperties DEF Bytes
  <2>. QED
    BY <1>1, <2>1, UintRead
<1>4. ASSUME NEW m \in 0..(Len(e) - 1) PROVE p[SubSeq(e, 1, m)] = Fail
  <2>1. <<>> \in Bytes /\ e \o <<>> = e /\ Len(<<>>) = 0
    BY <1>2, EmptySeq, ConcatEmptySeq DEF Bytes
  <2>2. m \in 0..(Width + Len(<<>>)) /\ m < Width
    BY <1>2, <2>1
  <2>. DEFINE b == SubSeq(WriteUint(n) \o <<>>, 1, m)
  <2>3. b = SubSeq(WriteUint(n) \o <<>>, 1, m)
    OBVIOUS
  <2>. HIDE DEF b
  <2>4. b \in Bytes /\ ParseUint(b, strict) = Fail
    <3>. DEFINE x == <<>>
    <3>1. x \in Bytes /\ m \in 0..(Width + Len(x)) /\ b = SubSeq(WriteUint(n) \o x, 1, m)
      BY <2>1, <2>2, <2>3
    <3>. HIDE DEF x
    <3>2. UintIn(b, n, x, m, strict)
      BY <3>1, UintCut
    <3>. QED
      BY <2>2, <3>2 DEF UintIn
  <2>. QED
    BY <1>1, <2>1, <2>3, <2>4
<1>. HIDE DEF e
<1>. QED
  BY <1>2, <1>3, <1>4 DEF Codes, Reads, Cut, Whole, p, e

\* A string is read as it was written; where it is cut Go's binary.Read fails,
\* but PHP's fread gives what there is of it.
LEMMA StringCodes ==
  ASSUME NEW s \in Bytes, LengthFits(Len(s)), NEW strict \in BOOLEAN
  PROVE  Codes(SimpleParser(Str, strict), WriteString(s), s, IF strict THEN 0 ELSE Len(s))
<1>. DEFINE p == SimpleParser(Str, strict)
            d == WriteUint(Len(s))
            e == d \o s
<1>1. \A b \in Bytes : p[b] = ParseString(b, strict)
  BY DEF SimpleParser, Str
<1>0. Fits(Len(s)) /\ Value(Len(s), strict) = Len(s)
  BY DEF LengthFits, Value
<1>2. d \in Seq(Byte) /\ Len(d) = Width /\ Width \in Nat \ {0} /\ s \in Seq(Byte) /\ Len(s) \in Nat
  BY <1>0, UintWritten, Constants, LenProperties DEF Fits, Bytes
<1>3. e \in Seq(Byte) /\ Len(e) = Width + Len(s)
  BY <1>2, ConcatProperties
<1>. HIDE DEF p
<1>4. ASSUME NEW r \in Bytes PROVE p[e \o r] = Parsed(s, r)
  <2>. DEFINE x == s \o r
  <2>1. r \in Seq(Byte) /\ Len(r) \in Nat
    BY LenProperties DEF Bytes
  <2>2. x \in Seq(Byte) /\ Len(x) = Len(s) + Len(r) /\ SubSeq(x, 1, Len(s)) = s /\ Drop(x, Len(s)) = r
    BY <1>2, <2>1, ConcatProperties, SplitConcat
  <2>3. e \o r = d \o x /\ e \o r \in Bytes
    <3>1. (d \o s) \o r = d \o (s \o r)
      <4>1. Assoc(d, s, r)
        BY <1>2, <2>1, Associative
      <4>. QED
        BY <4>1 DEF Assoc
    <3>2. e \o r \in Seq(Byte)
      BY <1>3, <2>1, ConcatProperties
    <3>. QED
      BY <3>1, <3>2 DEF Bytes
  <2>. HIDE DEF x
  <2>4. ParseUint(d \o x, strict) = Parsed(Len(s), x)
    <3>1. ParseUint(d \o x, strict) = Parsed(Value(Len(s), strict), x)
      BY <1>0, <2>2, UintRead DEF Bytes
    <3>. QED
      BY <1>0, <3>1
  <2>5. ~(Len(s) > Len(x)) /\ ~(Len(s) < 0)
    BY <1>2, <2>1, <2>2
  <2>. DEFINE b == d \o x
              u == ParseUint(b, strict)
  <2>6. ParseString(b, strict) = Parsed(s, r)
    <3>1. u = Parsed(Len(s), x)
      BY <2>4
    <3>. HIDE DEF u, b
    <3>2. u.ok /\ u.val = Len(s) /\ u.rest = x
      BY <3>1, Outcome
    <3>3. ParseString(b, strict) = Parsed(SubSeq(x, 1, Len(s)), Drop(x, Len(s)))
      BY <2>5, <3>2 DEF ParseString, u
    <3>. QED
      BY <2>2, <3>3
  <2>. QED
    BY <1>1, <2>3, <2>6
<1>5. ASSUME NEW m \in 0..(Len(e) - 1)
      PROVE  Whole(p[SubSeq(e, 1, m)], m, e, IF strict THEN 0 ELSE Len(s))
  <2>. DEFINE b == SubSeq(e, 1, m)
              c == SubSeq(s, 1, m - Width)
  <2>1. m \in Nat /\ m \in 0..(Width + Len(s)) /\ m < Width + Len(s)
    BY <1>2, <1>3
  <2>2. /\ b \in Bytes
        /\ m < Width => ParseUint(b, strict) = Fail
        /\ m >= Width => ParseUint(b, strict) = Parsed(Len(s), c) /\ c \in Bytes /\ Len(c) = m - Width
    <3>1. b = SubSeq(WriteUint(Len(s)) \o s, 1, m)
      OBVIOUS
    <3>. HIDE DEF b, c
    <3>2. UintIn(b, Len(s), s, m, strict)
      BY <1>0, <2>1, <3>1, UintCut
    <3>. QED
      BY <1>0, <3>2 DEF c, UintIn
  <2>3. CASE m < Width
    <3>. HIDE DEF b
    <3>1. ParseString(b, strict) = Fail
      BY <2>2, <2>3, Outcome DEF ParseString
    <3>. QED
      BY <1>1, <2>2, <3>1 DEF Whole, b
  <2>4. CASE m >= Width
    <3>1. Len(s) > m - Width /\ m - Width \in Nat /\ ~(Len(s) < 0)
      BY <1>2, <2>1, <2>4
    <3>2. Drop(c, m - Width) = <<>>
      <4>. DEFINE l == m - Width
      <4>1. l + 1 \in Int /\ l \in Int /\ l < l + 1 /\ Len(c) = l
        BY <2>2, <2>4, <3>1
      <4>. HIDE DEF l, c
      <4>2. SubSeq(c, l + 1, l) = <<>>
        BY <4>1, SubSeqEmpty
      <4>. QED
        BY <4>1, <4>2 DEF Drop, l
    <3>. HIDE DEF b, c
    <3>3. ParseUint(b, strict) = Parsed(Len(s), c) /\ Len(c) = m - Width
      BY <2>2, <2>4
    <3>4. CASE strict
      <4>1. ParseString(b, strict) = Fail
        BY <3>1, <3>3, <3>4, Outcome DEF ParseString
      <4>. QED
        BY <1>1, <2>2, <4>1 DEF Whole, b
    <3>5. CASE ~strict
      <4>1. ParseString(b, strict) = Parsed(SubSeq(c, 1, Len(c)), <<>>)
        BY <3>1, <3>2, <3>3, <3>5, Outcome DEF ParseString
      <4>2. p[b] = Parsed(SubSeq(c, 1, Len(c)), <<>>)
        BY <1>1, <2>2, <4>1
      <4>3. m >= Len(e) - Len(s)
        BY <1>2, <1>3, <2>4
      <4>. HIDE DEF e
      <4>. QED
        BY <3>5, <4>2, <4>3 DEF Whole, b
    <3>. QED
      BY <3>4, <3>5
  <2>. QED
    BY <1>2, <2>1, <2>3, <2>4
<1>. DEFINE t == IF strict THEN 0 ELSE Len(s)
<1>6. t \in Nat /\ t < Len(e)
  BY <1>2, <1>3
<1>. HIDE DEF t, e
<1>7. \A m \in 0..(Len(e) - 1) : Whole(p[SubSeq(e, 1, m)], m, e, t)
  BY <1>5 DEF t
<1>8. Codes(p, e, s, t)
  BY <1>3, <1>4, <1>6, <1>7 DEF Codes, Reads, Cut, Bytes
<1>. QED
  BY <1>8 DEF p, e, t, WriteString

\* The kinds of fields there are, and how many bytes at the end may be missed.
Simple == {Uint, Str}
Field == Simple \cup {MapOf(of) : of \in Seq(Simple)}

SimpleSlack(field, val, strict) == IF strict \/ field.kind = "uint" THEN 0 ELSE Len(val)
EntrySlack(of, entry, strict) == SimpleSlack(of[Len(of)], entry[Len(of)], strict)
MapSlack(of, entries, strict) ==
  IF Len(entries) = 0 THEN 0 ELSE EntrySlack(of, entries[Len(entries)], strict)
FieldSlack(field, val, strict) ==
  IF field.kind = "map" THEN MapSlack(field.of, val, strict) ELSE SimpleSlack(field, val, strict)

\* What is read where val was written: PHP has the signs of numbers.
SimpleRead(field, val, strict) == IF field.kind = "uint" THEN Value(val, strict) ELSE val
EntryRead(of, entry, strict) == [i \in DOMAIN of |-> SimpleRead(of[i], entry[i], strict)]
MapRead(of, entries, strict) ==
  [i \in 1..Len(entries) |-> EntryRead(of, entries[i], strict)]
FieldRead(field, val, strict) ==
  IF field.kind = "map" THEN MapRead(field.of, val, strict) ELSE SimpleRead(field, val, strict)
AsRead(fields, vals, strict) == [i \in DOMAIN fields |-> FieldRead(fields[i], vals[i], strict)]

\* A number or a string.
LEMMA SimpleCodes ==
  ASSUME NEW field \in Simple, NEW val, SimpleFits(field, val), NEW strict \in BOOLEAN
  PROVE  Codes(SimpleParser(field, strict), WriteSimple(field, val),
               SimpleRead(field, val, strict), SimpleSlack(field, val, strict))
<1>1. CASE field = Uint
  <2>1. Uint.kind = "uint"
    BY DEF Uint
  <2>2. Fits(val)
    BY <1>1, <2>1 DEF SimpleFits
  <2>3. /\ WriteSimple(field, val) = WriteUint(val) /\ SimpleSlack(field, val, strict) = 0
        /\ SimpleRead(field, val, strict) = Value(val, strict)
    BY <1>1, <2>1 DEF WriteSimple, SimpleSlack, SimpleRead
  <2>. QED
    BY <1>1, <2>2, <2>3, UintCodes
<1>2. CASE field = Str
  <2>1. Str.kind # "uint"
    BY DEF Str
  <2>2. val \in Bytes /\ LengthFits(Len(val))
    BY <1>2, <2>1 DEF SimpleFits
  <2>3. /\ WriteSimple(field, val) = WriteString(val)
        /\ SimpleSlack(field, val, strict) = (IF strict THEN 0 ELSE Len(val))
        /\ SimpleRead(field, val, strict) = val
    BY <1>2, <2>1 DEF WriteSimple, SimpleSlack, SimpleRead
  <2>. QED
    BY <1>2, <2>2, <2>3, StringCodes
<1>. QED
  BY <1>1, <1>2 DEF Simple

\* The length of a sequence given by its elements.
LEMMA ListedLen ==
  ASSUME NEW n \in Nat, NEW f, f = [i \in 1..n |-> f[i]]
  PROVE  Len(f) = n /\ DOMAIN f = 1..n
<1>. DEFINE S == {f[i] : i \in 1..n}
<1>1. \A i \in 1..n : f[i] \in S
  OBVIOUS
<1>. HIDE DEF S
<1>. QED
  BY <1>1, Listed

\* Some parsers, at least one, make a parser.
LEMMA ChainCodes ==
  ASSUME NEW n, NEW ps, NEW es, NEW vs, NEW ts, AllCode(n, ps, es, vs, ts), n # 0,
         NEW p, \A b \in Bytes : p[b] = Chain(ps, b),
         NEW v, v = [i \in 1..n |-> vs[i]]
  PROVE  Codes(p, FlattenSeq(es), v, ts[n])
<1>. DEFINE E == FlattenSeq(es)
<1>1. n \in Nat /\ es \in Seq(Seq(Byte)) /\ Len(es) = n /\ Codes(ps[n], es[n], vs[n], ts[n])
  <2>1. n \in Nat /\ es \in Seq(Seq(Byte)) /\ Len(es) = n
    BY DEF AllCode
  <2>2. n \in 1..n
    BY <2>1
  <2>. QED
    BY <2>1, <2>2 DEF AllCode
<1>2. <<>> \in Bytes
  BY DEF Bytes
<1>3. \A r \in Bytes : E \in Bytes /\ Chain(ps, E \o r) = Parsed(v, r)
  <2>1. ASSUME NEW r \in Bytes PROVE E \in Bytes /\ Chain(ps, E \o r) = Parsed([i \in 1..n |-> vs[i]], r)
    BY ChainReads
  <2>. QED
    BY <2>1
<1>4. E \in Seq(Byte) /\ Len(E) \in Nat /\ E \in Bytes
  BY <1>2, <1>3, LenProperties DEF Bytes
<1>5. ts[n] \in Nat /\ ts[n] < Len(E)
  <2>. DEFINE k == n - 1
              f == FlattenSeq(SubSeq(es, 1, k))
  <2>1. k \in 0..(Len(es) - 1) /\ k + 1 = n
    BY <1>1
  <2>2. SubSeq(es, 1, n) = es
    BY <1>1, SubSeqFull
  <2>. HIDE DEF k
  <2>3. SubSeq(es, 1, k) \in Seq(Seq(Byte)) /\ E = f \o es[n] /\ es[n] \in Seq(Byte)
    <3>1. /\ SubSeq(es, 1, k) \in Seq(Seq(Byte)) /\ es[k + 1] \in Seq(Byte)
          /\ FlattenSeq(SubSeq(es, 1, k + 1)) = f \o es[k + 1]
      BY <1>1, <2>1, FlattenFirst
    <3>. QED
      BY <2>1, <2>2, <3>1
  <2>4. f \in Seq(Byte)
    <3>. DEFINE s == SubSeq(es, 1, k)
    <3>. HIDE DEF s
    <3>1. s \in Seq(Seq(Byte))
      BY <2>3 DEF s
    <3>2. FlattenSeq(s) \in Seq(Byte)
      BY <1>2, <3>1, FlattenAppend DEF Bytes
    <3>. QED
      BY <3>2 DEF s
  <2>. HIDE DEF f
  <2>5. Len(E) = Len(f) + Len(es[n]) /\ Len(f) \in Nat /\ Len(es[n]) \in Nat
    BY <2>3, <2>4, ConcatProperties, LenProperties
  <2>. QED
    BY <1>1, <2>5 DEF Codes
<1>6. ASSUME NEW m \in 0..(Len(E) - 1) PROVE Whole(p[SubSeq(E, 1, m)], m, E, ts[n])
  <2>1. SubSeq(E, 1, m) \in Bytes
    <3>1. E \o <<>> = E /\ m \in 0..(Len(E) + Len(<<>>)) /\ <<>> \in Seq(Byte)
      <4>1. E \o <<>> = E /\ Len(<<>>) = 0 /\ <<>> \in Seq(Byte)
        BY <1>4, ConcatEmptySeq, EmptySeq
      <4>. QED
        BY <1>4, <4>1
    <3>. HIDE DEF E
    <3>2. SubSeq(E \o <<>>, 1, m) \in Seq(Byte)
      BY <1>4, <3>1, PrefixOfConcat
    <3>. QED
      BY <3>1, <3>2 DEF Bytes
  <2>2. Whole(Chain(ps, SubSeq(E, 1, m)), m, E, ts[n])
    BY ChainCut
  <2>. QED
    BY <2>1, <2>2
<1>7. ASSUME NEW r \in Bytes PROVE p[E \o r] = Parsed(v, r)
  <2>1. E \o r \in Bytes
    BY <1>4, ConcatProperties DEF Bytes
  <2>. QED
    BY <1>3, <2>1
<1>. HIDE DEF E
<1>. QED
  BY <1>4, <1>5, <1>6, <1>7 DEF Codes, Reads, Cut, E

\* An entry of a map.
LEMMA EntryCodes ==
  ASSUME NEW of \in Seq(Simple), Len(of) # 0, NEW entry, EntryFits(of, entry), NEW strict \in BOOLEAN
  PROVE  Codes(EntryParser(of, strict), WriteEntry(of, entry), EntryRead(of, entry, strict),
               EntrySlack(of, entry, strict))
<1>. DEFINE n == Len(of)
            ps == [i \in DOMAIN of |-> SimpleParser(of[i], strict)]
            es == [i \in DOMAIN of |-> WriteSimple(of[i], entry[i])]
            ts == [i \in DOMAIN of |-> SimpleSlack(of[i], entry[i], strict)]
            p == EntryParser(of, strict)
            v == EntryRead(of, entry, strict)
<1>1. n \in Nat /\ DOMAIN of = 1..n /\ n \in 1..n /\ \A i \in 1..n : of[i] \in Simple
  BY LenProperties, ElementOfSeq
<1>2. /\ v = [i \in 1..n |-> v[i]] /\ \A i \in 1..n : SimpleFits(of[i], entry[i])
      /\ \A i \in 1..n : v[i] = SimpleRead(of[i], entry[i], strict)
  BY <1>1 DEF EntryFits, EntryRead
<1>. HIDE DEF v
<1>3. \A i \in 1..n : Codes(ps[i], es[i], v[i], ts[i])
  BY <1>1, <1>2, SimpleCodes
<1>4. ps = [i \in 1..n |-> ps[i]] /\ es = [i \in 1..n |-> es[i]]
  BY <1>1
<1>5. \A b \in Bytes : p[b] = Chain(ps, b)
  BY DEF EntryParser
<1>6. WriteEntry(of, entry) = FlattenSeq(es) /\ EntrySlack(of, entry, strict) = ts[n]
  BY <1>1 DEF WriteEntry, EntrySlack
<1>. HIDE DEF n, ps, es, ts, p
<1>7. Len(ps) = n
  BY <1>1, <1>4, ListedLen
<1>8. es \in Seq(Seq(Byte)) /\ Len(es) = n
  <2>1. \A i \in 1..n : es[i] \in Seq(Byte)
    BY <1>3 DEF Codes, Bytes
  <2>. QED
    BY <1>1, <1>4, <2>1, Listed
<1>9. AllCode(n, ps, es, v, ts)
  BY <1>1, <1>3, <1>7, <1>8 DEF AllCode
<1>10. n # 0
  BY DEF n
<1>11. Codes(p, FlattenSeq(es), v, ts[n])
  BY <1>2, <1>5, <1>9, <1>10, ChainCodes
<1>. QED
  BY <1>6, <1>11 DEF p, v

\* A map: the number of its entries, and the entries (binary.go 288, 306).
LEMMA MapCodes ==
  ASSUME NEW of \in Seq(Simple), Len(of) # 0, NEW entries, MapFits(of, entries), NEW strict \in BOOLEAN
  PROVE  Codes(MapParser(of, strict), WriteMap(of, entries), MapRead(of, entries, strict),
               MapSlack(of, entries, strict))
<1>. DEFINE n == Len(entries)
            q == EntryParser(of, strict)
            ps == [i \in 1..n |-> q]
            es == [i \in DOMAIN entries |-> WriteEntry(of, entries[i])]
            ts == [i \in DOMAIN entries |-> EntrySlack(of, entries[i], strict)]
            p == MapParser(of, strict)
            d == WriteUint(n)
            E == FlattenSeq(es)
            e == d \o E
            t == MapSlack(of, entries, strict)
            v == MapRead(of, entries, strict)
<1>1. /\ Fits(n) /\ Value(n, strict) = n
      /\ n \in Nat /\ entries = [i \in 1..n |-> entries[i]] /\ DOMAIN entries = 1..n
  <2>1. Fits(n) /\ n \in Nat /\ entries = [i \in 1..n |-> entries[i]] /\ Signed(n) = n
    BY DEF MapFits, LengthFits, Fits
  <2>. QED
    BY <2>1, ListedLen DEF Value
<1>0. /\ v = [i \in 1..n |-> v[i]]
      /\ \A i \in 1..n : v[i] = EntryRead(of, entries[i], strict)
  BY DEF MapRead
<1>. HIDE DEF v
<1>2. \A i \in 1..n : EntryFits(of, entries[i])
  BY <1>1 DEF MapFits
<1>3. \A i \in 1..n : Codes(ps[i], es[i], v[i], ts[i])
  BY <1>0, <1>1, <1>2, EntryCodes
<1>4. ps = [i \in 1..n |-> ps[i]] /\ es = [i \in 1..n |-> es[i]]
  BY <1>1
<1>5. ASSUME NEW b \in Bytes
      PROVE  /\ ParseUint(b, strict) = Fail => p[b] = Fail
             /\ \A x : ParseUint(b, strict) = Parsed(n, x) => p[b] = Chain(ps, x)
  <2>. DEFINE u == ParseUint(b, strict)
  <2>1. p[b] = IF u.ok THEN Chain([i \in 1..u.val |-> q], u.rest) ELSE Fail
    BY DEF MapParser
  <2>. HIDE DEF u, q, p
  <2>2. u = Fail => p[b] = Fail
    BY <2>1, Outcome
  <2>3. ASSUME NEW x, u = Parsed(n, x) PROVE p[b] = Chain(ps, x)
    <3>1. u.ok /\ u.val = n /\ u.rest = x
      BY <2>3, Outcome
    <3>. QED
      BY <2>1, <3>1
  <2>. QED
    BY <2>2, <2>3 DEF u
<1>6. WriteMap(of, entries) = e /\ t = IF n = 0 THEN 0 ELSE ts[n]
  <2>1. n # 0 => n \in DOMAIN entries
    BY <1>1
  <2>. QED
    BY <2>1 DEF WriteMap, MapSlack
<1>. HIDE DEF n, ps, es, ts, p, q, t
<1>7. Len(ps) = n
  BY <1>1, <1>4, ListedLen
<1>8. es \in Seq(Seq(Byte)) /\ Len(es) = n
  <2>1. \A i \in 1..n : es[i] \in Seq(Byte)
    BY <1>3 DEF Codes, Bytes
  <2>. QED
    BY <1>1, <1>4, <2>1, Listed
<1>9. AllCode(n, ps, es, v, ts)
  BY <1>1, <1>3, <1>7, <1>8 DEF AllCode
<1>10. <<>> \in Bytes
  BY DEF Bytes
<1>11. \A r \in Bytes : E \in Bytes /\ Chain(ps, E \o r) = Parsed(v, r)
  <2>1. ASSUME NEW r \in Bytes
        PROVE  E \in Bytes /\ Chain(ps, E \o r) = Parsed([i \in 1..n |-> v[i]], r)
    BY <1>9, ChainReads
  <2>. QED
    BY <1>0, <2>1
<1>12. /\ d \in Seq(Byte) /\ Len(d) = Width /\ Width \in Nat \ {0}
       /\ E \in Seq(Byte) /\ Len(E) \in Nat
  BY <1>1, <1>10, <1>11, UintWritten, Constants, LenProperties DEF Bytes
<1>13. e \in Seq(Byte) /\ Len(e) = Width + Len(E)
  BY <1>12, ConcatProperties
<1>14. \A m \in 0..(Len(E) - 1) : n > 0 /\ Whole(Chain(ps, SubSeq(E, 1, m)), m, E, ts[n])
  BY <1>9, ChainCut
<1>15. t \in Nat /\ t < Len(e) /\ t <= Len(E)
  <2>1. CASE n = 0
    BY <1>6, <1>12, <1>13, <2>1
  <2>2. CASE n # 0
    <3>. DEFINE pr == [b \in Bytes |-> Chain(ps, b)]
    <3>1. \A b \in Bytes : pr[b] = Chain(ps, b)
      OBVIOUS
    <3>. HIDE DEF pr
    <3>2. Codes(pr, FlattenSeq(es), v, ts[n])
      BY <1>0, <1>1, <1>9, <2>2, <3>1, ChainCodes
    <3>3. ts[n] \in Nat /\ ts[n] < Len(E)
      BY ONLY <3>2 DEF Codes
    <3>. QED
      BY <1>6, <1>12, <1>13, <2>2, <3>3
  <2>. QED
    BY <2>1, <2>2
<1>16. ASSUME NEW r \in Bytes PROVE p[e \o r] = Parsed(v, r)
  <2>1. r \in Seq(Byte) /\ E \o r \in Bytes
    BY <1>12, ConcatProperties DEF Bytes
  <2>2. e \o r = d \o (E \o r)
    <3>1. Assoc(d, E, r)
      BY <1>12, <2>1, Associative
    <3>. QED
      BY <3>1 DEF Assoc
  <2>3. e \o r \in Bytes
    BY <1>13, <2>1, ConcatProperties DEF Bytes
  <2>. DEFINE x == E \o r
              b == e \o r
  <2>4. x \in Bytes /\ b = d \o x /\ b \in Bytes /\ Chain(ps, x) = Parsed(v, r)
    BY <1>11, <2>1, <2>2, <2>3
  <2>. HIDE DEF x, b, E
  <2>5. ParseUint(b, strict) = Parsed(n, x)
    <3>1. ParseUint(b, strict) = Parsed(Value(n, strict), x)
      BY <1>1, <2>4, UintRead
    <3>. QED
      BY <1>1, <3>1
  <2>. QED
    BY <1>5, <2>4, <2>5 DEF b
<1>17. ASSUME NEW m \in 0..(Len(e) - 1) PROVE Whole(p[SubSeq(e, 1, m)], m, e, t)
  <2>. DEFINE b == SubSeq(d \o E, 1, m)
              l == m - Width
              c == SubSeq(E, 1, l)
  <2>1. m \in Nat /\ m \in 0..(Width + Len(E)) /\ m < Width + Len(E)
    BY <1>12, <1>13
  <2>2. /\ b \in Bytes
        /\ m < Width => ParseUint(b, strict) = Fail
        /\ m >= Width => ParseUint(b, strict) = Parsed(n, c)
    <3>1. b = SubSeq(WriteUint(n) \o E, 1, m) /\ E \in Bytes
      BY <1>12 DEF Bytes
    <3>. HIDE DEF b, c, l, E
    <3>2. UintIn(b, n, E, m, strict)
      BY <1>1, <2>1, <3>1, UintCut
    <3>. QED
      BY <1>1, <3>2 DEF c, l, UintIn
  <2>3. CASE m < Width
    <3>1. p[b] = Fail
      <4>. HIDE DEF b
      <4>. QED
        BY <1>5, <2>2, <2>3
    <3>. QED
      BY <3>1 DEF Whole
  <2>4. CASE m >= Width
    <3>1. l \in 0..(Len(E) - 1) /\ m = Width + l
      BY <1>12, <2>1, <2>4
    <3>. HIDE DEF l
    <3>2. n > 0 /\ Whole(Chain(ps, c), l, E, ts[n])
      BY <1>14, <3>1
    <3>3. p[b] = Chain(ps, c)
      <4>. HIDE DEF b, c
      <4>. QED
        BY <1>5, <2>2, <2>4
    <3>4. t = ts[n]
      BY <1>1, <1>6, <3>2
    <3>. HIDE DEF b, c
    <3>5. l >= Len(E) - t => m >= Len(e) - t
      BY <1>12, <1>13, <1>15, <3>1
    <3>. HIDE DEF e, E
    <3>6. Whole(p[b], m, e, t)
      BY <3>2, <3>3, <3>4, <3>5 DEF Whole
    <3>. QED
      BY <3>6 DEF b, e
  <2>. QED
    BY <1>12, <2>1, <2>3, <2>4
<1>. HIDE DEF e
<1>18. Codes(p, e, v, t)
  BY <1>13, <1>15, <1>16, <1>17 DEF Codes, Reads, Cut, Bytes
<1>. QED
  BY <1>6, <1>18 DEF p, t, v
-----------------------------------------------------------------------------
(* Messages.                                                               *)

\* A field of any kind.
LEMMA FieldCodes ==
  ASSUME NEW field \in Field, NEW val, FieldFits(field, val), NEW strict \in BOOLEAN
  PROVE  Codes(FieldParser(field, strict), WriteField(field, val),
               FieldRead(field, val, strict), FieldSlack(field, val, strict))
<1>1. CASE field \in Simple
  <2>1. field.kind # "map"
    BY <1>1 DEF Simple, Uint, Str
  <2>2. SimpleFits(field, val)
    BY <2>1 DEF FieldFits
  <2>3. /\ FieldParser(field, strict) = SimpleParser(field, strict)
        /\ WriteField(field, val) = WriteSimple(field, val)
        /\ FieldSlack(field, val, strict) = SimpleSlack(field, val, strict)
        /\ FieldRead(field, val, strict) = SimpleRead(field, val, strict)
    BY <2>1 DEF FieldParser, WriteField, FieldSlack, FieldRead
  <2>. QED
    BY <1>1, <2>2, <2>3, SimpleCodes
<1>2. CASE field \notin Simple
  <2>1. PICK of \in Seq(Simple) : field = MapOf(of)
    BY <1>2 DEF Field
  <2>. DEFINE fs == <<Str>> \o of
  <2>2. field.kind = "map" /\ field.of = fs
    BY <2>1 DEF MapOf
  <2>3. fs \in Seq(Simple) /\ Len(fs) # 0
    <3>1. <<Str>> \in Seq(Simple) /\ Len(<<Str>>) = 1
      BY DEF Simple
    <3>2. fs \in Seq(Simple) /\ Len(fs) = 1 + Len(of) /\ Len(of) \in Nat
      BY <3>1, ConcatProperties, LenProperties
    <3>. HIDE DEF fs
    <3>. QED
      BY <3>2
  <2>. HIDE DEF fs
  <2>4. MapFits(fs, val)
    BY <2>2 DEF FieldFits
  <2>5. /\ FieldParser(field, strict) = MapParser(fs, strict)
        /\ WriteField(field, val) = WriteMap(fs, val)
        /\ FieldSlack(field, val, strict) = MapSlack(fs, val, strict)
        /\ FieldRead(field, val, strict) = MapRead(fs, val, strict)
    BY <2>2 DEF FieldParser, WriteField, FieldSlack, FieldRead
  <2>. QED
    BY <2>3, <2>4, <2>5, MapCodes
<1>. QED
  BY <1>1, <1>2

\* A message is read as it was written; a part of it from the front is not, but
\* for PHP's reads, which take the string at the end as far as it goes.
LEMMA MessageCodes ==
  ASSUME NEW fields \in Seq(Field), Len(fields) # 0, NEW vals, MessageFits(fields, vals),
         NEW strict \in BOOLEAN
  PROVE  LET e == Write(fields, vals)
             last == Len(fields)
         IN /\ e \in Bytes /\ Len(e) \in Nat \ {0}
            /\ Parse(fields, e, strict) = Parsed(AsRead(fields, vals, strict), <<>>)
            /\ \A m \in 0..(Len(e) - 1) :
                 \/ ~Parse(fields, SubSeq(e, 1, m), strict).ok
                 \/ m >= Len(e) - FieldSlack(fields[last], vals[last], strict)
<1>. DEFINE n == Len(fields)
            ps == [i \in DOMAIN fields |-> FieldParser(fields[i], strict)]
            es == [i \in DOMAIN fields |-> WriteField(fields[i], vals[i])]
            ts == [i \in DOMAIN fields |-> FieldSlack(fields[i], vals[i], strict)]
            p == [b \in Bytes |-> Parse(fields, b, strict)]
            e == Write(fields, vals)
            v == AsRead(fields, vals, strict)
<1>1. n \in Nat /\ DOMAIN fields = 1..n /\ n \in 1..n /\ \A i \in 1..n : fields[i] \in Field
  BY LenProperties, ElementOfSeq
<1>2. /\ v = [i \in 1..n |-> v[i]] /\ \A i \in 1..n : FieldFits(fields[i], vals[i])
      /\ \A i \in 1..n : v[i] = FieldRead(fields[i], vals[i], strict)
  BY <1>1 DEF MessageFits, AsRead
<1>. HIDE DEF v
<1>3. \A i \in 1..n : Codes(ps[i], es[i], v[i], ts[i])
  BY <1>1, <1>2, FieldCodes
<1>4. ps = [i \in 1..n |-> ps[i]] /\ es = [i \in 1..n |-> es[i]]
  BY <1>1
<1>5. \A b \in Bytes : p[b] = Chain(ps, b)
  BY DEF Parse
<1>6. e = FlattenSeq(es) /\ FieldSlack(fields[n], vals[n], strict) = ts[n]
  BY <1>1 DEF Write
<1>7. \A b \in Bytes : p[b] = Parse(fields, b, strict)
  OBVIOUS
<1>. HIDE DEF n, ps, es, ts, p, e
<1>8. Len(ps) = n
  BY <1>1, <1>4, ListedLen
<1>9. es \in Seq(Seq(Byte)) /\ Len(es) = n
  <2>1. \A i \in 1..n : es[i] \in Seq(Byte)
    BY <1>3 DEF Codes, Bytes
  <2>. QED
    BY <1>1, <1>4, <2>1, Listed
<1>10. AllCode(n, ps, es, v, ts)
  BY <1>1, <1>3, <1>8, <1>9 DEF AllCode
<1>11. n # 0
  BY DEF n
<1>12. Codes(p, e, v, ts[n])
  BY <1>2, <1>5, <1>6, <1>10, <1>11, ChainCodes
<1>13. e \in Bytes /\ Len(e) \in Nat \ {0} /\ e \o <<>> = e /\ <<>> \in Bytes
  <2>1. e \in Seq(Byte) /\ <<>> \in Seq(Byte) /\ e \o <<>> = e /\ Len(e) \in Nat
    BY <1>12, ConcatEmptySeq, LenProperties DEF Codes, Bytes
  <2>. QED
    BY <1>12, <2>1 DEF Codes, Bytes
<1>14. Parse(fields, e, strict) = Parsed(v, <<>>)
  <2>1. p[e \o <<>>] = Parsed(v, <<>>)
    BY <1>12, <1>13 DEF Codes, Reads
  <2>. QED
    BY <1>7, <1>13, <2>1
<1>15. ASSUME NEW m \in 0..(Len(e) - 1)
       PROVE  ~Parse(fields, SubSeq(e, 1, m), strict).ok \/ m >= Len(e) - ts[n]
  <2>. DEFINE b == SubSeq(e, 1, m)
  <2>1. b \in Bytes
    <3>1. e \in Seq(Byte) /\ <<>> \in Seq(Byte) /\ m \in 0..(Len(e) + Len(<<>>))
      BY <1>13, EmptySeq DEF Bytes
    <3>2. SubSeq(e \o <<>>, 1, m) \in Seq(Byte)
      BY <3>1, PrefixOfConcat
    <3>. QED
      BY <1>13, <3>2 DEF Bytes
  <2>2. Whole(p[b], m, e, ts[n])
    BY <1>12 DEF Codes, Cut
  <2>. HIDE DEF b
  <2>3. Parse(fields, b, strict) = Fail \/ m >= Len(e) - ts[n]
    BY <1>7, <2>1, <2>2 DEF Whole
  <2>4. ~Parse(fields, b, strict).ok \/ m >= Len(e) - ts[n]
    BY <2>3, Outcome
  <2>. QED
    BY <2>4 DEF b
<1>. QED
  BY <1>6, <1>13, <1>14, <1>15 DEF e, n, v

\* Go reads what was written.
LEMMA GoReadsSame ==
  ASSUME NEW fields \in Seq(Field), NEW vals, MessageFits(fields, vals)
  PROVE  AsRead(fields, vals, TRUE) = vals
<1>1. \A i \in DOMAIN fields : FieldFits(fields[i], vals[i])
  BY DEF MessageFits
<1>2. ASSUME NEW of, NEW entry, EntryFits(of, entry) PROVE EntryRead(of, entry, TRUE) = entry
  <2>1. entry = [i \in DOMAIN of |-> entry[i]]
    BY <1>2 DEF EntryFits
  <2>2. EntryRead(of, entry, TRUE) = [i \in DOMAIN of |-> entry[i]]
    BY DEF EntryRead, SimpleRead, Value
  <2>. QED
    BY <2>1, <2>2
<1>3. ASSUME NEW of, NEW entries, MapFits(of, entries) PROVE MapRead(of, entries, TRUE) = entries
  <2>1. entries = [i \in 1..Len(entries) |-> entries[i]]
    BY <1>3 DEF MapFits
  <2>2. \A i \in 1..Len(entries) : EntryFits(of, entries[i])
    BY <1>3, <2>1 DEF MapFits
  <2>3. MapRead(of, entries, TRUE) = [i \in 1..Len(entries) |-> entries[i]]
    BY <1>2, <2>2 DEF MapRead
  <2>. QED
    BY <2>1, <2>3
<1>4. \A i \in DOMAIN fields : FieldRead(fields[i], vals[i], TRUE) = vals[i]
  BY <1>1, <1>3 DEF FieldFits, FieldRead, SimpleRead, Value
<1>5. AsRead(fields, vals, TRUE) = [i \in DOMAIN fields |-> vals[i]]
  BY <1>4 DEF AsRead
<1>. QED
  BY <1>5 DEF MessageFits

\* For every message of any layout: what has been written Go reads back, all of it,
\* and PHP too, but for numbers of the upper half, which it has as negative ones
\* (AsRead).
THEOREM MessageRead ==
  ASSUME NEW fields \in Seq(Field), Len(fields) # 0, NEW vals, MessageFits(fields, vals)
  PROVE  /\ Write(fields, vals) \in Bytes /\ Len(Write(fields, vals)) # 0
         /\ Parse(fields, Write(fields, vals), TRUE) = Parsed(vals, <<>>)
         /\ Parse(fields, Write(fields, vals), FALSE) = Parsed(AsRead(fields, vals, FALSE), <<>>)
<1>. DEFINE e == Write(fields, vals)
<1>1. e \in Bytes /\ Len(e) \in Nat \ {0}
  BY MessageCodes
<1>2. \A strict \in BOOLEAN : Parse(fields, e, strict) = Parsed(AsRead(fields, vals, strict), <<>>)
  BY MessageCodes
<1>3. AsRead(fields, vals, TRUE) = vals
  BY GoReadsSame
<1>. HIDE DEF e
<1>4. Len(e) # 0 /\ Parse(fields, e, TRUE) = Parsed(vals, <<>>)
  BY <1>1, <1>2, <1>3
<1>. QED
  BY <1>1, <1>2, <1>4 DEF e
-----------------------------------------------------------------------------
(* Pieces in a pipe.                                                       *)

\* The smaller one of two numbers.
LEMMA MinOfTwo ==
  ASSUME NEW a \in Int, NEW b \in Int
  PROVE  Min({a, b}) = IF a <= b THEN a ELSE b
<1>. DEFINE c == IF a <= b THEN a ELSE b
            P(x) == x \in {a, b} /\ \A y \in {a, b} : x <= y
<1>1. P(c) /\ \A x : P(x) => x = c
  OBVIOUS
<1>2. Min({a, b}) = CHOOSE x : P(x)
  BY DEF Min
<1>. QED
  BY <1>1, <1>2

\* The smallest of three numbers.
LEMMA MinOfThree ==
  ASSUME NEW a \in Int, NEW b \in Int, NEW c \in Int
  PROVE  /\ Min({a, b, c}) \in {a, b, c}
         /\ Min({a, b, c}) <= a /\ Min({a, b, c}) <= b /\ Min({a, b, c}) <= c
<1>. DEFINE d == IF a <= b THEN IF a <= c THEN a ELSE c ELSE IF b <= c THEN b ELSE c
            P(x) == x \in {a, b, c} /\ \A y \in {a, b, c} : x <= y
<1>1. P(d)
  OBVIOUS
<1>2. Min({a, b, c}) = CHOOSE x : P(x)
  BY DEF Min
<1>3. P(Min({a, b, c}))
  BY <1>1, <1>2
<1>. QED
  BY <1>3

\* Both parts of a sequence have its kind of members.
LEMMA PartsOf ==
  ASSUME NEW S, NEW R, NEW s \in Seq(R), NEW t \in Seq(R), s \o t \in Seq(S)
  PROVE  s \in Seq(S) /\ t \in Seq(S)
<1>1. /\ Len(s) \in Nat /\ Len(t) \in Nat /\ Len(s \o t) = Len(s) + Len(t)
      /\ s \in [1..Len(s) -> R] /\ t \in [1..Len(t) -> R]
      /\ \A i \in 1..(Len(s) + Len(t)) : (s \o t)[i] = IF i <= Len(s) THEN s[i] ELSE t[i - Len(s)]
  BY ConcatProperties, LenProperties
<1>2. \A i \in 1..(Len(s) + Len(t)) : (s \o t)[i] \in S
  BY <1>1, ElementOfSeq
<1>3. ASSUME NEW i \in 1..Len(s) PROVE s[i] \in S
  <2>1. i \in 1..(Len(s) + Len(t)) /\ i <= Len(s)
    BY <1>1
  <2>. QED
    BY <1>1, <1>2, <2>1
<1>4. ASSUME NEW i \in 1..Len(t) PROVE t[i] \in S
  <2>1. Len(s) + i \in 1..(Len(s) + Len(t)) /\ ~(Len(s) + i <= Len(s)) /\ (Len(s) + i) - Len(s) = i
    BY <1>1
  <2>. QED
    BY <1>1, <1>2, <2>1
<1>5. s \in Seq(S)
  <2>1. s = [i \in 1..Len(s) |-> s[i]]
    BY <1>1
  <2>. QED
    BY <1>1, <1>3, <2>1, Listed
<1>6. t \in Seq(S)
  <2>1. t = [i \in 1..Len(t) |-> t[i]]
    BY <1>1
  <2>. QED
    BY <1>1, <1>4, <2>1, Listed
<1>. QED
  BY <1>5, <1>6

\* Where a sequence is cut: the first n of its members, and the others.
LEMMA CutAt ==
  ASSUME NEW S, NEW s \in Seq(S), NEW n \in 0..Len(s)
  PROVE  /\ SubSeq(s, 1, n) \in Seq(S) /\ Drop(s, n) \in Seq(S)
         /\ Len(SubSeq(s, 1, n)) = n /\ Len(Drop(s, n)) = Len(s) - n
         /\ SubSeq(s, 1, n) \o Drop(s, n) = s
<1>1. Len(s) \in Nat /\ n \in Nat /\ n <= Len(s)
  BY LenProperties
<1>2. SubSeq(s, 1, n) \in Seq(S) /\ Len(SubSeq(s, 1, n)) = n
  <2>1. \A i \in 1..n : i \in 1..Len(s)
    BY <1>1
  <2>2. \A i \in 1..n : s[i] \in S
    BY <2>1, ElementOfSeq
  <2>3. SubSeq(s, 1, n) \in Seq(S) /\ Len(SubSeq(s, 1, n)) = IF 1 <= n THEN n - 1 + 1 ELSE 0
    BY <1>1, <2>2, SubSeqProperties
  <2>4. (IF 1 <= n THEN n - 1 + 1 ELSE 0) = n
    BY <1>1
  <2>. QED
    BY <2>3, <2>4
<1>3. Drop(s, n) \in Seq(S) /\ Len(Drop(s, n)) = Len(s) - n
  <2>. DEFINE l == Len(s)
  <2>1. \A i \in (n + 1)..l : i \in 1..l
    BY <1>1
  <2>2. \A i \in (n + 1)..l : s[i] \in S
    BY <2>1, ElementOfSeq
  <2>3. n + 1 \in Int /\ l \in Int
    BY <1>1
  <2>4. /\ SubSeq(s, n + 1, l) \in Seq(S)
        /\ Len(SubSeq(s, n + 1, l)) = IF n + 1 <= l THEN l - (n + 1) + 1 ELSE 0
    BY <2>2, <2>3, SubSeqProperties
  <2>5. (IF n + 1 <= l THEN l - (n + 1) + 1 ELSE 0) = l - n
    BY <1>1
  <2>. QED
    BY <2>4, <2>5 DEF Drop
<1>4. SubSeq(s, 1, n) \o SubSeq(s, n + 1, Len(s)) = SubSeq(s, 1, Len(s))
  <2>1. 1 \in 1..(Len(s) + 1) /\ n \in (1 - 1)..Len(s) /\ Len(s) \in n..Len(s)
    BY <1>1
  <2>. QED
    BY <2>1, ConcatAdjacentSubSeq
<1>5. SubSeq(s, 1, Len(s)) = s
  BY SubSeqFull
<1>. QED
  BY <1>2, <1>3, <1>4, <1>5 DEF Drop

\* On the pipe: lines and bytes are numbers.
Piece == Seq(Nat) \ {<<>>}

\* What moves into the pipe and what is left are what there was.
LEMMA Moving ==
  ASSUME NEW pipe \in Seq(Nat), NEW out \in Seq(Piece), out # <<>>, Len(pipe) < PipeCap
  PROVE  /\ Moved(pipe, out) \in Seq(Nat) /\ Left(pipe, out) \in Seq(Piece)
         /\ Len(Moved(pipe, out)) <= PipeCap
         /\ FlattenSeq(out) \in Seq(Nat) /\ FlattenSeq(Left(pipe, out)) \in Seq(Nat)
         /\ Moved(pipe, out) \o FlattenSeq(Left(pipe, out)) = pipe \o FlattenSeq(out)
<1>. DEFINE h == Head(out)
            t == Tail(out)
            n == Room(pipe, out)
            a == SubSeq(h, 1, n)
            b == Drop(h, n)
<1>1. h \in Piece /\ t \in Seq(Piece) /\ out = <<h>> \o t
  <2>1. h \in Piece /\ t \in Seq(Piece)
    BY HeadTailProperties
  <2>2. Len(out) \in Nat \ {0} /\ out[1] = h /\ t = SubSeq(out, 2, Len(out))
    BY EmptySeq, TailIsSubSeq
  <2>3. 1 \in 1..Len(out) /\ Len(out) \in 1..Len(out) /\ 1 + 1 = 2
    BY <2>2
  <2>4. SubSeq(out, 1, Len(out)) = <<out[1]>> \o SubSeq(out, 1 + 1, Len(out))
    BY <2>3, SubSeqRecursiveFirst
  <2>5. SubSeq(out, 1, Len(out)) = out
    BY SubSeqFull
  <2>. QED
    BY <2>1, <2>2, <2>3, <2>4, <2>5
<1>2. h \in Seq(Nat) /\ Len(h) \in Nat \ {0} /\ Len(pipe) \in Nat /\ PipeCap \in Nat
  BY <1>1, EmptySeq, LenProperties, WireAssumption DEF Piece
<1>3. n \in 1..Len(h) /\ n <= PipeCap - Len(pipe)
  <2>1. PipeCap - Len(pipe) \in Int /\ Len(h) \in Int /\ PipeCap - Len(pipe) >= 1
    BY <1>2
  <2>2. n = IF PipeCap - Len(pipe) <= Len(h) THEN PipeCap - Len(pipe) ELSE Len(h)
    BY <2>1, MinOfTwo DEF Room
  <2>. HIDE DEF n, h
  <2>. QED
    BY <1>2, <2>1, <2>2
<1>. HIDE DEF n, h, t
<1>4. a \in Seq(Nat) /\ b \in Seq(Nat) /\ Len(a) = n /\ Len(b) = Len(h) - n /\ a \o b = h
  <2>1. n \in 0..Len(h)
    BY <1>3
  <2>. QED
    BY <1>2, <2>1, CutAt
<1>. HIDE DEF a, b
<1>5. t \in Seq(Seq(Nat)) /\ out \in Seq(Seq(Nat))
  <2>1. Piece \subseteq Seq(Nat)
    BY DEF Piece
  <2>. QED
    BY <1>1, <2>1, SeqMonotonic
<1>. DEFINE ft == FlattenSeq(t)
<1>6. ft \in Seq(Nat) /\ FlattenSeq(out) = h \o ft
  <2>1. FlattenSeq(t) \in Seq(Nat)
    BY <1>2, <1>5, FlattenAppend
  <2>2. FlattenSeq(<<h>> \o t) = h \o FlattenSeq(t)
    BY <1>2, <1>5, FlattenCons
  <2>. QED
    BY <1>1, <2>1, <2>2
<1>7. Moved(pipe, out) = pipe \o a
  BY DEF Moved, a, h, n
<1>8. Left(pipe, out) \in Seq(Piece) /\ FlattenSeq(Left(pipe, out)) = b \o ft
  <2>1. Left(pipe, out) = IF b = <<>> THEN t ELSE <<b>> \o t
    BY DEF Left, b, h, n, t
  <2>2. CASE b = <<>>
    BY <1>1, <1>6, <2>1, <2>2, ConcatEmptySeq
  <2>3. CASE b # <<>>
    <3>1. b \in Piece /\ <<b>> \in Seq(Piece)
      BY <1>4, <2>3 DEF Piece
    <3>2. <<b>> \o t \in Seq(Piece)
      BY <1>1, <3>1, ConcatProperties
    <3>3. FlattenSeq(<<b>> \o t) = b \o ft
      BY <1>4, <1>5, FlattenCons
    <3>. QED
      BY <2>1, <2>3, <3>2, <3>3
  <2>. QED
    BY <2>2, <2>3
<1>. HIDE DEF ft
<1>9. pipe \o a \in Seq(Nat) /\ Len(pipe \o a) = Len(pipe) + n
  BY <1>4, ConcatProperties
<1>10. (pipe \o a) \o (b \o ft) = pipe \o (h \o ft)
  <2>. DEFINE c == b \o ft
  <2>1. c \in Seq(Nat)
    BY <1>4, <1>6, ConcatProperties
  <2>2. (a \o b) \o ft = a \o c
    <3>1. a \in Seq(Nat) /\ b \in Seq(Nat) /\ ft \in Seq(Nat)
      BY <1>4, <1>6
    <3>. QED
      <4>1. Assoc(a, b, ft)
        BY <3>1, Associative
      <4>. QED
        BY <4>1 DEF Assoc
  <2>. HIDE DEF c
  <2>3. (pipe \o a) \o c = pipe \o (a \o c)
    <3>1. a \in Seq(Nat) /\ c \in Seq(Nat)
      BY <1>4, <2>1
    <3>. QED
      <4>1. Assoc(pipe, a, c)
        BY <3>1, Associative
      <4>. QED
        BY <4>1 DEF Assoc
  <2>. QED
    BY <1>4, <2>2, <2>3 DEF c
<1>11. h \o ft \in Seq(Nat) /\ b \o ft \in Seq(Nat)
  BY <1>2, <1>4, <1>6, ConcatProperties
<1>12. Len(pipe) + n <= PipeCap
  BY <1>2, <1>3
<1>. QED
  BY <1>6, <1>7, <1>8, <1>9, <1>10, <1>11, <1>12

\* k full pieces are shorter than the data while there are pieces to come.
LEMMA PieceCount ==
  ASSUME NEW l \in Nat, NEW C \in Nat \ {0}, NEW n, n = (l + C - 1) \div C
  PROVE  /\ n \in Nat /\ (l = 0 => n = 0) /\ l <= n * C
         /\ \A k \in 0..(n - 1) : k * C < l
<1>. DEFINE x == l + C - 1
            r == x % C
<1>1. x \in Nat /\ C \in Int /\ C > 0
  OBVIOUS
<1>. HIDE DEF x
<1>2. n \in Int /\ r \in 0..(C - 1) /\ x = C * n + r
  BY <1>1 DEF x
<1>. HIDE DEF r
<1>3. n >= 0
  <2>1. SUFFICES ASSUME n <= -1 PROVE FALSE
    BY <1>2
  <2>2. C * n <= C * (-1)
    BY <1>1, <1>2, <2>1
  <2>3. C * (-1) = -C
    BY <1>1
  <2>4. x <= -1
    BY <1>1, <1>2, <2>2, <2>3
  <2>. QED
    BY <1>1, <2>4
<1>4. C * n = n * C /\ C * n \in Int
  BY <1>1, <1>2
<1>5. l <= n * C /\ n * C <= l + C - 1
  BY <1>1, <1>2, <1>4 DEF x
<1>6. ASSUME NEW k \in 0..(n - 1) PROVE k * C < l
  <2>1. k \in Int /\ k + 1 <= n
    BY <1>2
  <2>2. (k + 1) * C <= n * C
    BY <1>1, <1>2, <2>1
  <2>3. (k + 1) * C = k * C + C /\ k * C \in Int
    BY <1>1, <2>1
  <2>. QED
    BY <1>1, <1>4, <1>5, <2>2, <2>3
<1>7. l = 0 => n = 0
  <2>1. SUFFICES ASSUME l = 0, n >= 1 PROVE FALSE
    BY <1>2, <1>3
  <2>2. 0 \in 0..(n - 1) /\ 0 * C = 0
    BY <1>1, <1>2, <2>1
  <2>. QED
    BY <1>6, <2>1, <2>2
<1>. QED
  BY <1>2, <1>3, <1>5, <1>6, <1>7

\* The pieces of a message are its bytes, in their order, and none is empty.
LEMMA PiecesAre ==
  ASSUME NEW d \in Bytes
  PROVE  Pieces(d) \in Seq(Piece) /\ FlattenSeq(Pieces(d)) = d
<1>. DEFINE l == Len(d)
            n == (l + Chunk - 1) \div Chunk
            P == Pieces(d)
            End(k) == Min({k * Chunk, l})
<1>1. d \in Seq(Nat) /\ d \in Seq(Byte) /\ l \in Nat /\ Chunk \in Nat \ {0}
  BY Constants, SeqMonotonic, LenProperties, WireAssumption DEF Bytes
<1>2. n \in Nat /\ (l = 0 => n = 0) /\ l <= n * Chunk /\ \A k \in 0..(n - 1) : k * Chunk < l
  BY <1>1, PieceCount
<1>3. P = [k \in 1..n |-> SubSeq(d, (k - 1) * Chunk + 1, End(k))]
  BY DEF Pieces
<1>. HIDE DEF n, P, l
<1>4. \A k \in 0..n : k * Chunk \in Nat /\ End(k) = IF k * Chunk <= l THEN k * Chunk ELSE l
  <2>1. ASSUME NEW k \in 0..n PROVE k * Chunk \in Nat /\ End(k) = IF k * Chunk <= l THEN k * Chunk ELSE l
    <3>1. k * Chunk \in Nat
      BY <1>1, <1>2
    <3>. QED
      BY <1>1, <3>1, MinOfTwo
  <2>. QED
    BY <2>1
<1>5. ASSUME NEW k \in 0..(n - 1)
      PROVE  /\ P[k + 1] = SubSeq(d, k * Chunk + 1, End(k + 1))
             /\ k * Chunk < l /\ End(k) = k * Chunk /\ k * Chunk \in Nat
             /\ End(k + 1) \in Nat /\ End(k + 1) <= l /\ End(k) < End(k + 1)
  <2>1. k + 1 \in 1..n /\ (k + 1) - 1 = k /\ k \in 0..n /\ k + 1 \in 0..n
    BY <1>2
  <2>2. P[k + 1] = SubSeq(d, ((k + 1) - 1) * Chunk + 1, End(k + 1))
    <3>. HIDE DEF End
    <3>. QED
      BY <1>3, <2>1
  <2>3. k * Chunk < l /\ k * Chunk \in Nat /\ (k + 1) * Chunk \in Nat
    BY <1>2, <1>4, <2>1
  <2>4. End(k) = k * Chunk /\ End(k + 1) = IF (k + 1) * Chunk <= l THEN (k + 1) * Chunk ELSE l
    <3>. HIDE DEF End
    <3>1. /\ End(k) = IF k * Chunk <= l THEN k * Chunk ELSE l
          /\ End(k + 1) = IF (k + 1) * Chunk <= l THEN (k + 1) * Chunk ELSE l
      BY <1>4, <2>1
    <3>. QED
      BY <1>1, <2>3, <3>1
  <2>5. (k + 1) * Chunk = k * Chunk + Chunk
    BY <1>1, <2>1
  <2>. HIDE DEF End
  <2>. QED
    BY <1>1, <2>1, <2>2, <2>3, <2>4, <2>5
<1>. HIDE DEF End
<1>6. \A k \in 1..n : P[k] \in Piece
  <2>1. ASSUME NEW k \in 0..(n - 1) PROVE P[k + 1] \in Piece
    <3>. DEFINE a == k * Chunk + 1
                b == End(k + 1)
    <3>1. a \in Int /\ b \in Int /\ 1 <= a /\ a <= b /\ b <= l
      BY <1>1, <1>5
    <3>2. P[k + 1] = SubSeq(d, a, b)
      BY <1>5
    <3>. HIDE DEF a, b
    <3>3. \A i \in a..b : d[i] \in Nat
      <4>1. \A i \in a..b : i \in 1..Len(d)
        BY <1>1, <3>1 DEF l
      <4>. QED
        BY <1>1, <4>1, ElementOfSeq
    <3>4. SubSeq(d, a, b) \in Seq(Nat) /\ Len(SubSeq(d, a, b)) = b - a + 1
      BY <3>1, <3>3, SubSeqProperties
    <3>5. Len(SubSeq(d, a, b)) # 0
      BY <3>1, <3>4
    <3>. QED
      BY <3>2, <3>4, <3>5, EmptySeq DEF Piece
  <2>2. \A k \in 1..n : k - 1 \in 0..(n - 1) /\ (k - 1) + 1 = k
    BY <1>2
  <2>3. ASSUME NEW k \in 1..n PROVE P[k] \in Piece
    <3>1. P[(k - 1) + 1] \in Piece
      BY <2>1, <2>2
    <3>. QED
      BY <2>2, <3>1
  <2>. QED
    BY <2>3
<1>7. P \in Seq(Piece) /\ Len(P) = n
  <2>1. P = [k \in 1..n |-> P[k]]
    BY <1>3
  <2>. QED
    BY <1>2, <1>6, <2>1, Listed
<1>8. P \in Seq(Seq(Nat))
  <2>1. Piece \subseteq Seq(Nat)
    BY DEF Piece
  <2>. QED
    BY <1>7, <2>1, SeqMonotonic
<1>. DEFINE T == {k \in Nat : FlattenSeq(SubSeq(P, 1, k)) = SubSeq(d, 1, End(k))}
<1>9. 0 \in T
  <2>1. SubSeq(P, 1, 0) = <<>>
    BY SubSeqEmpty
  <2>2. End(0) = 0
    <3>1. 0 * Chunk = 0 /\ 0 \in 0..n
      BY <1>1, <1>2
    <3>. QED
      BY <1>1, <1>4, <3>1
  <2>3. SubSeq(d, 1, 0) = <<>>
    BY SubSeqEmpty
  <2>. QED
    BY <2>1, <2>2, <2>3, FlattenNothing
<1>10. ASSUME NEW k \in 0..(n - 1), k \in T PROVE k + 1 \in T
  <2>1. FlattenSeq(SubSeq(P, 1, k + 1)) = FlattenSeq(SubSeq(P, 1, k)) \o P[k + 1]
    BY <1>7, <1>8, FlattenFirst
  <2>2. FlattenSeq(SubSeq(P, 1, k)) = SubSeq(d, 1, k * Chunk)
    BY <1>5, <1>10
  <2>. DEFINE a == k * Chunk
              b == End(k + 1)
  <2>3. 1 \in 1..(l + 1) /\ a \in (1 - 1)..l /\ b \in a..l
    BY <1>1, <1>5
  <2>4. P[k + 1] = SubSeq(d, a + 1, b)
    BY <1>5
  <2>. HIDE DEF a, b
  <2>5. SubSeq(d, 1, a) \o SubSeq(d, a + 1, b) = SubSeq(d, 1, b)
    BY <1>1, <2>3, ConcatAdjacentSubSeq DEF l
  <2>6. FlattenSeq(SubSeq(P, 1, k + 1)) = SubSeq(d, 1, End(k + 1))
    BY <2>1, <2>2, <2>4, <2>5 DEF a, b
  <2>7. k + 1 \in Nat
    BY <1>2
  <2>. QED
    BY <2>6, <2>7
<1>11. n \in T
  <2>1. \A k \in 0..n : k \in T
    <3>. HIDE DEF T
    <3>. QED
      BY <1>2, <1>9, <1>10, InductionUpTo
  <2>. QED
    BY <1>2, <2>1
<1>12. SubSeq(P, 1, n) = P
  BY <1>7, SubSeqFull
<1>13. End(n) = l
  <2>1. n \in 0..n
    BY <1>2
  <2>2. n * Chunk \in Nat /\ End(n) = IF n * Chunk <= l THEN n * Chunk ELSE l
    BY <1>4, <2>1
  <2>. QED
    BY <1>1, <1>2, <2>2
<1>14. SubSeq(d, 1, l) = d
  BY <1>1, SubSeqFull DEF l
<1>. QED
  BY <1>7, <1>11, <1>12, <1>13, <1>14 DEF P

\* A message as it is on the pipe.
Frame(d) == <<Line(Len(d))>> \o d

\* What writeMsg writes is the frame, in pieces.
LEMMA FramedIs ==
  ASSUME NEW d \in Bytes
  PROVE  /\ Framed(d) \in Seq(Piece) /\ FlattenSeq(Framed(d)) = Frame(d)
         /\ Frame(d) \in Seq(Nat) /\ d \in Seq(Nat) /\ Len(d) \in Nat
<1>. DEFINE x == <<Line(Len(d))>>
            P == Pieces(d)
<1>1. d \in Seq(Nat) /\ Len(d) \in Nat /\ Base \in Nat
  BY Constants, SeqMonotonic, LenProperties DEF Bytes
<1>2. x \in Seq(Nat) /\ x # <<>> /\ x \in Piece
  <2>1. Line(Len(d)) \in Nat
    BY <1>1 DEF Line
  <2>. QED
    BY <2>1 DEF Piece
<1>3. P \in Seq(Piece) /\ FlattenSeq(P) = d
  BY PiecesAre
<1>4. P \in Seq(Seq(Nat))
  <2>1. Piece \subseteq Seq(Nat)
    BY DEF Piece
  <2>. QED
    BY <1>3, <2>1, SeqMonotonic
<1>5. Framed(d) = <<x>> \o P /\ Frame(d) = x \o d
  BY DEF Framed, Frame
<1>. HIDE DEF x, P
<1>6. <<x>> \in Seq(Piece)
  BY <1>2
<1>7. <<x>> \o P \in Seq(Piece)
  BY <1>3, <1>6, ConcatProperties
<1>8. FlattenSeq(<<x>> \o P) = x \o d
  BY <1>2, <1>3, <1>4, FlattenCons
<1>9. x \o d \in Seq(Nat)
  BY <1>1, <1>2, ConcatProperties
<1>. QED
  BY <1>1, <1>5, <1>7, <1>8, <1>9

\* Nothing is left to write exactly when there are no pieces.
LEMMA NothingLeft ==
  ASSUME NEW out \in Seq(Piece)
  PROVE  FlattenSeq(out) \in Seq(Nat) /\ (FlattenSeq(out) = <<>> <=> out = <<>>)
<1>1. out \in Seq(Seq(Nat)) /\ <<>> \in Seq(Nat)
  <2>1. Piece \subseteq Seq(Nat)
    BY DEF Piece
  <2>. QED
    BY <2>1, SeqMonotonic
<1>2. FlattenSeq(out) \in Seq(Nat)
  BY <1>1, FlattenAppend
<1>3. ASSUME out # <<>> PROVE FlattenSeq(out) # <<>>
  <2>1. PICK s \in Seq(Piece), x \in Piece : out = Append(s, x)
    BY <1>3, SequenceEmptyOrAppend
  <2>2. s \in Seq(Seq(Nat)) /\ x \in Seq(Nat) /\ x # <<>>
    <3>1. Piece \subseteq Seq(Nat)
      BY DEF Piece
    <3>. QED
      BY <3>1, SeqMonotonic DEF Piece
  <2>. DEFINE f == FlattenSeq(s)
  <2>3. f \in Seq(Nat) /\ FlattenSeq(Append(s, x)) = f \o x
    BY <2>2, FlattenAppend
  <2>. HIDE DEF f
  <2>4. f \o x # <<>>
    BY <2>2, <2>3, ConcatEqualIffEmpty
  <2>. QED
    BY <2>1, <2>3, <2>4
<1>. QED
  BY <1>2, <1>3, FlattenNothing
-----------------------------------------------------------------------------
(* Requests and answers.                                                   *)

\* The layouts of the four messages, field by field.
LEMMA Layouts ==
  /\ HTTPRequest \in Seq(Field) /\ Len(HTTPRequest) = 6 /\ DOMAIN HTTPRequest = 1..6
  /\ HTTPRequest[3] = MapOf(<<Str>>) /\ HTTPRequest[4] = Str /\ HTTPRequest[6] = MapOf(<<Str>>)
  /\ HTTPResponse \in Seq(Field) /\ Len(HTTPResponse) = 3 /\ DOMAIN HTTPResponse = 1..3
  /\ HTTPResponse[1] = Uint /\ HTTPResponse[2] = MapOf(<<Str>>) /\ HTTPResponse[3] = Str
  /\ JobRequest \in Seq(Field) /\ Len(JobRequest) = 3 /\ DOMAIN JobRequest = 1..3
  /\ JobRequest[2] = Str /\ JobRequest[3] = Uint
  /\ JobResponse \in Seq(Field) /\ Len(JobResponse) = 1 /\ DOMAIN JobResponse = 1..1
  /\ JobResponse[1] = Str
<1>1. {Uint, Str} \subseteq Field /\ File \in Seq(Simple) /\ <<Str>> \in Seq(Simple)
  BY DEF Field, Simple, File
<1>2. MapOf(<<Str>>) \in Field /\ MapOf(File) \in Field
  BY <1>1 DEF Field
<1>. QED
  BY <1>1, <1>2 DEF HTTPRequest, HTTPResponse, JobRequest, JobResponse

\* What a field says of itself.
LEMMA Kinds ==
  /\ Uint.kind = "uint" /\ Str.kind = "string"
  /\ \A of : MapOf(of).kind = "map" /\ MapOf(of).of = <<Str>> \o of
  BY DEF Uint, Str, MapOf

\* The status of an answer can be written.
LEMMA SuccessFits == Fits(Success)
<1>. DEFINE q == Shifted(1)
            T == {k \in Nat : k >= 1 => q[k] = 0}
<1>1. Width \in Nat \ {0} /\ Base \in Nat \ {0, 1}
  BY Constants
<1>2. q[0] = 1 /\ \A i \in 1..Width : q[i] = q[i - 1] \div Base
  BY ShiftedDefined
<1>. HIDE DEF q
<1>3. 0 \in T
  OBVIOUS
<1>4. ASSUME NEW k \in 0..(Width - 1), k \in T PROVE k + 1 \in T
  <2>1. k + 1 \in Nat /\ k + 1 \in 1..Width /\ (k + 1) - 1 = k
    BY <1>1
  <2>2. q[k + 1] = q[k] \div Base
    BY <1>2, <2>1
  <2>3. q[k] \in {0, 1}
    BY <1>2, <1>4
  <2>4. 0 \div Base = 0 /\ 1 \div Base = 0
    BY <1>1
  <2>. QED
    BY <2>1, <2>2, <2>3, <2>4
<1>5. Width \in T
  <2>1. \A k \in 0..Width : k \in T
    <3>. HIDE DEF T
    <3>. QED
      BY <1>1, <1>3, <1>4, InductionUpTo
  <2>. QED
    BY <1>1, <2>1
<1>. QED
  BY <1>1, <1>5 DEF Fits, Success, q

\* What the client sends can be read back.
LEMMA RequestCoded ==
  ASSUME kind \in DOMAIN Requests, NEW m \in Requests[kind]
  PROVE  /\ kind \in {"http", "job", "raw"} /\ Encoded(m) \in Bytes
         /\ Encoded(m) \in DOMAIN Program[kind]
         /\ Program[kind][Encoded(m)] = Replies(kind, Encoded(m))
         /\ kind = "http" => /\ MessageFits(HTTPRequest, m)
                             /\ Parse(HTTPRequest, Encoded(m), FALSE) =
                                 Parsed(AsRead(HTTPRequest, m, FALSE), <<>>)
         /\ kind = "job" => /\ MessageFits(JobRequest, m)
                            /\ Parse(JobRequest, Encoded(m), FALSE) =
                                 Parsed(AsRead(JobRequest, m, FALSE), <<>>)
         /\ kind = "raw" => Encoded(m) = m
         /\ kind # "raw" => Len(Encoded(m)) # 0
<1>1. /\ kind \in {"http", "job", "raw"}
      /\ kind = "http" => MessageFits(HTTPRequest, m) /\ Encoded(m) = Write(HTTPRequest, m)
      /\ kind = "job" => MessageFits(JobRequest, m) /\ Encoded(m) = Write(JobRequest, m)
      /\ kind = "raw" => m \in Bytes /\ Encoded(m) = m
  <2>1. kind \in {"http", "job", "raw"}
    BY WireAssumption
  <2>2. kind = "http" => MessageFits(HTTPRequest, m) /\ Encoded(m) = Write(HTTPRequest, m)
    BY WireAssumption DEF Encoded, Encode
  <2>3. kind = "job" => MessageFits(JobRequest, m) /\ Encoded(m) = Write(JobRequest, m)
    BY WireAssumption DEF Encoded, Encode
  <2>4. kind = "raw" => m \in Bytes /\ Encoded(m) = m
    BY WireAssumption DEF Encoded, Encode
  <2>. QED
    BY <2>1, <2>2, <2>3, <2>4
<1>2. ASSUME kind = "http"
      PROVE  /\ Encoded(m) \in Bytes /\ Len(Encoded(m)) # 0
             /\ Parse(HTTPRequest, Encoded(m), FALSE) =
                                 Parsed(AsRead(HTTPRequest, m, FALSE), <<>>)
  <2>1. HTTPRequest \in Seq(Field) /\ Len(HTTPRequest) # 0
    BY Layouts
  <2>. QED
    BY <1>1, <1>2, <2>1, MessageRead
<1>3. ASSUME kind = "job"
      PROVE  /\ Encoded(m) \in Bytes /\ Len(Encoded(m)) # 0
             /\ Parse(JobRequest, Encoded(m), FALSE) =
                                 Parsed(AsRead(JobRequest, m, FALSE), <<>>)
  <2>1. JobRequest \in Seq(Field) /\ Len(JobRequest) # 0
    BY Layouts
  <2>. QED
    BY <1>1, <1>3, <2>1, MessageRead
<1>4. /\ Encoded(m) \in DOMAIN Program[kind]
      /\ Program[kind][Encoded(m)] = Replies(kind, Encoded(m))
  BY DEF Program, Encoded
<1>. QED
  BY <1>1, <1>2, <1>3, <1>4

\* PHP reads strings and maps of strings as they were written.
LEMMA StringsSame ==
  ASSUME NEW m
  PROVE  /\ MessageFits(HTTPRequest, m) =>
              /\ AsRead(HTTPRequest, m, FALSE)[3] = m[3]
              /\ AsRead(HTTPRequest, m, FALSE)[4] = m[4]
         /\ MessageFits(JobRequest, m) => AsRead(JobRequest, m, FALSE)[2] = m[2]
<1>1. \A s : FieldRead(Str, s, FALSE) = s
  BY Kinds DEF FieldRead, SimpleRead
<1>2. ASSUME NEW entries, FieldFits(MapOf(<<Str>>), entries)
      PROVE  FieldRead(MapOf(<<Str>>), entries, FALSE) = entries
  <2>. DEFINE of == <<Str>> \o <<Str>>
  <2>1. DOMAIN of = 1..2 /\ of[1] = Str /\ of[2] = Str
    OBVIOUS
  <2>2. MapFits(of, entries) /\ FieldRead(MapOf(<<Str>>), entries, FALSE) = MapRead(of, entries, FALSE)
    BY <1>2, Kinds DEF FieldFits, FieldRead
  <2>. HIDE DEF of
  <2>3. \A i \in DOMAIN of : \A s : SimpleRead(of[i], s, FALSE) = s
    <3>1. \A i \in DOMAIN of : of[i] = Str
      BY <2>1
    <3>. QED
      BY <3>1, Kinds DEF SimpleRead
  <2>4. entries = [i \in 1..Len(entries) |-> entries[i]]
    BY <2>2 DEF MapFits
  <2>5. ASSUME NEW i \in 1..Len(entries) PROVE EntryRead(of, entries[i], FALSE) = entries[i]
    <3>1. EntryFits(of, entries[i])
      BY <2>2, <2>4 DEF MapFits
    <3>2. entries[i] = [j \in DOMAIN of |-> entries[i][j]]
      BY <3>1 DEF EntryFits
    <3>3. EntryRead(of, entries[i], FALSE) = [j \in DOMAIN of |-> entries[i][j]]
      BY <2>3 DEF EntryRead
    <3>. QED
      BY <3>2, <3>3
  <2>6. MapRead(of, entries, FALSE) = [i \in 1..Len(entries) |-> entries[i]]
    BY <2>5 DEF MapRead
  <2>. QED
    BY <2>2, <2>4, <2>6
<1>3. ASSUME MessageFits(HTTPRequest, m)
      PROVE  /\ AsRead(HTTPRequest, m, FALSE)[3] = m[3]
             /\ AsRead(HTTPRequest, m, FALSE)[4] = m[4]
  <2>. DEFINE R == HTTPRequest
  <2>1. {3, 4} \subseteq DOMAIN R /\ R[3] = MapOf(<<Str>>) /\ R[4] = Str
    BY Layouts
  <2>. HIDE DEF R
  <2>2. FieldFits(R[3], m[3])
    BY <1>3, <2>1 DEF MessageFits, R
  <2>3. AsRead(R, m, FALSE)[3] = FieldRead(R[3], m[3], FALSE) /\ AsRead(R, m, FALSE)[4] = FieldRead(R[4], m[4], FALSE)
    BY <2>1 DEF AsRead
  <2>. QED
    BY <1>1, <1>2, <2>1, <2>2, <2>3 DEF R
<1>4. ASSUME MessageFits(JobRequest, m) PROVE AsRead(JobRequest, m, FALSE)[2] = m[2]
  <2>. DEFINE R == JobRequest
  <2>1. 2 \in DOMAIN R /\ R[2] = Str
    BY Layouts
  <2>. HIDE DEF R
  <2>2. AsRead(R, m, FALSE)[2] = FieldRead(R[2], m[2], FALSE)
    BY <2>1 DEF AsRead
  <2>. QED
    BY <1>1, <2>1, <2>2 DEF R
<1>. QED
  BY <1>3, <1>4

\* An answer is what was meant, and there is one unless PHP throws.
LEMMA HTTPReplies ==
  ASSUME kind = "http", kind \in DOMAIN Requests, NEW m \in Requests[kind]
  PROVE  /\ Replies(kind, Encoded(m)) = {} => Unanswerable(m)
         /\ \A r \in Replies(kind, Encoded(m)) :
              r \in Bytes /\ Decoded(r).ok /\ Decoded(r).val \in Expected(m)
<1>. DEFINE data == Encoded(m)
            p == Parse(HTTPRequest, data, FALSE)
            v == <<Success, m[3], m[4]>>
            w == Write(HTTPResponse, v)
<1>1. p = Parsed(AsRead(HTTPRequest, m, FALSE), <<>>) /\ MessageFits(HTTPRequest, m)
  BY RequestCoded
<1>2. p.ok /\ p.val[3] = m[3] /\ p.val[4] = m[4]
  <2>1. p.ok /\ p.val = AsRead(HTTPRequest, m, FALSE)
    BY <1>1, Outcome
  <2>. HIDE DEF p
  <2>. QED
    BY <1>1, <2>1, StringsSame
<1>3. Replies(kind, data) = IF ~p.ok \/ \E e \in ToSet(p.val[3]) : e[1] \in Numeric THEN {}
                            ELSE {Write(HTTPResponse, <<Success, p.val[3], p.val[4]>>)}
  BY DEF Replies
<1>. HIDE DEF p, data
<1>4. Replies(kind, data) = IF \E e \in ToSet(m[3]) : e[1] \in Numeric THEN {} ELSE {w}
  BY <1>2, <1>3
<1>5. MessageFits(HTTPResponse, v)
  <2>1. \A i \in 1..6 : FieldFits(HTTPRequest[i], m[i])
    BY <1>1, Layouts DEF MessageFits
  <2>2. FieldFits(MapOf(<<Str>>), m[3]) /\ FieldFits(Str, m[4])
    <3>1. FieldFits(HTTPRequest[3], m[3]) /\ FieldFits(HTTPRequest[4], m[4])
      BY <2>1
    <3>. QED
      BY <3>1, Layouts
  <2>3. FieldFits(Uint, Success)
    BY SuccessFits, Kinds DEF FieldFits, SimpleFits
  <2>4. v[1] = Success /\ v[2] = m[3] /\ v[3] = m[4] /\ v = [i \in 1..3 |-> v[i]]
    OBVIOUS
  <2>. HIDE DEF v
  <2>5. \A i \in 1..3 : FieldFits(HTTPResponse[i], v[i])
    BY <2>2, <2>3, <2>4, Layouts
  <2>. QED
    BY <2>4, <2>5, Layouts DEF MessageFits
<1>6. w \in Bytes /\ Parse(HTTPResponse, w, TRUE) = Parsed(v, <<>>)
  <2>. HIDE DEF v
  <2>1. HTTPResponse \in Seq(Field) /\ Len(HTTPResponse) # 0
    BY Layouts
  <2>. QED
    BY <1>5, <2>1, MessageRead
<1>7. Meaning(HTTPResponse, v) = <<Success, GoMap(m[3]), m[4]>>
  <2>. DEFINE x == Meaning(HTTPResponse, v)
              y == <<Success, GoMap(m[3]), m[4]>>
  <2>1. x = [i \in 1..3 |-> IF HTTPResponse[i].kind = "map" THEN GoMap(v[i]) ELSE v[i]]
    BY Layouts DEF Meaning
  <2>2. v[1] = Success /\ v[2] = m[3] /\ v[3] = m[4]
    OBVIOUS
  <2>3. y = [i \in 1..3 |-> y[i]] /\ y[1] = Success /\ y[2] = GoMap(m[3]) /\ y[3] = m[4]
    OBVIOUS
  <2>. HIDE DEF x, y, v
  <2>4. x[1] = y[1] /\ x[2] = y[2] /\ x[3] = y[3]
    <3>1. HTTPResponse[1].kind # "map" /\ HTTPResponse[2].kind = "map" /\ HTTPResponse[3].kind # "map"
      BY Layouts, Kinds
    <3>2. x[1] = v[1] /\ x[2] = GoMap(v[2]) /\ x[3] = v[3]
      BY <2>1, <3>1
    <3>. QED
      BY <2>2, <2>3, <3>2
  <2>5. \A i \in 1..3 : x[i] = y[i]
    BY <2>4
  <2>6. x = [i \in 1..3 |-> x[i]]
    BY <2>1
  <2>7. x = y
    BY <2>3, <2>5, <2>6
  <2>. QED
    BY <2>7 DEF x, y
<1>. HIDE DEF v
<1>8. Decoded(w).ok /\ Decoded(w).val = <<Success, GoMap(m[3]), m[4]>>
  <2>. DEFINE u == Parse(HTTPResponse, w, TRUE)
  <2>1. u.ok /\ u.val = v
    BY <1>6, Outcome
  <2>. HIDE DEF u, w
  <2>2. Decoded(w) = [ok |-> TRUE, val |-> Meaning(HTTPResponse, u.val)]
    BY <2>1 DEF Decoded, u
  <2>. QED
    BY <1>7, <2>1, <2>2
<1>9. Expected(m) = {<<Success, GoMap(m[3]), m[4]>>}
  BY DEF Expected
<1>10. (\E e \in ToSet(m[3]) : e[1] \in Numeric) => Unanswerable(m)
  BY DEF Unanswerable
<1>. HIDE DEF w
<1>11. /\ Replies(kind, data) = {} => Unanswerable(m)
       /\ \A r \in Replies(kind, data) : r \in Bytes /\ Decoded(r).ok /\ Decoded(r).val \in Expected(m)
  BY <1>4, <1>6, <1>8, <1>9, <1>10
<1>. QED
  BY <1>11 DEF data

\* A job is answered with its payload.
LEMMA JobReplies ==
  ASSUME kind = "job", kind \in DOMAIN Requests, NEW m \in Requests[kind]
  PROVE  /\ Replies(kind, Encoded(m)) # {}
         /\ \A r \in Replies(kind, Encoded(m)) :
              r \in Bytes /\ Decoded(r).ok /\ Decoded(r).val \in Expected(m)
<1>. DEFINE data == Encoded(m)
            p == Parse(JobRequest, data, FALSE)
            v == <<m[2]>>
            w == Write(JobResponse, v)
<1>1. p = Parsed(AsRead(JobRequest, m, FALSE), <<>>) /\ MessageFits(JobRequest, m)
  BY RequestCoded
<1>2. p.ok /\ p.val[2] = m[2]
  <2>1. p.ok /\ p.val = AsRead(JobRequest, m, FALSE)
    BY <1>1, Outcome
  <2>. HIDE DEF p
  <2>. QED
    BY <1>1, <2>1, StringsSame
<1>3. Replies(kind, data) = IF p.ok THEN {Write(JobResponse, <<p.val[2]>>)} ELSE {}
  BY DEF Replies
<1>. HIDE DEF p, data
<1>4. Replies(kind, data) = {w}
  BY <1>2, <1>3
<1>5. MessageFits(JobResponse, v)
  <2>1. FieldFits(Str, m[2])
    <3>1. FieldFits(JobRequest[2], m[2])
      BY <1>1, Layouts DEF MessageFits
    <3>. QED
      BY <3>1, Layouts
  <2>2. v[1] = m[2] /\ v = [i \in 1..1 |-> v[i]]
    OBVIOUS
  <2>. HIDE DEF v
  <2>. QED
    BY <2>1, <2>2, Layouts DEF MessageFits
<1>6. w \in Bytes /\ Parse(JobResponse, w, TRUE) = Parsed(v, <<>>)
  <2>. HIDE DEF v
  <2>1. JobResponse \in Seq(Field) /\ Len(JobResponse) # 0
    BY Layouts
  <2>. QED
    BY <1>5, <2>1, MessageRead
<1>7. Meaning(JobResponse, v) = v
  <2>1. Meaning(JobResponse, v) = [i \in 1..1 |-> IF JobResponse[i].kind = "map" THEN GoMap(v[i]) ELSE v[i]]
    BY Layouts DEF Meaning
  <2>2. v = [i \in 1..1 |-> v[i]]
    OBVIOUS
  <2>3. \A i \in 1..1 : JobResponse[i].kind # "map"
    <3>1. JobResponse[1].kind # "map"
      BY Layouts, Kinds
    <3>. QED
      BY <3>1
  <2>. HIDE DEF v
  <2>. QED
    BY <2>1, <2>2, <2>3
<1>8. Expected(m) = {v}
  BY DEF Expected
<1>. HIDE DEF v
<1>9. Decoded(w).ok /\ Decoded(w).val = v
  <2>. DEFINE u == Parse(JobResponse, w, TRUE)
  <2>1. u.ok /\ u.val = v
    BY <1>6, Outcome
  <2>. HIDE DEF u, w
  <2>2. Decoded(w) = [ok |-> TRUE, val |-> Meaning(JobResponse, u.val)]
    BY <2>1 DEF Decoded, u
  <2>. QED
    BY <1>7, <2>1, <2>2
<1>. HIDE DEF w
<1>10. /\ Replies(kind, data) # {}
       /\ \A r \in Replies(kind, data) : r \in Bytes /\ Decoded(r).ok /\ Decoded(r).val \in Expected(m)
  BY <1>4, <1>6, <1>8, <1>9
<1>. QED
  BY <1>10 DEF data

\* For every kind of client.
LEMMA AllReplies ==
  ASSUME kind \in DOMAIN Requests, NEW m \in Requests[kind]
  PROVE  /\ Replies(kind, Encoded(m)) = {} => Unanswerable(m)
         /\ \A r \in Replies(kind, Encoded(m)) :
              r \in Bytes /\ Decoded(r).ok /\ Decoded(r).val \in Expected(m)
<1>1. CASE kind = "http"
  BY <1>1, HTTPReplies
<1>2. CASE kind = "job"
  BY <1>2, JobReplies
<1>3. CASE kind = "raw"
  <2>1. Encoded(m) = m /\ m \in Bytes /\ <<>> \in Bytes
    BY <1>3, RequestCoded DEF Bytes
  <2>2. Replies(kind, Encoded(m)) = {<<>>, m} /\ Expected(m) = {<<>>, m}
    BY <1>3, <2>1 DEF Replies, Expected
  <2>3. \A r : Decoded(r).ok /\ Decoded(r).val = r
    BY <1>3 DEF Decoded
  <2>. QED
    BY <2>1, <2>2, <2>3
<1>. QED
  BY <1>1, <1>2, <1>3, RequestCoded
-----------------------------------------------------------------------------
(* The inductive invariant.                                                *)

Result == {Fail} \cup [ok : {TRUE}, data : Bytes]

Types ==
  /\ kind \in DOMAIN Requests /\ msgs \in [1..Exchanges -> Requests[kind]]
  /\ stdin \in Seq(Nat) /\ Len(stdin) <= PipeCap
  /\ stdout \in Seq(Nat) /\ Len(stdout) <= PipeCap
  /\ go \in {"idle", "write", "line", "body", "failed", "gone"}
  /\ php \in {"line", "body", "handle", "write", "spin", "exited"}
  /\ goOut \in Seq(Piece) /\ phpOut \in Seq(Piece)
  /\ goLeft \in Nat /\ phpLeft \in Nat /\ goBuf \in Bytes /\ phpBuf \in Bytes
  /\ given \in Seq(Bytes) /\ got \in Seq(Result) /\ Len(got) <= Exchanges
  /\ killed \in BOOLEAN /\ cut \in BOOLEAN

\* What the client has been told, and PHP was given.
GivenRight == \A i \in 1..Len(given) : given[i] = Encoded(msgs[i])
GotRight ==
  \A i \in 1..Len(got) :
    IF got[i].ok THEN got[i].data \in Replies(kind, Encoded(msgs[i]))
    ELSE killed \/ Unanswerable(msgs[i])

\* The request under way, if there is one.
Current == msgs[Len(got) + 1]
Asked == Encoded(Current)

\* The request is what PHP has read, what is in the pipe, and x.
Incoming(x) ==
  \/ php \in {"line", "write"} /\ stdin \o x = Frame(Asked)
  \/ /\ php = "body" /\ phpLeft # 0 /\ Len(phpBuf) + phpLeft = Len(Asked)
     /\ phpBuf \o (stdin \o x) = Asked
  \/ php = "handle" /\ stdin = <<>> /\ x = <<>> /\ phpBuf = Asked

\* The answer r is what Go has read, what is in the pipe, and x.
Outgoing(r, x) ==
  \/ go \in {"write", "line"} /\ stdout \o x = Frame(r)
  \/ /\ go = "body" /\ Len(goBuf) + goLeft = Len(r)
     /\ goBuf \o (stdout \o x) = r

\* PHP has the rest of the answer to write, or was killed before it had.
Writing(x) ==
  \/ php = "write" /\ x = FlattenSeq(phpOut)
  \/ php = "line" /\ phpOut = <<>> /\ x = <<>>
  \/ php = "exited" /\ killed

\* Between two exchanges.
Resting ==
  /\ go = "idle" /\ Len(given) = Len(got)
  /\ goOut = <<>> /\ stdin = <<>> /\ stdout = <<>>
  /\ \/ php \in {"line", "write"} /\ phpOut = <<>>
     \/ php = "exited" /\ killed

\* The request goes to PHP, which has not handled it.
Asking ==
  /\ go \in {"write", "line"} /\ (go = "line" => goOut = <<>>)
  /\ Len(given) = Len(got) /\ Len(got) < Exchanges /\ stdout = <<>>
  /\ \/ phpOut = <<>> /\ Incoming(FlattenSeq(goOut))
     \/ php = "exited" /\ (killed \/ Unanswerable(Current))

\* PHP has handled it, and answers or has ended.
Telling ==
  /\ go \in {"write", "line", "body"} /\ goOut = <<>> /\ stdin = <<>>
  /\ Len(given) = Len(got) + 1 /\ Len(got) < Exchanges
  /\ \/ \E r \in Replies(kind, Asked), x \in Seq(Nat) : Outgoing(r, x) /\ Writing(x)
     \/ php = "exited" /\ go # "body" /\ stdout = <<>> /\ Unanswerable(Current)

Failed == go = "failed" /\ php = "exited" /\ Len(given) <= Len(got)

\* The server has ended: the rest of a request may never come.
Gone ==
  /\ go = "gone" /\ goOut = <<>> /\ Len(given) <= Len(got) + 1
  /\ \/ php \in {"exited", "spin"}
     \/ php \in {"line", "write"} /\ stdin = <<>>
     \/ /\ Len(given) = Len(got) /\ Len(got) < Exchanges
        /\ \E x \in Seq(Nat) : Incoming(x)

Phase == Resting \/ Asking \/ Telling \/ Failed \/ Gone

Inv == Types /\ GivenRight /\ GotRight /\ Phase
-----------------------------------------------------------------------------
\* What the phases say of one sequence after the other, for numbers.
LEMMA HeadOff ==
  ASSUME NEW s \in Seq(Nat), s # <<>>, NEW x \in Seq(Nat)
  PROVE  /\ Head(s \o x) = Head(s) /\ Tail(s \o x) = Tail(s) \o x
         /\ Tail(s) \in Seq(Nat) /\ Len(Tail(s)) = Len(s) - 1
<1>. DEFINE y == s \o x
            t == Tail(s)
            u == t \o x
            v == Tail(y)
<1>1. /\ Len(s) \in Nat \ {0} /\ Len(x) \in Nat /\ y \in Seq(Nat) /\ Len(y) = Len(s) + Len(x)
      /\ \A i \in 1..(Len(s) + Len(x)) : y[i] = IF i <= Len(s) THEN s[i] ELSE x[i - Len(s)]
  BY EmptySeq, ConcatProperties, LenProperties
<1>2. t \in Seq(Nat) /\ Len(t) = Len(s) - 1 /\ \A i \in 1..(Len(s) - 1) : t[i] = s[i + 1]
  BY HeadTailProperties
<1>. HIDE DEF y, t
<1>3. y # <<>> /\ y[1] = s[1]
  <2>1. 1 \in 1..(Len(s) + Len(x)) /\ 1 <= Len(s) /\ Len(y) # 0
    BY <1>1
  <2>. QED
    BY <1>1, <2>1, EmptySeq
<1>4. v \in Seq(Nat) /\ Len(v) = Len(y) - 1 /\ \A i \in 1..(Len(y) - 1) : v[i] = y[i + 1]
  BY <1>1, <1>3, HeadTailProperties
<1>5. /\ u \in Seq(Nat) /\ Len(u) = Len(t) + Len(x)
      /\ \A i \in 1..(Len(t) + Len(x)) : u[i] = IF i <= Len(t) THEN t[i] ELSE x[i - Len(t)]
  BY <1>2, ConcatProperties
<1>. HIDE DEF u, v
<1>6. Len(v) = Len(u)
  BY <1>1, <1>2, <1>4, <1>5
<1>7. ASSUME NEW i \in 1..Len(v) PROVE v[i] = u[i]
  <2>0. i \in Nat /\ 1 <= i /\ i <= Len(s) + Len(x) - 1
    BY <1>1, <1>4
  <2>1. /\ i \in 1..(Len(y) - 1) /\ i + 1 \in 1..(Len(s) + Len(x)) /\ i \in 1..(Len(t) + Len(x))
        /\ (i + 1 <= Len(s) <=> i <= Len(t)) /\ (i + 1) - Len(s) = i - Len(t)
    <3>1. Len(s) \in Nat /\ Len(x) \in Nat /\ Len(t) = Len(s) - 1 /\ Len(y) = Len(s) + Len(x)
      BY <1>1, <1>2
    <3>. QED
      BY <2>0, <3>1
  <2>2. v[i] = IF i + 1 <= Len(s) THEN s[i + 1] ELSE x[(i + 1) - Len(s)]
    BY <1>1, <1>4, <2>1
  <2>3. i <= Len(t) => i \in 1..(Len(s) - 1)
    BY <1>1, <1>2
  <2>. QED
    BY <1>2, <1>5, <2>1, <2>2, <2>3
<1>8. v = u
  BY <1>4, <1>5, <1>6, <1>7, SeqEqual
<1>9. Head(y) = y[1] /\ Head(s) = s[1]
  BY <1>1, <1>3
<1>. QED
  BY <1>2, <1>3, <1>8, <1>9 DEF y, t, u, v

\* The line that comes first has the length.
LEMMA FrameParts ==
  ASSUME NEW d \in Bytes
  PROVE  Head(Frame(d)) = Base + Len(d) /\ Tail(Frame(d)) = d
<1>. DEFINE x == <<Line(Len(d))>>
<1>1. d \in Seq(Nat) /\ Len(d) \in Nat /\ Base \in Nat
  BY FramedIs, Constants
<1>2. x \in Seq(Nat) /\ x # <<>> /\ Head(x) = Base + Len(d) /\ Tail(x) = <<>>
  BY <1>1 DEF Line
<1>3. Frame(d) = x \o d
  BY DEF Frame
<1>. HIDE DEF x
<1>4. Head(x \o d) = Head(x) /\ Tail(x \o d) = Tail(x) \o d
  BY <1>1, <1>2, HeadOff
<1>5. <<>> \o d = d
  BY <1>1, ConcatEmptySeq
<1>. QED
  BY <1>2, <1>3, <1>4, <1>5

\* n members of s go to the end of b: the lengths, ...
LEMMA Lengths ==
  \A b, s \in Seq(Nat) : \A n \in 0..Len(s) :
    Len(b \o SubSeq(s, 1, n)) = Len(b) + n /\ Len(Drop(s, n)) = Len(s) - n
<1>. SUFFICES ASSUME NEW b \in Seq(Nat), NEW s \in Seq(Nat), NEW n \in 0..Len(s)
              PROVE  Len(b \o SubSeq(s, 1, n)) = Len(b) + n /\ Len(Drop(s, n)) = Len(s) - n
  OBVIOUS
<1>. DEFINE a == SubSeq(s, 1, n)
<1>1. a \in Seq(Nat) /\ Len(a) = n /\ Len(Drop(s, n)) = Len(s) - n
  BY CutAt
<1>. HIDE DEF a
<1>2. Len(b \o a) = Len(b) + n
  BY <1>1, ConcatProperties
<1>. QED
  BY <1>1, <1>2 DEF a

\* ... and the bytes.
LEMMA TakeOff ==
  ASSUME NEW b \in Seq(Nat), NEW s \in Seq(Nat), NEW x \in Seq(Nat), NEW n \in 0..Len(s)
  PROVE  /\ b \o SubSeq(s, 1, n) \in Seq(Nat) /\ Drop(s, n) \in Seq(Nat)
         /\ (b \o SubSeq(s, 1, n)) \o (Drop(s, n) \o x) = b \o (s \o x)
<1>. DEFINE a == SubSeq(s, 1, n)
            d == Drop(s, n)
            y == d \o x
<1>1. /\ a \in Seq(Nat) /\ d \in Seq(Nat) /\ Len(a) = n /\ Len(d) = Len(s) - n
      /\ a \o d = s
  BY CutAt
<1>. HIDE DEF a, d
<1>2. b \o a \in Seq(Nat) /\ Len(b \o a) = Len(b) + n
  BY <1>1, ConcatProperties
<1>3. y \in Seq(Nat)
  BY <1>1, ConcatProperties
<1>0. a \in Seq(Nat) /\ d \in Seq(Nat)
  BY <1>1
<1>4. (a \o d) \o x = a \o (d \o x)
  <2>1. Assoc(a, d, x)
    BY <1>0, Associative
  <2>. QED
    BY <2>1 DEF Assoc
<1>. HIDE DEF y
<1>5. (b \o a) \o y = b \o (a \o y)
  <2>1. Assoc(b, a, y)
    BY <1>0, <1>3, Associative
  <2>. QED
    BY <2>1 DEF Assoc
<1>6. (b \o a) \o y = b \o (s \o x)
  BY <1>1, <1>4, <1>5 DEF y
<1>. QED
  BY <1>1, <1>2, <1>6 DEF a, d, y

\* A buffer that is as long as the message is the message.
LEMMA AllRead ==
  ASSUME NEW b \in Seq(Nat), NEW s \in Seq(Nat), NEW x \in Seq(Nat),
         Len(b) = Len(b \o (s \o x))
  PROVE  s = <<>> /\ x = <<>> /\ b = b \o (s \o x)
<1>. DEFINE y == s \o x
<1>1. y \in Seq(Nat) /\ (y = <<>> => s = <<>> /\ x = <<>>)
  BY ConcatProperties, ConcatEqualIffEmpty
<1>2. Len(b) = Len(b \o y)
  OBVIOUS
<1>. HIDE DEF y
<1>3. Len(b \o y) = Len(b) + Len(y) /\ Len(b) \in Nat /\ Len(y) \in Nat
  BY <1>1, ConcatProperties, LenProperties
<1>4. Len(y) = 0
  BY <1>2, <1>3
<1>5. y = <<>>
  BY <1>1, <1>4, EmptySeq
<1>6. b \o y = b
  BY <1>5, ConcatEmptySeq
<1>. QED
  BY <1>1, <1>5, <1>6 DEF y
-----------------------------------------------------------------------------
(* The steps of the client.                                                *)

\* The request under way is one that can be sent, handled and answered.
LEMMA CurrentIs ==
  ASSUME Types, Len(got) < Exchanges
  PROVE  /\ Current \in Requests[kind] /\ Asked \in Bytes
         /\ Asked \in Seq(Nat) /\ Len(Asked) \in Nat
         /\ Framed(Asked) \in Seq(Piece) /\ FlattenSeq(Framed(Asked)) = Frame(Asked)
         /\ Frame(Asked) \in Seq(Nat) /\ Frame(Asked) = <<Line(Len(Asked))>> \o Asked
         /\ Len(Asked) = 0 => Unanswerable(Current)
         /\ Asked \in DOMAIN Program[kind] /\ Program[kind][Asked] = Replies(kind, Asked)
         /\ Replies(kind, Asked) = {} => Unanswerable(Current)
         /\ \A r \in Replies(kind, Asked) : r \in Bytes
<1>1. Len(got) + 1 \in 1..Exchanges
  <2>1. Len(got) \in Nat /\ Exchanges \in Nat
    BY LenProperties, WireAssumption DEF Types
  <2>. QED
    BY <2>1
<1>2. Current \in Requests[kind] /\ kind \in DOMAIN Requests
  BY <1>1 DEF Types, Current
<1>. HIDE DEF Current
<1>3. /\ Asked \in Bytes /\ Asked \in DOMAIN Program[kind]
      /\ Program[kind][Asked] = Replies(kind, Asked)
  BY <1>2, RequestCoded DEF Asked
<1>4. /\ Replies(kind, Asked) = {} => Unanswerable(Current)
      /\ \A r \in Replies(kind, Asked) : r \in Bytes
  BY <1>2, AllReplies DEF Asked
<1>5. Len(Asked) = 0 => Unanswerable(Current)
  <2>1. SUFFICES ASSUME Len(Asked) = 0 PROVE Unanswerable(Current)
    OBVIOUS
  <2>2. kind = "raw" /\ Asked = Current
    BY <1>2, <2>1, RequestCoded DEF Asked
  <2>3. Asked = <<>>
    BY <1>3, <2>1, EmptySeq DEF Bytes
  <2>. QED
    BY <2>2, <2>3 DEF Unanswerable
<1>. HIDE DEF Asked
<1>6. /\ Framed(Asked) \in Seq(Piece) /\ FlattenSeq(Framed(Asked)) = Frame(Asked)
      /\ Frame(Asked) \in Seq(Nat) /\ Asked \in Seq(Nat) /\ Len(Asked) \in Nat
  BY <1>3, FramedIs
<1>. QED
  BY <1>2, <1>3, <1>4, <1>5, <1>6 DEF Frame

\* What neither the pipes nor the two programs change.
LEMMA Unmoved ==
  ASSUME UNCHANGED <<kind, msgs, got, given>>
  PROVE  /\ Current' = Current /\ Asked' = Asked
         /\ GivenRight => GivenRight'
         /\ killed' = killed => (GotRight => GotRight')
         /\ \A m : Unanswerable(m)' = Unanswerable(m)
<1>1. Current' = Current /\ \A m : Encoded(m)' = Encoded(m)
  BY DEF Current, Encoded
<1>2. Asked' = Asked
  BY DEF Asked, Current, Encoded
<1>3. \A m : Unanswerable(m)' = Unanswerable(m)
  BY DEF Unanswerable
<1>4. GivenRight => GivenRight'
  BY DEF GivenRight, Encoded
<1>5. killed' = killed => (GotRight => GotRight')
  BY DEF GotRight, Encoded, Unanswerable
<1>. QED
  BY <1>1, <1>2, <1>3, <1>4, <1>5

\* The frame of the request is all to be written.
LEMMA SendKeeps ==
  ASSUME Inv, Send
  PROVE  Inv'
<1>0. Types /\ GivenRight /\ GotRight /\ Phase
  BY DEF Inv
<1>1. Resting /\ Len(got) < Exchanges
  BY <1>0 DEF Phase, Resting, Asking, Telling, Failed, Gone, Send
<1>2. UNCHANGED <<kind, msgs, got, given>> /\ killed' = killed
  BY DEF Send, phpVars
<1>3. /\ Framed(Asked) \in Seq(Piece) /\ FlattenSeq(Framed(Asked)) = Frame(Asked)
      /\ Frame(Asked) \in Seq(Nat)
  BY <1>0, <1>1, CurrentIs
<1>4. go' = "write" /\ goOut' = Framed(Asked) /\ UNCHANGED <<stdin, stdout, goLeft, goBuf, phpVars, cut>>
  BY DEF Send, Asked, Current
<1>5. Types'
  BY <1>0, <1>2, <1>3, <1>4 DEF Types, phpVars
<1>6. Asking'
  <2>1. Asked' = Asked /\ Current' = Current
    BY <1>2, Unmoved
  <2>2. Len(given') = Len(got') /\ Len(got') < Exchanges /\ stdout' = <<>> /\ stdin' = <<>>
    BY <1>1, <1>2, <1>4 DEF Resting
  <2>3. CASE php \in {"line", "write"} /\ phpOut = <<>>
    <3>1. <<>> \o Frame(Asked) = Frame(Asked)
      BY <1>3, ConcatEmptySeq
    <3>2. stdin' \o FlattenSeq(goOut') = Frame(Asked')
      BY <1>3, <1>4, <2>1, <2>2, <3>1
    <3>3. php' \in {"line", "write"} /\ phpOut' = <<>>
      BY <1>4, <2>3 DEF phpVars
    <3>. QED
      BY <1>4, <2>2, <3>2, <3>3 DEF Asking, Incoming
  <2>4. CASE php = "exited" /\ killed
    BY <1>2, <1>4, <2>2, <2>4 DEF Asking, phpVars
  <2>. QED
    BY <1>1, <2>3, <2>4 DEF Resting
<1>7. GivenRight' /\ GotRight'
  BY <1>0, <1>2, Unmoved
<1>. QED
  BY <1>5, <1>6, <1>7 DEF Inv, Phase

\* Some of the frame moves into the pipe; nothing of it is lost.
LEMMA GoWritesKeeps ==
  ASSUME Inv, GoWrites
  PROVE  Inv'
<1>0. Types /\ GivenRight /\ GotRight /\ Phase
  BY DEF Inv
<1>1. go = "write" /\ goOut # <<>> /\ php # "exited" /\ Len(stdin) < PipeCap
      /\ stdin' = Moved(stdin, goOut) /\ goOut' = Left(stdin, goOut)
      /\ UNCHANGED <<kind, msgs, stdout, go, goLeft, goBuf, got, phpVars, killed, cut>>
  BY DEF GoWrites
<1>2. Asking /\ phpOut = <<>> /\ Incoming(FlattenSeq(goOut))
  BY <1>0, <1>1 DEF Phase, Resting, Asking, Telling, Failed, Gone
<1>3. UNCHANGED <<kind, msgs, got, given>> /\ killed' = killed
  BY <1>1 DEF phpVars
<1>. DEFINE x == FlattenSeq(goOut)
            y == FlattenSeq(goOut')
<1>4. /\ stdin' \in Seq(Nat) /\ goOut' \in Seq(Piece) /\ Len(stdin') <= PipeCap
      /\ x \in Seq(Nat) /\ y \in Seq(Nat) /\ stdin' \o y = stdin \o x
  BY <1>0, <1>1, Moving DEF Types
<1>5. Types'
  BY <1>0, <1>1, <1>4 DEF Types, phpVars
<1>6. x # <<>>
  BY <1>0, <1>1, NothingLeft DEF Types
<1>7. Asked' = Asked
  BY <1>3, Unmoved
<1>. HIDE DEF x, y
<1>8. \/ php' \in {"line", "write"} /\ stdin' \o y = Frame(Asked')
      \/ php' = "body" /\ phpLeft' # 0 /\ Len(phpBuf') + phpLeft' = Len(Asked') /\ phpBuf' \o (stdin' \o y) = Asked'
  <2>1. php' = php /\ phpLeft' = phpLeft /\ phpBuf' = phpBuf
    BY <1>1 DEF phpVars
  <2>2. \/ php \in {"line", "write"} /\ stdin \o x = Frame(Asked)
        \/ php = "body" /\ phpLeft # 0 /\ Len(phpBuf) + phpLeft = Len(Asked) /\ phpBuf \o (stdin \o x) = Asked
    BY <1>2, <1>6 DEF Incoming, x
  <2>. QED
    BY <1>4, <1>7, <2>1, <2>2
<1>9. go' = "write" /\ Len(given') = Len(got') /\ Len(got') < Exchanges /\ stdout' = <<>> /\ phpOut' = <<>>
  BY <1>1, <1>2 DEF Asking, phpVars
<1>10. Asking'
  BY <1>8, <1>9 DEF Asking, Incoming, y
<1>11. GivenRight' /\ GotRight'
  BY <1>0, <1>3, Unmoved
<1>. QED
  BY <1>5, <1>10, <1>11 DEF Inv, Phase

\* Nothing is left to write: the request is in the pipe, or PHP has it.
LEMMA WrittenKeeps ==
  ASSUME Inv, Written
  PROVE  Inv'
<1>0. Types /\ GivenRight /\ GotRight /\ Phase
  BY DEF Inv
<1>1. go = "write" /\ goOut = <<>> /\ go' = "line"
      /\ UNCHANGED <<kind, msgs, stdin, stdout, goOut, goLeft, goBuf, got, phpVars, killed, cut>>
  BY DEF Written
<1>2. UNCHANGED <<kind, msgs, got, given>> /\ killed' = killed
  BY <1>1 DEF phpVars
<1>3. Types'
  BY <1>0, <1>1 DEF Types, phpVars
<1>4. Asked' = Asked /\ Current' = Current /\ GivenRight' /\ GotRight'
      /\ Unanswerable(Current') = Unanswerable(Current) /\ \A m : Unanswerable(m)' = Unanswerable(m)
  BY <1>0, <1>2, Unmoved
<1>5. Asking \/ Telling
  BY <1>0, <1>1 DEF Phase, Resting, Failed, Gone
<1>6. CASE Asking
  <2>1. Asking'
    BY <1>1, <1>4, <1>6 DEF Asking, Incoming, phpVars, Unanswerable, Current
  <2>. QED
    BY <1>3, <1>4, <2>1 DEF Inv, Phase
<1>7. CASE Telling
  <2>1. Telling'
    BY <1>1, <1>4, <1>7 DEF Telling, Outgoing, Writing, phpVars, Unanswerable, Current
  <2>. QED
    BY <1>3, <1>4, <2>1 DEF Inv, Phase
<1>. QED
  BY <1>5, <1>6, <1>7

\* The length Go reads is that of the answer.
LEMMA GoReadsLineKeeps ==
  ASSUME Inv, GoReadsLine
  PROVE  Inv'
<1>0. Types /\ GivenRight /\ GotRight /\ Phase
  BY DEF Inv
<1>1. /\ go = "line" /\ stdout # <<>> /\ go' = "body" /\ goLeft' = Head(stdout) - Base /\ goBuf' = <<>>
      /\ stdout' = Tail(stdout)
      /\ UNCHANGED <<kind, msgs, stdin, goOut, got, phpVars, killed, cut>>
  BY DEF GoReadsLine
<1>2. UNCHANGED <<kind, msgs, got, given>> /\ killed' = killed
  BY <1>1 DEF phpVars
<1>3. Telling
  BY <1>0, <1>1 DEF Phase, Resting, Asking, Failed, Gone
<1>4. PICK r \in Replies(kind, Asked), x \in Seq(Nat) : Outgoing(r, x) /\ Writing(x)
  BY <1>1, <1>3 DEF Telling
<1>5. stdout \o x = Frame(r)
  BY <1>1, <1>4 DEF Outgoing
<1>6. r \in Bytes /\ r \in Seq(Nat) /\ Len(r) \in Nat /\ Base \in Nat
  <2>1. r \in Bytes
    BY <1>0, <1>3, <1>4, CurrentIs DEF Telling
  <2>. QED
    BY <2>1, FramedIs, Constants
<1>7. Head(stdout) = Base + Len(r) /\ stdout' \in Seq(Nat) /\ stdout' \o x = r
  <2>1. stdout \in Seq(Nat)
    BY <1>0 DEF Types
  <2>2. /\ Head(stdout \o x) = Head(stdout) /\ Tail(stdout \o x) = Tail(stdout) \o x
        /\ Tail(stdout) \in Seq(Nat)
    BY <1>1, <2>1, HeadOff
  <2>3. Head(Frame(r)) = Base + Len(r) /\ Tail(Frame(r)) = r
    BY <1>6, FrameParts
  <2>. QED
    BY <1>1, <1>5, <2>2, <2>3
<1>8. goLeft' = Len(r)
  BY <1>1, <1>6, <1>7
<1>9. Len(stdout') <= PipeCap
  <2>1. stdout \in Seq(Nat) /\ Len(stdout) <= PipeCap /\ PipeCap \in Nat
    BY <1>0, WireAssumption DEF Types
  <2>2. Len(stdout') = Len(stdout) - 1 /\ Len(stdout) \in Nat
    BY <1>1, <2>1, HeadTailProperties, LenProperties
  <2>. QED
    BY <2>1, <2>2
<1>10. <<>> \in Bytes /\ Len(<<>>) = 0 /\ <<>> \o (stdout' \o x) = r
  BY <1>6, <1>7, EmptySeq, ConcatEmptySeq DEF Bytes
<1>11. Types'
  BY <1>0, <1>1, <1>6, <1>7, <1>8, <1>9, <1>10 DEF Types, phpVars
<1>12. Asked' = Asked /\ Current' = Current /\ GivenRight' /\ GotRight'
  BY <1>0, <1>2, Unmoved
<1>13. Outgoing(r, x)' /\ Writing(x)'
  <2>1. Outgoing(r, x)'
    <3>1. Len(goBuf') + goLeft' = Len(r)
      BY <1>1, <1>6, <1>8, <1>10
    <3>2. goBuf' \o (stdout' \o x) = r /\ go' = "body"
      BY <1>1, <1>10, Zenon
    <3>. QED
      BY <3>1, <3>2, Zenon DEF Outgoing
  <2>2. Writing(x)'
    BY <1>1, <1>4 DEF Writing, phpVars
  <2>. QED
    BY <2>1, <2>2
<1>14. Telling'
  <2>1. r \in Replies(kind', Asked')
    BY <1>1, <1>4, <1>12
  <2>2. /\ go' \in {"write", "line", "body"} /\ goOut' = <<>> /\ stdin' = <<>>
        /\ Len(given') = Len(got') + 1 /\ Len(got') < Exchanges
    BY <1>1, <1>3 DEF Telling, phpVars
  <2>. QED
    BY <1>13, <2>1, <2>2 DEF Telling
<1>. QED
  BY <1>11, <1>12, <1>14 DEF Inv, Phase

\* Some of the answer moves from the pipe into the buffer.
LEMMA GoReadsKeeps ==
  ASSUME Inv, GoReads
  PROVE  Inv'
<1>0. Types /\ GivenRight /\ GotRight /\ Phase
  BY DEF Inv
<1>1. /\ go = "body" /\ go' = go
      /\ UNCHANGED <<kind, msgs, stdin, goOut, got, phpVars, killed, cut>>
  BY DEF GoReads
<1>2. PICK n \in 1..Min({goLeft, Chunk, Len(stdout)}) :
        /\ goBuf' = goBuf \o SubSeq(stdout, 1, n) /\ stdout' = Drop(stdout, n)
        /\ goLeft' = goLeft - n
  BY DEF GoReads
<1>3. UNCHANGED <<kind, msgs, got, given>> /\ killed' = killed
  BY <1>1 DEF phpVars
<1>4. Telling
  BY <1>0, <1>1 DEF Phase, Resting, Asking, Failed, Gone
<1>5. PICK r \in Replies(kind, Asked), x \in Seq(Nat) : Outgoing(r, x) /\ Writing(x)
  BY <1>1, <1>4 DEF Telling
<1>6. goBuf \o (stdout \o x) = r /\ Len(goBuf) + goLeft = Len(r)
  BY <1>1, <1>5 DEF Outgoing
<1>7. stdout \in Seq(Nat) /\ Len(stdout) \in Nat /\ goBuf \in Seq(Nat) /\ Len(goBuf) \in Nat /\ goLeft \in Nat
      /\ Len(stdout) <= PipeCap /\ PipeCap \in Nat
  <2>1. stdout \in Seq(Nat) /\ goBuf \in Bytes /\ goLeft \in Nat /\ Len(stdout) <= PipeCap
    BY <1>0 DEF Types
  <2>2. PipeCap \in Nat
    BY WireAssumption
  <2>. QED
    BY <2>1, <2>2, FramedIs, LenProperties
<1>8. n \in 1..Len(stdout) /\ n <= goLeft
  <2>1. Chunk \in Nat
    BY WireAssumption
  <2>. DEFINE m == Min({goLeft, Chunk, Len(stdout)})
  <2>2. m \in {goLeft, Chunk, Len(stdout)} /\ m <= goLeft /\ m <= Len(stdout)
    <3>1. goLeft \in Int /\ Chunk \in Int /\ Len(stdout) \in Int
      BY <1>7, <2>1
    <3>. DEFINE l == Len(stdout)
    <3>. HIDE DEF l
    <3>2. /\ Min({goLeft, Chunk, l}) \in {goLeft, Chunk, l}
          /\ Min({goLeft, Chunk, l}) <= goLeft /\ Min({goLeft, Chunk, l}) <= l
      BY <3>1, MinOfThree DEF l
    <3>. QED
      BY <3>2 DEF l
  <2>3. n \in 1..m
    OBVIOUS
  <2>. HIDE DEF m
  <2>. QED
    BY <1>7, <2>1, <2>2, <2>3
<1>9. /\ goBuf' \in Seq(Nat) /\ Len(goBuf') = Len(goBuf) + n
      /\ stdout' \in Seq(Nat) /\ Len(stdout') = Len(stdout) - n
      /\ goBuf' \o (stdout' \o x) = goBuf \o (stdout \o x)
  <2>1. n \in 0..Len(stdout)
    BY <1>8
  <2>2. goBuf \o SubSeq(stdout, 1, n) \in Seq(Nat) /\ Drop(stdout, n) \in Seq(Nat)
    BY <1>7, <2>1, TakeOff, Zenon
  <2>4. Len(goBuf \o SubSeq(stdout, 1, n)) = Len(goBuf) + n /\ Len(Drop(stdout, n)) = Len(stdout) - n
    BY <1>7, <2>1, Lengths
  <2>3. (goBuf \o SubSeq(stdout, 1, n)) \o (Drop(stdout, n) \o x) = goBuf \o (stdout \o x)
    BY <1>7, <2>1, TakeOff, Zenon
  <2>. QED
    BY <1>2, <2>2, <2>3, <2>4, Zenon
<1>10. goBuf' \in Bytes
  <2>1. r \in Seq(Byte)
    BY <1>0, <1>4, <1>5, CurrentIs DEF Telling, Bytes
  <2>. DEFINE y == stdout' \o x
              b == goBuf'
  <2>2. y \in Seq(Nat) /\ b \o y = r /\ b \in Seq(Nat)
    BY <1>6, <1>9, ConcatProperties
  <2>. HIDE DEF y, b
  <2>3. b \in Seq(Byte)
    BY <2>1, <2>2, PartsOf
  <2>. QED
    BY <2>3 DEF Bytes, b
<1>11. goLeft' \in Nat /\ Len(goBuf') + goLeft' = Len(r) /\ Len(stdout') <= PipeCap
  <2>1. goLeft' = goLeft - n /\ n \in Nat /\ n <= goLeft /\ n <= Len(stdout)
    BY <1>2, <1>7, <1>8
  <2>2. Len(r) = Len(goBuf) + goLeft
    BY <1>6
  <2>. QED
    BY <1>7, <1>9, <2>1, <2>2
<1>12. Types'
  BY <1>0, <1>1, <1>9, <1>10, <1>11 DEF Types, phpVars
<1>13. Asked' = Asked /\ GivenRight' /\ GotRight'
  BY <1>0, <1>3, Unmoved
<1>14. Outgoing(r, x)' /\ Writing(x)'
  <2>1. Outgoing(r, x)'
    BY <1>1, <1>6, <1>9, <1>11 DEF Outgoing
  <2>2. Writing(x)'
    BY <1>1, <1>5 DEF Writing, phpVars
  <2>. QED
    BY <2>1, <2>2
<1>15. Telling'
  <2>1. r \in Replies(kind', Asked')
    BY <1>1, <1>5, <1>13
  <2>2. /\ go' \in {"write", "line", "body"} /\ goOut' = <<>> /\ stdin' = <<>>
        /\ Len(given') = Len(got') + 1 /\ Len(got') < Exchanges
    BY <1>1, <1>4 DEF Telling, phpVars
  <2>. QED
    BY <1>14, <2>1, <2>2 DEF Telling
<1>. QED
  BY <1>12, <1>13, <1>15 DEF Inv, Phase

\* One more result, that is right.
LEMMA GotGrows ==
  ASSUME Types, GivenRight, GotRight, Len(got) < Exchanges, NEW x \in Result,
         got' = Append(got, x), UNCHANGED <<kind, msgs, given, killed>>,
         IF x.ok THEN x.data \in Replies(kind, Asked) ELSE killed \/ Unanswerable(Current)
  PROVE  /\ got' \in Seq(Result) /\ Len(got') = Len(got) + 1 /\ Len(got') <= Exchanges
         /\ GotRight' /\ GivenRight'
<1>1. got \in Seq(Result) /\ Len(got) \in Nat /\ Exchanges \in Nat
  BY LenProperties, WireAssumption DEF Types
<1>2. /\ got' \in Seq(Result) /\ Len(got') = Len(got) + 1 /\ got'[Len(got) + 1] = x
      /\ \A i \in 1..Len(got) : got'[i] = got[i]
  BY <1>1, AppendProperties
<1>3. ASSUME NEW i \in 1..Len(got')
      PROVE  IF got'[i].ok THEN got'[i].data \in Replies(kind', Encode(kind', msgs'[i]))
             ELSE killed' \/ Unanswerable(msgs[i])'
  <2>0. Unanswerable(msgs[i])' = Unanswerable(msgs[i])
    BY DEF Unanswerable
  <2>1. CASE i \in 1..Len(got)
    BY <1>2, <2>0, <2>1 DEF GotRight, Encoded
  <2>2. CASE i = Len(got) + 1
    <3>1. got'[i] = x
      BY <1>2, <2>2
    <3>2. msgs[i] = Current /\ Encode(kind, msgs[i]) = Asked
      BY <2>2 DEF Current, Asked, Encoded
    <3>. QED
      BY <2>0, <3>1, <3>2
  <2>. QED
    BY <1>1, <1>2, <2>1, <2>2
<1>4. GotRight'
  BY <1>3 DEF GotRight, Encoded
<1>5. GivenRight'
  BY DEF GivenRight, Encoded
<1>. QED
  BY <1>1, <1>2, <1>4, <1>5

\* When as many bytes as the line said have come, they are the answer, and the
\* pipe is empty.
LEMMA GoAnswersKeeps ==
  ASSUME Inv, GoAnswers
  PROVE  Inv'
<1>0. Types /\ GivenRight /\ GotRight /\ Phase
  BY DEF Inv
<1>. DEFINE a == [ok |-> TRUE, data |-> goBuf]
<1>1. /\ go = "body" /\ goLeft = 0 /\ go' = "idle" /\ got' = Append(got, a) /\ goBuf' = <<>>
      /\ UNCHANGED <<kind, msgs, stdin, stdout, goOut, goLeft, phpVars, killed, cut>>
  BY DEF GoAnswers
<1>2. Telling
  BY <1>0, <1>1 DEF Phase, Resting, Asking, Failed, Gone
<1>3. PICK r \in Replies(kind, Asked), x \in Seq(Nat) : Outgoing(r, x) /\ Writing(x)
  BY <1>1, <1>2 DEF Telling
<1>4. goBuf \o (stdout \o x) = r /\ Len(goBuf) + goLeft = Len(r)
  BY <1>1, <1>3 DEF Outgoing
<1>5. stdout \in Seq(Nat) /\ goBuf \in Seq(Nat) /\ Len(goBuf) \in Nat /\ goBuf \in Bytes
  <2>1. stdout \in Seq(Nat) /\ goBuf \in Bytes
    BY <1>0 DEF Types
  <2>. QED
    BY <2>1, FramedIs
<1>6. Len(goBuf) = Len(r)
  BY <1>1, <1>4, <1>5
<1>7. stdout = <<>> /\ x = <<>> /\ goBuf = r
  <2>1. Len(goBuf) = Len(goBuf \o (stdout \o x))
    BY <1>4, <1>6
  <2>2. stdout = <<>> /\ x = <<>> /\ goBuf = goBuf \o (stdout \o x)
    BY <1>5, <2>1, AllRead
  <2>. QED
    BY <1>4, <2>2
<1>8. a \in Result /\ a.ok = TRUE /\ a.data = goBuf
  BY <1>5 DEF Result
<1>. HIDE DEF a
<1>9. /\ got' \in Seq(Result) /\ Len(got') = Len(got) + 1 /\ Len(got') <= Exchanges
      /\ GotRight' /\ GivenRight'
  <2>1. UNCHANGED <<kind, msgs, given, killed>> /\ Len(got) < Exchanges
    BY <1>1, <1>2 DEF Telling, phpVars
  <2>2. IF a.ok THEN a.data \in Replies(kind, Asked) ELSE killed \/ Unanswerable(Current)
    BY <1>3, <1>7, <1>8
  <2>. QED
    BY <1>0, <1>1, <1>8, <2>1, <2>2, GotGrows
<1>10. <<>> \in Bytes
  BY DEF Bytes
<1>11. Types'
  BY <1>0, <1>1, <1>9, <1>10 DEF Types, phpVars
<1>12. \/ php \in {"line", "write"} /\ phpOut = <<>>
       \/ php = "exited" /\ killed
  <2>1. php = "write" /\ x = FlattenSeq(phpOut) => phpOut = <<>>
    BY <1>0, <1>7, NothingLeft DEF Types
  <2>. QED
    BY <1>3, <2>1 DEF Writing
<1>13. Resting'
  BY <1>1, <1>2, <1>7, <1>9, <1>12 DEF Resting, Telling, phpVars
<1>. QED
  BY <1>9, <1>11, <1>13 DEF Inv, Phase

\* An error is due only to a PHP that was killed or could not answer.
LEMMA GoFailsKeeps ==
  ASSUME Inv, GoFails
  PROVE  Inv'
<1>0. Types /\ GivenRight /\ GotRight /\ Phase
  BY DEF Inv
<1>1. /\ php = "exited" /\ go' = "failed" /\ go \in {"write", "line", "body"}
      /\ got' = Append(got, Fail)
      /\ UNCHANGED <<kind, msgs, stdin, stdout, goOut, goLeft, goBuf, phpVars, killed, cut>>
  BY DEF GoFails
<1>2. Asking \/ Telling
  BY <1>0, <1>1 DEF Phase, Resting, Failed, Gone
<1>3. Len(got) < Exchanges /\ Len(given) <= Len(got) + 1 /\ (killed \/ Unanswerable(Current))
  <2>0. Len(got) \in Nat
    BY <1>0, LenProperties DEF Types
  <2>1. CASE Asking
    <3>1. \A y : ~Incoming(y)
      BY <1>1 DEF Incoming
    <3>2. Len(given) = Len(got) /\ Len(got) < Exchanges
      BY <2>1 DEF Asking
    <3>3. Len(given) <= Len(got) + 1
      BY <2>0, <3>2
    <3>. QED
      BY <2>1, <3>1, <3>2, <3>3 DEF Asking
  <2>2. CASE Telling
    <3>1. \A y : Writing(y) => killed
      BY <1>1 DEF Writing
    <3>2. Len(given) = Len(got) + 1 /\ Len(got) < Exchanges
      BY <2>2 DEF Telling
    <3>3. Len(given) <= Len(got) + 1
      BY <2>0, <3>2
    <3>. QED
      BY <2>2, <3>1, <3>2, <3>3 DEF Telling
  <2>. QED
    BY <1>2, <2>1, <2>2
<1>4. /\ got' \in Seq(Result) /\ Len(got') = Len(got) + 1 /\ Len(got') <= Exchanges
      /\ GotRight' /\ GivenRight'
  <2>1. UNCHANGED <<kind, msgs, given, killed>>
    BY <1>1 DEF phpVars
  <2>2. Fail \in Result /\ ~Fail.ok
    BY DEF Result, Fail
  <2>. HIDE DEF Fail
  <2>. QED
    BY <1>0, <1>1, <1>3, <2>1, <2>2, GotGrows
<1>5. Types'
  BY <1>0, <1>1, <1>4 DEF Types, phpVars
<1>6. Failed'
  BY <1>1, <1>3, <1>4 DEF Failed, phpVars
<1>. QED
  BY <1>4, <1>5, <1>6 DEF Inv, Phase

\* What is in the pipe when the server ends is still the beginning of a request.
LEMMA GoEndsKeeps ==
  ASSUME Inv, GoEnds
  PROVE  Inv'
<1>0. Types /\ GivenRight /\ GotRight /\ Phase
  BY DEF Inv
<1>1. /\ go \notin {"failed", "gone"} /\ go' = "gone" /\ goOut' = <<>> /\ cut' \in BOOLEAN
      /\ UNCHANGED <<kind, msgs, stdin, stdout, goLeft, goBuf, got, phpVars, killed>>
  BY DEF GoEnds
<1>2. UNCHANGED <<kind, msgs, got, given>> /\ killed' = killed
  BY <1>1 DEF phpVars
<1>3. Types'
  <2>1. <<>> \in Seq(Piece)
    OBVIOUS
  <2>. QED
    BY <1>0, <1>1, <2>1 DEF Types, phpVars
<1>4. Asked' = Asked /\ GivenRight' /\ GotRight'
  BY <1>0, <1>2, Unmoved
<1>5. Len(given) <= Len(got) + 1
      /\ \/ php \in {"exited", "spin"}
         \/ php \in {"line", "write"} /\ stdin = <<>>
         \/ Len(given) = Len(got) /\ Len(got) < Exchanges /\ \E x \in Seq(Nat) : Incoming(x)
  <2>0. Len(got) \in Nat
    BY <1>0, LenProperties DEF Types
  <2>1. CASE Resting
    BY <2>0, <2>1 DEF Resting
  <2>2. CASE Asking
    <3>1. FlattenSeq(goOut) \in Seq(Nat)
      BY <1>0, NothingLeft DEF Types
    <3>2. Len(given) = Len(got) /\ Len(got) < Exchanges /\ Len(given) <= Len(got) + 1
      BY <2>0, <2>2 DEF Asking
    <3>3. CASE Incoming(FlattenSeq(goOut))
      BY <3>1, <3>2, <3>3
    <3>. QED
      BY <2>2, <3>2, <3>3 DEF Asking
  <2>3. CASE Telling
    <3>1. \A x : Writing(x) => php \in {"line", "write", "exited"}
      BY DEF Writing
    <3>2. Len(given) = Len(got) + 1 /\ stdin = <<>>
      BY <2>3 DEF Telling
    <3>3. Len(given) <= Len(got) + 1
      BY <2>0, <3>2
    <3>. QED
      BY <2>3, <3>1, <3>2, <3>3 DEF Telling
  <2>. QED
    BY <1>0, <1>1, <2>1, <2>2, <2>3 DEF Phase, Failed, Gone
<1>6. \A x : Incoming(x) => Incoming(x)'
  BY <1>1, <1>4 DEF Incoming, phpVars
<1>7. Gone'
  BY <1>1, <1>5, <1>6 DEF Gone, phpVars
<1>. QED
  BY <1>3, <1>4, <1>7 DEF Inv, Phase
-----------------------------------------------------------------------------
(* The steps of PHP.                                                       *)

\* When PHP reads, a request is under way.
LEMMA Reading ==
  ASSUME Inv, \/ php = "line" /\ stdin # <<>>
              \/ php \in {"body", "handle"}
  PROVE  /\ Len(given) = Len(got) /\ Len(got) < Exchanges
         /\ \/ /\ Asking /\ phpOut = <<>>
               /\ FlattenSeq(goOut) \in Seq(Nat) /\ Incoming(FlattenSeq(goOut))
            \/ Gone /\ \E x \in Seq(Nat) : Incoming(x)
<1>1. Types /\ Phase
  BY DEF Inv
<1>2. Asking \/ Gone
  <2>1. \A x : Writing(x) => php \in {"line", "write", "exited"}
    BY DEF Writing
  <2>. QED
    BY <1>1, <2>1 DEF Phase, Resting, Telling, Failed
<1>3. CASE Asking
  <2>1. FlattenSeq(goOut) \in Seq(Nat)
    BY <1>1, NothingLeft DEF Types
  <2>. QED
    BY <1>3, <2>1 DEF Asking
<1>4. CASE Gone
  BY <1>4 DEF Gone
<1>. QED
  BY <1>2, <1>3, <1>4

\* The length PHP reads is that of the request.
LEMMA PhpReadsLineKeeps ==
  ASSUME Inv, PhpReadsLine
  PROVE  Inv'
<1>0. Types /\ GivenRight /\ GotRight /\ Phase
  BY DEF Inv
<1>1. /\ php = "line" /\ stdin # <<>>
      /\ phpLeft' = Head(stdin) - Base /\ phpBuf' = <<>> /\ stdin' = Tail(stdin)
      /\ php' = IF phpLeft' = 0 THEN "exited" ELSE "body"
      /\ UNCHANGED <<kind, msgs, stdout, goVars, phpOut, given, killed, cut>>
  BY DEF PhpReadsLine
<1>2. UNCHANGED <<kind, msgs, got, given>> /\ killed' = killed
  BY <1>1 DEF goVars
<1>3. /\ Len(given) = Len(got) /\ Len(got) < Exchanges
      /\ \/ /\ Asking /\ phpOut = <<>>
            /\ FlattenSeq(goOut) \in Seq(Nat) /\ Incoming(FlattenSeq(goOut))
         \/ Gone /\ \E x \in Seq(Nat) : Incoming(x)
  BY <1>1, Reading
<1>4. Asked \in Bytes /\ Asked \in Seq(Nat) /\ Len(Asked) \in Nat /\ Base \in Nat
      /\ (Len(Asked) = 0 => Unanswerable(Current))
  BY <1>0, <1>3, CurrentIs, Constants
<1>5. Asked' = Asked /\ Current' = Current /\ GivenRight' /\ GotRight'
  BY <1>0, <1>2, Unmoved
<1>6. stdin \in Seq(Nat) /\ stdin' \in Seq(Nat) /\ Len(stdin') <= PipeCap
  <2>1. stdin \in Seq(Nat) /\ Len(stdin) <= PipeCap /\ PipeCap \in Nat
    BY <1>0, WireAssumption DEF Types
  <2>2. Tail(stdin) \in Seq(Nat) /\ Len(Tail(stdin)) = Len(stdin) - 1 /\ Len(stdin) \in Nat
    BY <1>1, <2>1, HeadTailProperties, LenProperties
  <2>. QED
    BY <1>1, <2>1, <2>2
<1>7. ASSUME NEW x \in Seq(Nat), Incoming(x)
      PROVE  /\ Head(stdin) = Base + Len(Asked) /\ stdin' \o x = Asked
             /\ stdin' \o x \in Seq(Nat)
  <2>1. stdin \o x = Frame(Asked)
    BY <1>1, <1>7 DEF Incoming
  <2>2. Head(stdin \o x) = Head(stdin) /\ Tail(stdin \o x) = Tail(stdin) \o x
    BY <1>1, <1>6, HeadOff
  <2>3. Head(Frame(Asked)) = Base + Len(Asked) /\ Tail(Frame(Asked)) = Asked
    BY <1>4, FrameParts
  <2>. QED
    BY <1>1, <1>4, <2>1, <2>2, <2>3
<1>8. phpLeft' = Len(Asked)
  <2>1. Head(stdin) = Base + Len(Asked)
    BY <1>3, <1>7
  <2>. QED
    BY <1>1, <1>4, <2>1
<1>9. Types'
  <2>1. <<>> \in Bytes
    BY DEF Bytes
  <2>. QED
    BY <1>0, <1>1, <1>4, <1>6, <1>8, <2>1 DEF Types, goVars
<1>10. ASSUME NEW x \in Seq(Nat), Incoming(x), phpLeft' # 0
       PROVE  /\ php' = "body" /\ Len(phpBuf') + phpLeft' = Len(Asked')
              /\ phpBuf' \o (stdin' \o x) = Asked'
  <2>1. Len(<<>>) = 0 /\ <<>> \o Asked = Asked
    BY <1>4, EmptySeq, ConcatEmptySeq
  <2>2. stdin' \o x = Asked
    BY <1>7, <1>10
  <2>3. phpBuf' = <<>> /\ php' = "body" /\ phpLeft' = Len(Asked)
    BY <1>1, <1>8, <1>10
  <2>4. Len(phpBuf') + phpLeft' = Len(Asked)
    BY <1>4, <2>1, <2>3
  <2>5. phpBuf' \o (stdin' \o x) = Asked
    BY <2>1, <2>2, <2>3, Zenon
  <2>. QED
    BY <1>5, <2>3, <2>4, <2>5, Zenon
<1>11. CASE Asking /\ phpOut = <<>> /\ FlattenSeq(goOut) \in Seq(Nat) /\ Incoming(FlattenSeq(goOut))
  <2>1. /\ go' \in {"write", "line"} /\ (go' = "line" => goOut' = <<>>) /\ stdout' = <<>>
        /\ phpOut' = <<>> /\ Len(given') = Len(got') /\ Len(got') < Exchanges
    BY <1>1, <1>3, <1>11 DEF Asking, goVars
  <2>2. CASE phpLeft' = 0
    <3>1. Unanswerable(Current)' /\ php' = "exited"
      BY <1>1, <1>2, <1>4, <1>5, <1>8, <2>2 DEF Unanswerable
    <3>. QED
      BY <1>5, <1>9, <2>1, <3>1 DEF Inv, Phase, Asking
  <2>3. CASE phpLeft' # 0
    <3>1. /\ php' = "body" /\ Len(phpBuf') + phpLeft' = Len(Asked')
          /\ phpBuf' \o (stdin' \o FlattenSeq(goOut')) = Asked'
      BY <1>1, <1>10, <1>11, <2>3 DEF goVars
    <3>2. Asking'
      BY <2>1, <2>3, <3>1 DEF Asking, Incoming
    <3>. QED
      BY <1>5, <1>9, <3>2 DEF Inv, Phase
  <2>. QED
    BY <2>2, <2>3
<1>12. CASE Gone /\ \E x \in Seq(Nat) : Incoming(x)
  <2>1. go' = "gone" /\ goOut' = <<>> /\ Len(given') = Len(got') /\ Len(got') < Exchanges
        /\ Len(given') <= Len(got') + 1
    BY <1>1, <1>3, <1>12 DEF Gone, goVars
  <2>2. CASE phpLeft' = 0
    <3>1. php' = "exited"
      BY <1>1, <2>2
    <3>. QED
      BY <1>5, <1>9, <2>1, <3>1 DEF Inv, Phase, Gone
  <2>3. CASE phpLeft' # 0
    <3>1. PICK x \in Seq(Nat) : Incoming(x)
      BY <1>12
    <3>2. Incoming(x)'
      BY <1>10, <2>3, <3>1 DEF Incoming
    <3>. QED
      BY <1>5, <1>9, <2>1, <3>2 DEF Inv, Phase, Gone
  <2>. QED
    BY <2>2, <2>3
<1>. QED
  BY <1>3, <1>11, <1>12

\* Some of the request moves from the pipe into the buffer.
LEMMA PhpReadsKeeps ==
  ASSUME Inv, PhpReads
  PROVE  Inv'
<1>0. Types /\ GivenRight /\ GotRight /\ Phase
  BY DEF Inv
<1>1. /\ php = "body" /\ php' = IF phpLeft' = 0 THEN "handle" ELSE "body"
      /\ UNCHANGED <<kind, msgs, stdout, goVars, phpOut, given, killed, cut>>
  BY DEF PhpReads
<1>2. PICK n \in 1..Min({phpLeft, Chunk, Len(stdin)}) :
        /\ phpBuf' = phpBuf \o SubSeq(stdin, 1, n) /\ stdin' = Drop(stdin, n)
        /\ phpLeft' = phpLeft - n
  BY DEF PhpReads
<1>3. UNCHANGED <<kind, msgs, got, given>> /\ killed' = killed
  BY <1>1 DEF goVars
<1>4. /\ Len(given) = Len(got) /\ Len(got) < Exchanges
      /\ \/ /\ Asking /\ phpOut = <<>>
            /\ FlattenSeq(goOut) \in Seq(Nat) /\ Incoming(FlattenSeq(goOut))
         \/ Gone /\ \E x \in Seq(Nat) : Incoming(x)
  BY <1>1, Reading
<1>5. Asked \in Bytes /\ Asked \in Seq(Nat) /\ Len(Asked) \in Nat
  BY <1>0, <1>4, CurrentIs
<1>6. Asked' = Asked /\ Current' = Current /\ GivenRight' /\ GotRight'
  BY <1>0, <1>3, Unmoved
<1>7. stdin \in Seq(Nat) /\ Len(stdin) \in Nat /\ phpBuf \in Seq(Nat) /\ Len(phpBuf) \in Nat /\ phpLeft \in Nat
      /\ Len(stdin) <= PipeCap /\ PipeCap \in Nat
  <2>1. stdin \in Seq(Nat) /\ phpBuf \in Bytes /\ phpLeft \in Nat /\ Len(stdin) <= PipeCap
    BY <1>0 DEF Types
  <2>2. PipeCap \in Nat
    BY WireAssumption
  <2>. QED
    BY <2>1, <2>2, FramedIs, LenProperties
<1>8. n \in 1..Len(stdin) /\ n <= phpLeft
  <2>1. Chunk \in Nat
    BY WireAssumption
  <2>. DEFINE l == Len(stdin)
              m == Min({phpLeft, Chunk, l})
  <2>2. m \in {phpLeft, Chunk, l} /\ m <= phpLeft /\ m <= l
    <3>1. phpLeft \in Int /\ Chunk \in Int /\ l \in Int
      BY <1>7, <2>1
    <3>. HIDE DEF l
    <3>2. /\ Min({phpLeft, Chunk, l}) \in {phpLeft, Chunk, l}
          /\ Min({phpLeft, Chunk, l}) <= phpLeft /\ Min({phpLeft, Chunk, l}) <= l
      BY <3>1, MinOfThree
    <3>. QED
      BY <3>2
  <2>3. n \in 1..m
    OBVIOUS
  <2>. HIDE DEF m
  <2>. QED
    BY <1>7, <2>1, <2>2, <2>3
<1>9. ASSUME NEW x \in Seq(Nat)
      PROVE  /\ phpBuf' \in Seq(Nat) /\ Len(phpBuf') = Len(phpBuf) + n
             /\ stdin' \in Seq(Nat) /\ Len(stdin') = Len(stdin) - n
             /\ phpBuf' \o (stdin' \o x) = phpBuf \o (stdin \o x)
  <2>1. n \in 0..Len(stdin)
    BY <1>8
  <2>2. phpBuf \o SubSeq(stdin, 1, n) \in Seq(Nat) /\ Drop(stdin, n) \in Seq(Nat)
    BY <1>7, <2>1, TakeOff, Zenon
  <2>4. Len(phpBuf \o SubSeq(stdin, 1, n)) = Len(phpBuf) + n /\ Len(Drop(stdin, n)) = Len(stdin) - n
    BY <1>7, <2>1, Lengths
  <2>3. (phpBuf \o SubSeq(stdin, 1, n)) \o (Drop(stdin, n) \o x) = phpBuf \o (stdin \o x)
    BY <1>7, <2>1, TakeOff, Zenon
  <2>. QED
    BY <1>2, <2>2, <2>3, <2>4, Zenon
<1>10. ASSUME NEW x \in Seq(Nat), Incoming(x)
       PROVE  /\ phpBuf' \in Bytes /\ Len(phpBuf') + phpLeft' = Len(Asked)
              /\ phpBuf' \o (stdin' \o x) = Asked
  <2>1. Len(phpBuf) + phpLeft = Len(Asked) /\ phpBuf \o (stdin \o x) = Asked
    BY <1>1, <1>10 DEF Incoming
  <2>2. phpBuf' \o (stdin' \o x) = Asked
    BY <1>9, <2>1
  <2>3. phpBuf' \in Bytes
    <3>. DEFINE y == stdin' \o x
                b == phpBuf'
    <3>1. y \in Seq(Nat) /\ b \o y = Asked /\ b \in Seq(Nat) /\ Asked \in Seq(Byte)
      BY <1>5, <1>9, <2>2, ConcatProperties DEF Bytes
    <3>. HIDE DEF y, b
    <3>2. b \in Seq(Byte)
      BY <3>1, PartsOf
    <3>. QED
      BY <3>2 DEF Bytes, b
  <2>4. Len(phpBuf') + phpLeft' = Len(Asked)
    <3>1. phpLeft' = phpLeft - n /\ n \in Nat /\ Len(phpBuf') = Len(phpBuf) + n
      BY <1>2, <1>7, <1>8, <1>9
    <3>2. Len(phpBuf) + phpLeft = Len(Asked) /\ Len(phpBuf) \in Nat /\ phpLeft \in Nat
      BY <1>7, <2>1
    <3>. QED
      BY <3>1, <3>2
  <2>. QED
    BY <2>2, <2>3, <2>4
<1>11. phpBuf' \in Bytes /\ stdin' \in Seq(Nat) /\ Len(stdin') <= PipeCap /\ phpLeft' \in Nat
  <2>1. \E x \in Seq(Nat) : Incoming(x)
    BY <1>4
  <2>2. PICK x \in Seq(Nat) : Incoming(x)
    BY <2>1
  <2>3. phpBuf' \in Bytes /\ stdin' \in Seq(Nat) /\ Len(stdin') = Len(stdin) - n
    BY <1>9, <1>10, <2>2
  <2>4. phpLeft' = phpLeft - n /\ n \in Nat /\ n <= phpLeft /\ n <= Len(stdin)
    BY <1>2, <1>7, <1>8
  <2>. QED
    BY <1>7, <2>3, <2>4
<1>12. Types'
  BY <1>0, <1>1, <1>11 DEF Types, goVars
<1>13. ASSUME NEW x \in Seq(Nat), Incoming(x)
       PROVE  \/ /\ php' = "body" /\ phpLeft' # 0 /\ Len(phpBuf') + phpLeft' = Len(Asked')
                 /\ phpBuf' \o (stdin' \o x) = Asked'
              \/ php' = "handle" /\ stdin' = <<>> /\ x = <<>> /\ phpBuf' = Asked'
  <2>1. CASE phpLeft' # 0
    BY <1>1, <1>6, <1>10, <1>13, <2>1
  <2>2. CASE phpLeft' = 0
    <3>. DEFINE b == phpBuf'
                s == stdin'
    <3>1. b \in Seq(Nat) /\ s \in Seq(Nat) /\ b \o (s \o x) = Asked /\ Len(b) \in Nat
      BY <1>9, <1>10, <1>13, LenProperties
    <3>2. Len(b) = Len(Asked)
      BY <1>5, <1>10, <1>13, <2>2, <3>1
    <3>. HIDE DEF b, s
    <3>3. Len(b) = Len(b \o (s \o x))
      BY <3>1, <3>2
    <3>4. s = <<>> /\ x = <<>> /\ b = b \o (s \o x)
      BY <3>1, <3>3, AllRead
    <3>. QED
      BY <1>1, <1>6, <2>2, <3>1, <3>4 DEF b, s
  <2>. QED
    BY <2>1, <2>2
<1>14. CASE Asking /\ phpOut = <<>> /\ FlattenSeq(goOut) \in Seq(Nat) /\ Incoming(FlattenSeq(goOut))
  <2>1. /\ go' \in {"write", "line"} /\ (go' = "line" => goOut' = <<>>) /\ stdout' = <<>>
        /\ phpOut' = <<>> /\ Len(given') = Len(got') /\ Len(got') < Exchanges
    BY <1>1, <1>4, <1>14 DEF Asking, goVars
  <2>2. \/ /\ php' = "body" /\ phpLeft' # 0 /\ Len(phpBuf') + phpLeft' = Len(Asked')
           /\ phpBuf' \o (stdin' \o FlattenSeq(goOut')) = Asked'
        \/ php' = "handle" /\ stdin' = <<>> /\ FlattenSeq(goOut') = <<>> /\ phpBuf' = Asked'
    <3>1. goOut' = goOut
      BY <1>1 DEF goVars
    <3>. QED
      BY <1>13, <1>14, <3>1
  <2>3. Asking'
    BY <2>1, <2>2 DEF Asking, Incoming
  <2>. QED
    BY <1>6, <1>12, <2>3 DEF Inv, Phase
<1>15. CASE Gone /\ \E x \in Seq(Nat) : Incoming(x)
  <2>1. go' = "gone" /\ goOut' = <<>> /\ Len(given') = Len(got') /\ Len(got') < Exchanges
        /\ Len(given') <= Len(got') + 1
    BY <1>1, <1>4, <1>15 DEF Gone, goVars
  <2>2. PICK x \in Seq(Nat) : Incoming(x)
    BY <1>15
  <2>3. Incoming(x)'
    BY <1>13, <2>2 DEF Incoming
  <2>. QED
    BY <1>6, <1>12, <2>1, <2>3 DEF Inv, Phase, Gone
<1>. QED
  BY <1>4, <1>14, <1>15

\* At the end of its input PHP ends, or reads nothing for ever.
LEMMA PhpInputEndsKeeps ==
  ASSUME Inv, PhpInputEnds
  PROVE  Inv'
<1>0. Types /\ GivenRight /\ GotRight /\ Phase
  BY DEF Inv
<1>1. /\ go = "gone" /\ stdin = <<>> /\ php' \in {"exited", "spin"}
      /\ UNCHANGED <<kind, msgs, stdin, stdout, goVars, phpOut, phpLeft, phpBuf, given, killed, cut>>
  BY DEF PhpInputEnds
<1>2. UNCHANGED <<kind, msgs, got, given>> /\ killed' = killed
  BY <1>1 DEF goVars
<1>3. Types'
  BY <1>0, <1>1 DEF Types, goVars
<1>4. Gone'
  BY <1>0, <1>1 DEF Gone, goVars, Phase, Resting, Asking, Telling, Failed
<1>5. GivenRight' /\ GotRight'
  BY <1>0, <1>2, Unmoved
<1>. QED
  BY <1>3, <1>4, <1>5 DEF Inv, Phase

\* The handler gets the request under way, as it was sent, and the answer is one
\* of those it may give.
LEMMA PhpHandlesKeeps ==
  ASSUME Inv, PhpHandles
  PROVE  Inv'
<1>0. Types /\ GivenRight /\ GotRight /\ Phase
  BY DEF Inv
<1>1. /\ php = "handle" /\ given' = Append(given, phpBuf) /\ phpBuf' = <<>>
      /\ UNCHANGED <<kind, msgs, stdin, stdout, goVars, phpLeft, killed, cut>>
  BY DEF PhpHandles
<1>2. /\ Len(given) = Len(got) /\ Len(got) < Exchanges
      /\ \/ /\ Asking /\ phpOut = <<>>
            /\ FlattenSeq(goOut) \in Seq(Nat) /\ Incoming(FlattenSeq(goOut))
         \/ Gone /\ \E x \in Seq(Nat) : Incoming(x)
  BY <1>1, Reading
<1>3. /\ Asked \in Bytes /\ Asked \in DOMAIN Program[kind]
      /\ Program[kind][Asked] = Replies(kind, Asked)
      /\ (Replies(kind, Asked) = {} => Unanswerable(Current))
      /\ \A r \in Replies(kind, Asked) : r \in Bytes
  BY <1>0, <1>2, CurrentIs
<1>4. stdin = <<>> /\ phpBuf = Asked
  BY <1>1, <1>2 DEF Incoming
<1>5. \/ \E r \in Replies(kind, Asked) : php' = "write" /\ phpOut' = Framed(r)
      \/ Replies(kind, Asked) = {} /\ php' = "exited" /\ phpOut' = phpOut
  BY <1>3, <1>4 DEF PhpHandles
<1>6. /\ given' \in Seq(Bytes) /\ Len(given') = Len(given) + 1 /\ given'[Len(given) + 1] = Asked
      /\ Len(given) \in Nat /\ \A i \in 1..Len(given) : given'[i] = given[i]
  <2>1. given \in Seq(Bytes)
    BY <1>0 DEF Types
  <2>. QED
    BY <1>1, <1>3, <1>4, <2>1, AppendProperties, LenProperties
<1>7. Asked' = Asked /\ Current' = Current /\ kind' = kind /\ msgs' = msgs /\ got' = got
  BY <1>1 DEF Asked, Current, Encoded, goVars
<1>8. GivenRight'
  <2>1. ASSUME NEW i \in 1..Len(given') PROVE given'[i] = Encode(kind', msgs'[i])
    <3>1. CASE i \in 1..Len(given)
      BY <1>0, <1>6, <1>7, <3>1 DEF GivenRight, Encoded
    <3>2. CASE i = Len(given) + 1
      BY <1>2, <1>6, <1>7, <3>2 DEF Asked, Current, Encoded
    <3>. QED
      BY <1>6, <3>1, <3>2
  <2>. QED
    BY <2>1 DEF GivenRight, Encoded
<1>9. GotRight'
  BY <1>0, <1>1, <1>7 DEF GotRight, Encoded, Unanswerable
<1>10. ASSUME NEW r \in Replies(kind, Asked)
       PROVE  /\ Framed(r) \in Seq(Piece) /\ FlattenSeq(Framed(r)) = Frame(r)
              /\ Frame(r) \in Seq(Nat) /\ <<>> \o Frame(r) = Frame(r)
  <2>1. r \in Bytes
    BY <1>3
  <2>2. /\ Framed(r) \in Seq(Piece) /\ FlattenSeq(Framed(r)) = Frame(r)
        /\ Frame(r) \in Seq(Nat)
    BY <2>1, FramedIs
  <2>. QED
    BY <2>2, ConcatEmptySeq
<1>11. Types'
  <2>1. <<>> \in Bytes
    BY DEF Bytes
  <2>2. phpOut' \in Seq(Piece) /\ php' \in {"write", "exited"}
    BY <1>0, <1>5, <1>10 DEF Types
  <2>. QED
    BY <1>0, <1>1, <1>6, <2>1, <2>2 DEF Types, goVars
<1>12. CASE Asking /\ FlattenSeq(goOut) \in Seq(Nat) /\ Incoming(FlattenSeq(goOut))
  <2>1. FlattenSeq(goOut) = <<>>
    BY <1>1, <1>12 DEF Incoming
  <2>2. goOut = <<>>
    BY <1>0, <2>1, NothingLeft DEF Types
  <2>3. /\ go' \in {"write", "line"} /\ goOut' = <<>> /\ stdin' = <<>> /\ stdout' = <<>>
        /\ Len(given') = Len(got') + 1 /\ Len(got') < Exchanges
    BY <1>1, <1>2, <1>4, <1>6, <1>12, <2>2 DEF Asking, goVars
  <2>4. CASE \E r \in Replies(kind, Asked) : php' = "write" /\ phpOut' = Framed(r)
    <3>1. PICK r \in Replies(kind, Asked) : php' = "write" /\ phpOut' = Framed(r)
      BY <2>4
    <3>2. PICK x \in Seq(Nat) : x = Frame(r)
      BY <1>10
    <3>3. Outgoing(r, x)'
      BY <1>10, <2>3, <3>2 DEF Outgoing
    <3>4. Writing(x)'
      BY <1>10, <3>1, <3>2 DEF Writing
    <3>5. r \in Replies(kind', Asked')
      BY <1>7
    <3>6. Telling'
      BY <2>3, <3>3, <3>4, <3>5 DEF Telling
    <3>. QED
      BY <1>8, <1>9, <1>11, <3>6 DEF Inv, Phase
  <2>5. CASE Replies(kind, Asked) = {} /\ php' = "exited"
    <3>1. Unanswerable(Current)'
      BY <1>3, <1>7, <2>5 DEF Unanswerable
    <3>2. Telling'
      BY <2>3, <2>5, <3>1 DEF Telling
    <3>. QED
      BY <1>8, <1>9, <1>11, <3>2 DEF Inv, Phase
  <2>. QED
    BY <1>5, <2>4, <2>5
<1>13. CASE Gone
  <2>1. php' \in {"write", "exited"} /\ stdin' = <<>> /\ go' = "gone" /\ goOut' = <<>>
    BY <1>1, <1>4, <1>5, <1>13 DEF Gone, goVars
  <2>2. Len(given') <= Len(got') + 1
    <3>1. Len(given') = Len(given) + 1 /\ Len(got') = Len(given)
      BY <1>2, <1>6, <1>7
    <3>. QED
      BY <1>6, <3>1
  <2>3. Gone'
    BY <2>1, <2>2 DEF Gone
  <2>. QED
    BY <1>8, <1>9, <1>11, <2>3 DEF Inv, Phase
<1>. QED
  BY <1>2, <1>12, <1>13

\* Some of the answer moves into the pipe.
LEMMA PhpWritesKeeps ==
  ASSUME Inv, PhpWrites
  PROVE  Inv'
<1>0. Types /\ GivenRight /\ GotRight /\ Phase
  BY DEF Inv
<1>1. /\ php = "write" /\ phpOut # <<>>
      /\ UNCHANGED <<kind, msgs, stdin, goVars, php, phpLeft, phpBuf, given, killed, cut>>
  BY DEF PhpWrites
<1>2. UNCHANGED <<kind, msgs, got, given>> /\ killed' = killed
  BY <1>1 DEF goVars
<1>3. Asked' = Asked /\ Current' = Current /\ GivenRight' /\ GotRight'
  BY <1>0, <1>2, Unmoved
<1>4. CASE go = "gone"
  <2>1. phpOut' = <<>> /\ stdout' = stdout
    BY <1>4 DEF PhpWrites
  <2>2. Types'
    <3>1. <<>> \in Seq(Piece)
      OBVIOUS
    <3>. QED
      BY <1>0, <1>1, <2>1, <3>1 DEF Types, goVars
  <2>3. Gone
    BY <1>0, <1>4 DEF Phase, Resting, Asking, Telling, Failed
  <2>4. \A x : Incoming(x) => Incoming(x)'
    BY <1>1, <1>3 DEF Incoming
  <2>5. Gone'
    BY <1>1, <2>3, <2>4 DEF Gone, goVars
  <2>. QED
    BY <1>3, <2>2, <2>5 DEF Inv, Phase
<1>5. CASE go # "gone"
  <2>1. Len(stdout) < PipeCap /\ stdout' = Moved(stdout, phpOut) /\ phpOut' = Left(stdout, phpOut)
    BY <1>5 DEF PhpWrites
  <2>2. /\ stdout' \in Seq(Nat) /\ phpOut' \in Seq(Piece) /\ Len(stdout') <= PipeCap
        /\ FlattenSeq(phpOut') \in Seq(Nat)
        /\ stdout' \o FlattenSeq(phpOut') = stdout \o FlattenSeq(phpOut)
    BY <1>0, <1>1, <2>1, Moving DEF Types
  <2>3. Types'
    BY <1>0, <1>1, <2>2 DEF Types, goVars
  <2>4. Telling
    BY <1>0, <1>1, <1>5 DEF Phase, Resting, Asking, Failed, Gone
  <2>5. PICK r \in Replies(kind, Asked), x \in Seq(Nat) : Outgoing(r, x) /\ Writing(x)
    BY <1>1, <2>4 DEF Telling
  <2>6. x = FlattenSeq(phpOut)
    BY <1>1, <2>5 DEF Writing
  <2>7. PICK y \in Seq(Nat) : y = FlattenSeq(phpOut')
    BY <2>2
  <2>8. stdout' \o y = stdout \o x
    BY <2>2, <2>6, <2>7
  <2>9. Outgoing(r, y)'
    BY <1>1, <2>5, <2>8 DEF Outgoing, goVars
  <2>10. Writing(y)'
    BY <1>1, <2>7 DEF Writing
  <2>11. r \in Replies(kind', Asked')
    BY <1>1, <1>3
  <2>12. /\ go' \in {"write", "line", "body"} /\ goOut' = <<>> /\ stdin' = <<>>
         /\ Len(given') = Len(got') + 1 /\ Len(got') < Exchanges
    BY <1>1, <2>4 DEF Telling, goVars
  <2>13. Telling'
    BY <2>9, <2>10, <2>11, <2>12 DEF Telling
  <2>. QED
    BY <1>3, <2>3, <2>13 DEF Inv, Phase
<1>. QED
  BY <1>4, <1>5

\* All of the answer is in the pipe, or Go has it.
LEMMA PhpSentKeeps ==
  ASSUME Inv, PhpSent
  PROVE  Inv'
<1>0. Types /\ GivenRight /\ GotRight /\ Phase
  BY DEF Inv
<1>1. /\ php = "write" /\ phpOut = <<>> /\ php' = "line"
      /\ UNCHANGED <<kind, msgs, stdin, stdout, goVars, phpOut, phpLeft, phpBuf, given, killed, cut>>
  BY DEF PhpSent
<1>2. UNCHANGED <<kind, msgs, got, given>> /\ killed' = killed
  BY <1>1 DEF goVars
<1>3. Asked' = Asked /\ Current' = Current /\ GivenRight' /\ GotRight'
  BY <1>0, <1>2, Unmoved
<1>4. Types'
  BY <1>0, <1>1 DEF Types, goVars
<1>5. \A x : Incoming(x) => Incoming(x)'
  BY <1>1, <1>3 DEF Incoming
<1>6. \A x : Writing(x) => Writing(x)'
  BY <1>1, FlattenNothing DEF Writing
<1>7. \A r, x : Outgoing(r, x) => Outgoing(r, x)'
  BY <1>1 DEF Outgoing, goVars
<1>8. CASE Resting
  <2>1. Resting'
    BY <1>1, <1>8 DEF Resting, goVars
  <2>. QED
    BY <1>3, <1>4, <2>1 DEF Inv, Phase
<1>9. CASE Asking
  <2>1. Incoming(FlattenSeq(goOut)) /\ goOut' = goOut /\ stdin' = stdin
    BY <1>1, <1>9 DEF Asking, goVars
  <2>2. php' = "line" /\ stdin' \o FlattenSeq(goOut') = Frame(Asked')
    BY <1>1, <1>3, <2>1 DEF Incoming
  <2>3. Asking'
    BY <1>1, <1>9, <2>2 DEF Asking, Incoming, goVars
  <2>. QED
    BY <1>3, <1>4, <2>3 DEF Inv, Phase
<1>10. CASE Telling
  <2>1. PICK r \in Replies(kind, Asked), x \in Seq(Nat) : Outgoing(r, x) /\ Writing(x)
    BY <1>1, <1>10 DEF Telling
  <2>2. Outgoing(r, x)' /\ Writing(x)' /\ r \in Replies(kind', Asked')
    BY <1>1, <1>3, <1>6, <1>7, <2>1
  <2>3. Telling'
    BY <1>1, <1>10, <2>2 DEF Telling, goVars
  <2>. QED
    BY <1>3, <1>4, <2>3 DEF Inv, Phase
<1>11. CASE Gone
  <2>1. Gone'
    BY <1>1, <1>5, <1>11 DEF Gone, goVars
  <2>. QED
    BY <1>3, <1>4, <2>1 DEF Inv, Phase
<1>. QED
  BY <1>0, <1>1, <1>8, <1>9, <1>10, <1>11 DEF Phase, Failed

\* A killed PHP leaves what is in the pipes.
LEMMA PhpKilledKeeps ==
  ASSUME Inv, PhpKilled
  PROVE  Inv'
<1>0. Types /\ GivenRight /\ GotRight /\ Phase
  BY DEF Inv
<1>1. /\ php \notin {"spin", "exited"} /\ php' = "exited" /\ killed' = TRUE
      /\ UNCHANGED <<kind, msgs, stdin, stdout, goVars, phpOut, phpLeft, phpBuf, given, cut>>
  BY DEF PhpKilled
<1>2. UNCHANGED <<kind, msgs, got, given>>
  BY <1>1 DEF goVars
<1>3. Asked' = Asked /\ GivenRight'
  BY <1>0, <1>2, Unmoved
<1>4. GotRight'
  BY <1>0, <1>1, <1>2 DEF GotRight, Encoded
<1>5. Types'
  BY <1>0, <1>1 DEF Types, goVars
<1>6. CASE Resting
  <2>1. Resting'
    BY <1>1, <1>6 DEF Resting, goVars
  <2>. QED
    BY <1>3, <1>4, <1>5, <2>1 DEF Inv, Phase
<1>7. CASE Asking
  <2>1. Asking'
    BY <1>1, <1>7 DEF Asking, goVars
  <2>. QED
    BY <1>3, <1>4, <1>5, <2>1 DEF Inv, Phase
<1>8. CASE Telling
  <2>1. PICK r \in Replies(kind, Asked), x \in Seq(Nat) : Outgoing(r, x) /\ Writing(x)
    BY <1>1, <1>8 DEF Telling
  <2>2. Outgoing(r, x)' /\ Writing(x)' /\ r \in Replies(kind', Asked')
    BY <1>1, <1>3, <2>1 DEF Outgoing, Writing, goVars
  <2>3. Telling'
    BY <1>1, <1>8, <2>2 DEF Telling, goVars
  <2>. QED
    BY <1>3, <1>4, <1>5, <2>3 DEF Inv, Phase
<1>9. CASE Gone
  <2>1. Gone'
    BY <1>1, <1>9 DEF Gone, goVars
  <2>. QED
    BY <1>3, <1>4, <1>5, <2>1 DEF Inv, Phase
<1>. QED
  BY <1>0, <1>1, <1>6, <1>7, <1>8, <1>9 DEF Phase, Failed

-----------------------------------------------------------------------------
(* The theorems.                                                           *)

\* Init.
LEMMA InvInit == Init => Inv
<1>. SUFFICES ASSUME Init PROVE Inv
  OBVIOUS
<1>1. <<>> \in Seq(Nat) /\ Len(<<>>) = 0 /\ <<>> \in Bytes /\ Exchanges \in Nat /\ PipeCap \in Nat
      /\ <<>> \in Seq(Piece) /\ <<>> \in Seq(Bytes) /\ <<>> \in Seq(Result)
  BY WireAssumption DEF Bytes
<1>2. Types
  <2>1. /\ kind \in DOMAIN Requests /\ msgs \in [1..Exchanges -> Requests[kind]]
        /\ stdin = <<>> /\ stdout = <<>> /\ goOut = <<>> /\ phpOut = <<>>
        /\ goBuf = <<>> /\ phpBuf = <<>> /\ given = <<>> /\ got = <<>>
        /\ goLeft = 0 /\ phpLeft = 0
    BY DEF Init
  <2>2. go = "idle" /\ php = "line" /\ killed = FALSE /\ cut = FALSE
    BY DEF Init
  <2>3. /\ stdin \in Seq(Nat) /\ stdout \in Seq(Nat) /\ goOut \in Seq(Piece) /\ phpOut \in Seq(Piece)
        /\ goBuf \in Bytes /\ phpBuf \in Bytes /\ given \in Seq(Bytes) /\ got \in Seq(Result)
    BY <1>1, <2>1
  <2>4. Len(stdin) = 0 /\ Len(stdout) = 0 /\ Len(got) = 0
    BY <1>1, <2>1
  <2>5. Len(stdin) <= PipeCap /\ Len(stdout) <= PipeCap /\ Len(got) <= Exchanges
    BY <1>1, <2>4
  <2>6. goLeft \in Nat /\ phpLeft \in Nat
    BY <2>1
  <2>7. /\ go \in {"idle", "write", "line", "body", "failed", "gone"}
        /\ php \in {"line", "body", "handle", "write", "spin", "exited"}
        /\ killed \in BOOLEAN /\ cut \in BOOLEAN
    BY <2>2
  <2>. QED
    BY <2>1, <2>3, <2>5, <2>6, <2>7 DEF Types
<1>3. GivenRight /\ GotRight
  BY <1>1 DEF Init, GivenRight, GotRight
<1>4. Resting
  BY <1>1 DEF Init, Resting
<1>. QED
  BY <1>2, <1>3, <1>4 DEF Inv, Phase

\* Every step.
LEMMA InvNext == Inv /\ [Next]_vars => Inv'
<1>. SUFFICES ASSUME Inv, [Next]_vars PROVE Inv'
  OBVIOUS
<1>1. CASE Go
  BY <1>1, SendKeeps, GoWritesKeeps, WrittenKeeps, GoReadsLineKeeps, GoReadsKeeps,
     GoAnswersKeeps, GoFailsKeeps DEF Go
<1>2. CASE Php
  BY <1>2, PhpReadsLineKeeps, PhpReadsKeeps, PhpInputEndsKeeps, PhpHandlesKeeps,
     PhpWritesKeeps, PhpSentKeeps DEF Php
<1>3. CASE GoEnds
  BY <1>3, GoEndsKeeps
<1>4. CASE PhpKilled
  BY <1>4, PhpKilledKeeps
<1>5. CASE UNCHANGED vars
  <2>1. UNCHANGED <<kind, msgs, stdin, stdout, go, goOut, goLeft, goBuf, got,
                    php, phpOut, phpLeft, phpBuf, given, killed, cut>>
    BY <1>5 DEF vars, goVars, phpVars
  <2>2. UNCHANGED <<Types, GivenRight, GotRight, Asked, Current>>
    BY <2>1 DEF Types, GivenRight, GotRight, Current, Asked, Encoded, Unanswerable
  <2>3. UNCHANGED <<Resting, Failed>>
    BY <2>1 DEF Resting, Failed
  <2>4. \A r, x : UNCHANGED <<Incoming(x), Outgoing(r, x), Writing(x)>>
    BY <2>1, <2>2 DEF Incoming, Outgoing, Writing
  <2>5. UNCHANGED <<Asking, Telling, Gone>>
    BY <2>1, <2>2, <2>4 DEF Asking, Telling, Gone, Unanswerable
  <2>. QED
    BY <2>2, <2>3, <2>5 DEF Inv, Phase
<1>. QED
  BY <1>1, <1>2, <1>3, <1>4, <1>5 DEF Next

\* The invariant holds in every state of every behaviour.
LEMMA Invariant == Spec => []Inv
  BY InvInit, InvNext, PTL DEF Spec

\* Every variable has a value of its type, and no pipe holds more than it can,
\* whatever the messages, the sizes of the pipes and of the chunks are.
THEOREM TypeCorrect == Spec => []TypeOK
<1>1. Inv => TypeOK
  BY DEF Inv, Types, TypeOK, Bytes
<1>. QED
  BY <1>1, Invariant, PTL

\* The handler is called with the messages that were sent, whole and in order,
\* however writeMsg, readMsg and Dispatcher.php cut them, and no byte of one
\* exchange is left for the next.
THEOREM ArrivesIntact == Spec => []Intact
<1>1. Inv => Intact
  <2>. SUFFICES ASSUME Inv PROVE Intact
    OBVIOUS
  <2>1. Len(got) \in Nat /\ DOMAIN given = 1..Len(given)
    BY LenProperties DEF Inv, Types
  <2>2. Len(given) <= Len(got) + 1 /\ (go = "idle" => stdin = <<>> /\ stdout = <<>>)
    <3>1. CASE Resting
      BY <2>1, <3>1 DEF Resting
    <3>2. CASE Asking
      BY <2>1, <3>2 DEF Asking
    <3>3. CASE Telling
      BY <2>1, <3>3 DEF Telling
    <3>4. CASE Failed
      BY <2>1, <3>4 DEF Failed
    <3>5. CASE Gone
      BY <2>1, <3>5 DEF Gone
    <3>. QED
      BY <3>1, <3>2, <3>3, <3>4, <3>5 DEF Inv, Phase
  <2>. QED
    BY <2>1, <2>2 DEF Inv, GivenRight, Intact
<1>. QED
  BY <1>1, Invariant, PTL

\* What a client is told is what PHP meant to answer to that request; it is told
\* an error only if PHP was killed, or could not answer.
THEOREM ToldWhatWasMeant == Spec => []RoundTrip
<1>1. Inv => RoundTrip
  <2>. SUFFICES ASSUME Inv PROVE RoundTrip
    OBVIOUS
  <2>1. /\ Len(got) \in Nat /\ DOMAIN got = 1..Len(got) /\ Len(got) <= Exchanges /\ Exchanges \in Nat
        /\ kind \in DOMAIN Requests /\ msgs \in [1..Exchanges -> Requests[kind]]
    BY LenProperties, WireAssumption DEF Inv, Types
  <2>2. ASSUME NEW i \in DOMAIN got
        PROVE  IF got[i].ok
               THEN Decoded(got[i].data).ok /\ Decoded(got[i].data).val \in Expected(msgs[i])
               ELSE killed \/ Unanswerable(msgs[i])
    <3>1. i \in 1..Len(got) /\ i \in 1..Exchanges
      BY <2>1
    <3>2. msgs[i] \in Requests[kind]
      BY <2>1, <3>1
    <3>3. IF got[i].ok THEN got[i].data \in Replies(kind, Encoded(msgs[i]))
          ELSE killed \/ Unanswerable(msgs[i])
      BY <3>1 DEF Inv, GotRight
    <3>. QED
      BY <2>1, <3>2, <3>3, AllReplies
  <2>. QED
    BY <2>2 DEF RoundTrip
<1>. QED
  BY <1>1, Invariant, PTL
-----------------------------------------------------------------------------
(* Messages that are cut.                                                  *)

\* A message that is cut short, in the form the next lemmas need.
LEMMA MessageCut ==
  ASSUME NEW fields \in Seq(Field), Len(fields) # 0, NEW vals, MessageFits(fields, vals),
         NEW strict \in BOOLEAN, NEW m \in 0..(Len(Write(fields, vals)) - 1)
  PROVE  /\ Len(Write(fields, vals)) \in Nat
         /\ \/ ~Parse(fields, SubSeq(Write(fields, vals), 1, m), strict).ok
            \/ m >= Len(Write(fields, vals)) -
                      FieldSlack(fields[Len(fields)], vals[Len(fields)], strict)
BY MessageCodes

\* Go misses nothing.
LEMMA NoSlack == \A field, val : FieldSlack(field, val, TRUE) = 0
BY DEF FieldSlack, MapSlack, EntrySlack, SimpleSlack

\* No proper prefix of a message of any layout passes for a message in Go, so a
\* worker that ends inside an answer is never mistaken for one that has answered.
THEOREM GoRejectsParts ==
  ASSUME NEW fields \in Seq(Field), Len(fields) # 0, NEW vals, MessageFits(fields, vals),
         NEW m \in 0..(Len(Write(fields, vals)) - 1)
  PROVE  ~Parse(fields, SubSeq(Write(fields, vals), 1, m), TRUE).ok
<1>. DEFINE e == Write(fields, vals)
<1>1. Len(e) \in Nat /\ (~Parse(fields, SubSeq(e, 1, m), TRUE).ok \/ m >= Len(e) - 0)
  BY MessageCut, NoSlack
<1>. HIDE DEF e
<1>2. m \in 0..(Len(e) - 1)
  BY DEF e
<1>3. ~(m >= Len(e) - 0)
  BY <1>1, <1>2
<1>. QED
  BY <1>1, <1>3 DEF e

\* Two different messages of one layout are never the same bytes.
THEOREM MessagesDiffer ==
  ASSUME NEW fields \in Seq(Field), Len(fields) # 0,
         NEW a, MessageFits(fields, a), NEW b, MessageFits(fields, b),
         Write(fields, a) = Write(fields, b)
  PROVE  a = b
<1>1. /\ Parse(fields, Write(fields, a), TRUE) = Parsed(a, <<>>)
      /\ Parse(fields, Write(fields, b), TRUE) = Parsed(b, <<>>)
  BY MessageRead
<1>2. Parsed(a, <<>>) = Parsed(b, <<>>)
  BY <1>1
<1>. QED
  BY <1>2 DEF Parsed

\* A message that is cut short, read as a request.
LEMMA RequestCut ==
  ASSUME NEW fields \in Seq(Field), Len(fields) # 0, NEW vals, MessageFits(fields, vals),
         NEW tail \in Nat, FieldSlack(fields[Len(fields)], vals[Len(fields)], FALSE) = tail,
         NEW b, b = Write(fields, vals), NEW n \in 0..(Len(b) - 1)
  PROVE  /\ ~Parse(fields, SubSeq(b, 1, n), TRUE).ok
         /\ n < Len(b) - tail => ~Parse(fields, SubSeq(b, 1, n), FALSE).ok
<1>1. Len(b) \in Nat
  BY MessageCut
<1>2. \/ ~Parse(fields, SubSeq(b, 1, n), TRUE).ok
      \/ n >= Len(b) - 0
  <2>1. \/ ~Parse(fields, SubSeq(b, 1, n), TRUE).ok
        \/ n >= Len(b) - FieldSlack(fields[Len(fields)], vals[Len(fields)], TRUE)
    BY MessageCut
  <2>. QED
    BY <2>1, NoSlack
<1>3. \/ ~Parse(fields, SubSeq(b, 1, n), FALSE).ok
      \/ n >= Len(b) - tail
  BY MessageCut
<1>4. ~(n >= Len(b) - 0) /\ (n < Len(b) - tail => ~(n >= Len(b) - tail))
  BY <1>1
<1>. QED
  BY <1>2, <1>3, <1>4, Zenon

\* What may be missed of a request: the string at the end of an HTTP request.
LEMMA FormSlack ==
  ASSUME NEW last, MapFits(<<Str>> \o <<Str>>, last)
  PROVE  /\ FieldSlack(MapOf(<<Str>>), last, FALSE) =
              (IF last # <<>> THEN Len(last[Len(last)][2]) ELSE 0)
         /\ FieldSlack(MapOf(<<Str>>), last, FALSE) \in Nat
<1>. DEFINE of == <<Str>> \o <<Str>>
            n == Len(last)
            s == last[n][2]
<1>1. of[2] = Str /\ Len(of) = 2 /\ DOMAIN of = 1..2
  OBVIOUS
<1>2. n \in Nat /\ last = [i \in 1..n |-> last[i]] /\ \A i \in DOMAIN last : EntryFits(of, last[i])
  BY DEF MapFits, LengthFits, Fits
<1>. HIDE DEF of, n
<1>3. FieldSlack(MapOf(<<Str>>), last, FALSE) = IF n = 0 THEN 0 ELSE Len(s)
  <2>1. MapOf(<<Str>>).kind = "map" /\ MapOf(<<Str>>).of = of /\ Str.kind # "uint"
    BY Kinds DEF of
  <2>2. FieldSlack(MapOf(<<Str>>), last, FALSE) = MapSlack(of, last, FALSE)
    BY <2>1 DEF FieldSlack
  <2>3. MapSlack(of, last, FALSE) = IF n = 0 THEN 0 ELSE EntrySlack(of, last[n], FALSE)
    BY DEF MapSlack, n
  <2>4. EntrySlack(of, last[n], FALSE) = SimpleSlack(Str, s, FALSE)
    BY <1>1 DEF EntrySlack
  <2>5. SimpleSlack(Str, s, FALSE) = Len(s)
    BY <2>1 DEF SimpleSlack
  <2>. QED
    BY <2>2, <2>3, <2>4, <2>5
<1>4. last = <<>> <=> n = 0
  <2>1. Len(<<>>) = 0
    OBVIOUS
  <2>2. last = <<>> => n = 0
    BY <2>1 DEF n
  <2>3. n = 0 => last = <<>>
    <3>1. n = 0 => 1..n = {}
      BY <1>2
    <3>2. ASSUME n = 0 PROVE last = [i \in {} |-> last[i]]
      BY <1>2, <3>1, <3>2
    <3>3. \A f : f = [i \in {} |-> f[i]] => f = <<>>
      OBVIOUS
    <3>. QED
      BY <3>2, <3>3
  <2>. QED
    BY <2>2, <2>3
<1>5. ASSUME n # 0 PROVE Len(s) \in Nat
  <2>1. n \in DOMAIN last
    BY <1>2, <1>5
  <2>2. EntryFits(of, last[n])
    BY <1>2, <2>1
  <2>3. SimpleFits(of[2], last[n][2])
    BY <1>1, <2>2 DEF EntryFits
  <2>4. s \in Bytes
    BY <1>1, <2>3, Kinds DEF SimpleFits
  <2>. QED
    BY <2>4, LenProperties DEF Bytes
<1>6. FieldSlack(MapOf(<<Str>>), last, FALSE) = IF last # <<>> THEN Len(s) ELSE 0
  BY <1>3, <1>4
<1>7. FieldSlack(MapOf(<<Str>>), last, FALSE) \in Nat
  <2>. DEFINE x == FieldSlack(MapOf(<<Str>>), last, FALSE)
              l == Len(s)
  <2>1. x = (IF n = 0 THEN 0 ELSE l) /\ (n # 0 => l \in Nat)
    BY <1>3, <1>5
  <2>. HIDE DEF x, l
  <2>2. x \in Nat
    BY <2>1
  <2>. QED
    BY <2>2 DEF x
<1>. QED
  BY <1>6, <1>7 DEF n

\* No proper prefix of a request passes for a request in Go, and none in PHP
\* unless all it lacks is the end of the last string.
THEOREM PartsRejected == Spec => []CutRejected
<1>1. Inv => CutRejected
  <2>. SUFFICES ASSUME Inv, kind # "raw", Len(got) < Exchanges
                PROVE  CutRejected
    BY DEF CutRejected
  <2>1. kind \in DOMAIN Requests /\ Current \in Requests[kind]
    <3>1. Len(got) \in Nat /\ Exchanges \in Nat
      BY LenProperties, WireAssumption DEF Inv, Types
    <3>2. Len(got) + 1 \in 1..Exchanges
      BY <3>1
    <3>. QED
      BY <3>2 DEF Inv, Types, Current
  <2>. DEFINE fields == IF kind = "http" THEN HTTPRequest ELSE JobRequest
              m == Current
              b == Encoded(m)
              last == m[Len(fields)]
              tail == IF kind = "http" /\ last # <<>> THEN Len(last[Len(last)][2]) ELSE 0
  <2>2. /\ fields \in Seq(Field) /\ Len(fields) # 0 /\ MessageFits(fields, m)
        /\ b = Write(fields, m)
    <3>1. CASE kind = "http"
      <4>1. fields = HTTPRequest /\ HTTPRequest \in Seq(Field) /\ Len(HTTPRequest) # 0
        BY <3>1, Layouts
      <4>2. MessageFits(HTTPRequest, Current)
        BY <2>1, <3>1, RequestCoded
      <4>3. b = Write(HTTPRequest, Current)
        BY <3>1 DEF Encoded, Encode
      <4>. HIDE DEF fields, b
      <4>. QED
        BY <4>1, <4>2, <4>3
    <3>2. CASE kind = "job"
      <4>1. fields = JobRequest /\ JobRequest \in Seq(Field) /\ Len(JobRequest) # 0
        BY <3>2, Layouts
      <4>2. MessageFits(JobRequest, Current)
        BY <2>1, <3>2, RequestCoded
      <4>3. b = Write(JobRequest, Current)
        BY <3>2 DEF Encoded, Encode
      <4>. HIDE DEF fields, b
      <4>. QED
        BY <4>1, <4>2, <4>3
    <3>. QED
      BY <2>1, <3>1, <3>2, RequestCoded
  <2>3. tail \in Nat /\ FieldSlack(fields[Len(fields)], m[Len(fields)], FALSE) = tail
    <3>1. CASE kind = "http"
      <4>1. Len(fields) = 6 /\ fields[6] = MapOf(<<Str>>) /\ DOMAIN fields = 1..6
        BY <3>1, Layouts
      <4>2. FieldFits(MapOf(<<Str>>), m[6])
        <5>. HIDE DEF fields, m
        <5>1. FieldFits(fields[6], m[6])
          BY <2>2, <4>1 DEF MessageFits
        <5>. QED
          BY <4>1, <5>1
      <4>3. MapFits(<<Str>> \o <<Str>>, m[6])
        BY <4>2, Kinds DEF FieldFits
      <4>4. last = m[6] /\ tail = IF m[6] # <<>> THEN Len(m[6][Len(m[6])][2]) ELSE 0
        BY <3>1, <4>1
      <4>. HIDE DEF fields, m, tail
      <4>5. /\ FieldSlack(MapOf(<<Str>>), m[6], FALSE) =
                 (IF m[6] # <<>> THEN Len(m[6][Len(m[6])][2]) ELSE 0)
            /\ FieldSlack(MapOf(<<Str>>), m[6], FALSE) \in Nat
        BY <4>3, FormSlack
      <4>. QED
        BY <4>1, <4>4, <4>5
    <3>2. CASE kind # "http"
      <4>1. Len(fields) = 3 /\ fields[3] = Uint /\ tail = 0
        BY <3>2, Layouts
      <4>. HIDE DEF fields, m, tail
      <4>2. FieldSlack(Uint, m[3], FALSE) = 0
        BY Kinds DEF FieldSlack, SimpleSlack
      <4>. QED
        BY <4>1, <4>2
    <3>. QED
      BY <3>1, <3>2
  <2>4. ASSUME NEW n \in 0..(Len(b) - 1)
        PROVE  /\ ~Parse(fields, SubSeq(b, 1, n), TRUE).ok
               /\ n < Len(b) - tail => ~Parse(fields, SubSeq(b, 1, n), FALSE).ok
    <3>. HIDE DEF fields, m, b, tail
    <3>. QED
      BY <2>2, <2>3, RequestCut
  <2>. QED
    BY <2>4 DEF CutRejected, Current
<1>. QED
  BY <1>1, Invariant, PTL
-----------------------------------------------------------------------------
(* Nobody waits for ever, and what it all amounts to.                      *)

\* If the reader of a frame has nothing to read, there is something to write.
LEMMA Unread ==
  ASSUME NEW s \in Seq(Nat), NEW x \in Seq(Nat), NEW b \in Seq(Nat), NEW e \in Bytes,
         NEW n \in Nat,
         \/ s \o x = Frame(e)
         \/ Len(b) + n = Len(e) /\ n # 0 /\ b \o (s \o x) = e
  PROVE  s # <<>> \/ x # <<>>
<1>. SUFFICES ASSUME s = <<>>, x = <<>> PROVE FALSE
  OBVIOUS
<1>1. s \o x = <<>> /\ b \o (s \o x) = b
  BY ConcatEmptySeq
<1>2. e \in Seq(Nat) /\ Len(e) \in Nat /\ Frame(e) = <<Line(Len(e))>> \o e
  BY FramedIs DEF Frame
<1>3. Len(Frame(e)) = 1 + Len(e)
  <2>1. <<Line(Len(e))>> \in Seq(Nat) /\ Len(<<Line(Len(e))>>) = 1
    BY <1>2, Constants DEF Line
  <2>. QED
    BY <1>2, <2>1, ConcatProperties
<1>4. Frame(e) # <<>>
  BY <1>2, <1>3, EmptySeq
<1>5. CASE s \o x = Frame(e)
  BY <1>1, <1>4, <1>5
<1>6. CASE Len(b) + n = Len(e) /\ n # 0 /\ b \o (s \o x) = e
  <2>1. b = e
    BY <1>1, <1>6
  <2>2. Len(b) \in Nat /\ Len(b) + n = Len(b)
    BY <1>6, <2>1, LenProperties
  <2>. QED
    BY <1>6, <2>2
<1>. QED
  BY <1>5, <1>6

\* As long as an answer is due and PHP runs, one of the two can go on, whatever
\* the sizes of messages, chunks (worker.go 309, 332) and pipes are: no pipe is
\* full while its reader waits for the other one.
THEOREM NeverAtAStandstill == Spec => []NoStandstill
<1>1. Inv => NoStandstill
  <2>. SUFFICES ASSUME Inv, go \in {"write", "line", "body"}, php # "exited"
                PROVE  \/ go = "write" /\ (goOut = <<>> \/ Len(stdin) < PipeCap)
                       \/ go = "line" /\ stdout # <<>>
                       \/ go = "body" /\ (goLeft = 0 \/ stdout # <<>>)
                       \/ php \in {"line", "body"} /\ stdin # <<>>
                       \/ php = "handle"
                       \/ php = "write" /\ (phpOut = <<>> \/ Len(stdout) < PipeCap)
    BY DEF NoStandstill
  <2>1. Types /\ (Asking \/ Telling)
    BY DEF Inv, Phase, Resting, Failed, Gone
  <2>2. /\ stdin \in Seq(Nat) /\ stdout \in Seq(Nat) /\ phpBuf \in Seq(Nat) /\ goBuf \in Seq(Nat)
        /\ phpLeft \in Nat /\ goLeft \in Nat /\ FlattenSeq(goOut) \in Seq(Nat)
    <3>1. goBuf \in Bytes /\ phpBuf \in Bytes
      BY <2>1 DEF Types
    <3>. QED
      BY <2>1, <3>1, FramedIs, NothingLeft DEF Types
  <2>3. (stdin = <<>> => Len(stdin) < PipeCap) /\ (stdout = <<>> => Len(stdout) < PipeCap)
    BY WireAssumption, EmptySeq
  <2>4. FlattenSeq(<<>>) = <<>>
    BY FlattenNothing
  <2>5. Asked \in Bytes /\ \A r \in Replies(kind, Asked) : r \in Bytes
    BY <2>1, CurrentIs DEF Asking, Telling
  <2>6. CASE Asking
    <3>1. phpOut = <<>> /\ Incoming(FlattenSeq(goOut))
      BY <2>6 DEF Asking
    <3>2. CASE php \in {"line", "body"} /\ stdin = <<>>
      <4>1. \/ stdin \o FlattenSeq(goOut) = Frame(Asked)
            \/ /\ Len(phpBuf) + phpLeft = Len(Asked) /\ phpLeft # 0
               /\ phpBuf \o (stdin \o FlattenSeq(goOut)) = Asked
        BY <3>1, <3>2 DEF Incoming
      <4>2. FlattenSeq(goOut) # <<>>
        BY <2>2, <2>5, <3>2, <4>1, Unread
      <4>3. goOut # <<>>
        BY <2>4, <4>2
      <4>. QED
        BY <2>3, <2>6, <3>2, <4>3 DEF Asking
    <3>. QED
      BY <3>1, <3>2 DEF Incoming
  <2>7. CASE Telling /\ go # "write"
    <3>1. PICK r \in Replies(kind, Asked), x \in Seq(Nat) : Outgoing(r, x) /\ Writing(x)
      BY <2>7 DEF Telling
    <3>2. CASE stdout = <<>> /\ (go = "body" => goLeft # 0)
      <4>1. \/ stdout \o x = Frame(r)
            \/ Len(goBuf) + goLeft = Len(r) /\ goLeft # 0 /\ goBuf \o (stdout \o x) = r
        BY <3>1, <3>2 DEF Outgoing
      <4>2. x # <<>>
        BY <2>2, <2>5, <3>2, <4>1, Unread
      <4>. QED
        BY <2>3, <3>1, <3>2, <4>2 DEF Writing
    <3>. QED
      BY <2>7, <3>2
  <2>8. CASE Telling /\ go = "write"
    BY <2>8 DEF Telling
  <2>. QED
    BY <2>1, <2>6, <2>7, <2>8
<1>. QED
  BY <1>1, Invariant, PTL

\* The steps that are none to Exchange.
LEMMA ExchangeRests ==
  ASSUME UNCHANGED <<kind, msgs, given, got>>,
         (go' = "failed") = (go = "failed"), (go' = "gone") = (go = "gone")
  PROVE  UNCHANGED Exchanged!vars
BY DEF Exchanged!vars

\* What Exchange sees of the request under way.
LEMMA ExchangeRequest ==
  ASSUME Inv, Len(got) < Exchanges
  PROVE  /\ Program[kind][Asked] = Replies(kind, Asked)
         /\ [i \in 1..Exchanges |-> Encodings[kind][msgs[i]]][Len(got) + 1] = Asked
<1>1. /\ Types /\ kind \in DOMAIN Requests /\ Len(got) + 1 \in 1..Exchanges
      /\ Current \in Requests[kind]
  <2>1. kind \in DOMAIN Requests /\ Len(got) \in Nat /\ Exchanges \in Nat
    BY LenProperties, WireAssumption DEF Inv, Types
  <2>2. Len(got) + 1 \in 1..Exchanges
    BY <2>1
  <2>3. Types /\ Current \in Requests[kind]
    BY CurrentIs DEF Inv
  <2>. QED
    BY <2>1, <2>2, <2>3
<1>2. Encodings[kind][Current] = Asked
  BY <1>1 DEF Encodings, Asked, Encoded
<1>. QED
  BY <1>1, <1>2, CurrentIs DEF Current

\* To the client and the handler every step is one of Exchange or none.
LEMMA ExchangeStep == Inv /\ [Next]_vars => [Exchanged!Next]_(Exchanged!vars)
<1>. SUFFICES ASSUME Inv, [Next]_vars, Inv'
              PROVE  Exchanged!Next \/ UNCHANGED Exchanged!vars
  BY InvNext
<1>0. /\ Types /\ GivenRight /\ GotRight /\ Phase /\ Len(got) \in Nat /\ Len(given) \in Nat
      /\ given \in Seq(Bytes) /\ got \in Seq(Result)
  BY LenProperties DEF Inv, Types
<1>1. CASE Send \/ GoWrites \/ Written \/ GoReadsLine \/ GoReads
  BY <1>1, ExchangeRests DEF Send, GoWrites, Written, GoReadsLine, GoReads, phpVars
<1>2. CASE PhpReadsLine \/ PhpReads \/ PhpInputEnds \/ PhpWrites \/ PhpSent \/ PhpKilled
  BY <1>2, ExchangeRests
     DEF PhpReadsLine, PhpReads, PhpInputEnds, PhpWrites, PhpSent, PhpKilled, goVars
<1>3. CASE UNCHANGED vars
  BY <1>3, ExchangeRests DEF vars, goVars, phpVars
<1>4. CASE GoAnswers
  <2>. DEFINE a == [ok |-> TRUE, data |-> goBuf]
  <2>1. /\ go = "body" /\ go' = "idle" /\ got' = Append(got, a)
        /\ UNCHANGED <<kind, msgs, given>>
    BY <1>4 DEF GoAnswers, phpVars
  <2>2. Len(given) = Len(got) + 1 /\ Len(got) < Exchanges
    BY <1>0, <2>1 DEF Phase, Resting, Asking, Telling, Failed, Gone
  <2>3. a.ok = TRUE /\ a.data = goBuf
    OBVIOUS
  <2>. HIDE DEF a
  <2>4. Len(got') = Len(got) + 1 /\ got'[Len(got) + 1] = a
    <3>1. goBuf \in Bytes
      BY <1>0 DEF Types
    <3>2. a \in Result
      BY <3>1 DEF Result, a
    <3>. QED
      BY <1>0, <2>1, <3>2, AppendProperties
  <2>5. goBuf \in Replies(kind, Asked)
    <3>1. Len(got) + 1 \in 1..Len(got')
      BY <1>0, <2>4
    <3>2. GotRight' /\ UNCHANGED <<kind, msgs>>
      BY <2>1 DEF Inv
    <3>3. a.data \in Replies(kind, Encode(kind, msgs[Len(got) + 1]))
      BY <2>3, <2>4, <3>1, <3>2 DEF GotRight, Encoded
    <3>. QED
      BY <2>3, <3>3 DEF Asked, Current, Encoded
  <2>6. given[Len(given)] = Asked
    BY <1>0, <2>2 DEF GivenRight, Asked, Current
  <2>7. goBuf \in Program[kind][given[Len(given)]]
    BY <2>2, <2>5, <2>6, ExchangeRequest
  <2>8. Exchanged!Answer
    BY <2>1, <2>2, <2>7 DEF Exchanged!Answer, a
  <2>. QED
    BY <2>8 DEF Exchanged!Next
<1>5. CASE GoFails
  <2>1. /\ go \in {"write", "line", "body"} /\ go' = "failed" /\ got' = Append(got, Fail)
        /\ UNCHANGED <<kind, msgs, given>>
    BY <1>5 DEF GoFails, phpVars
  <2>2. Len(got) < Exchanges
    BY <1>0, <2>1 DEF Phase, Resting, Asking, Telling, Failed, Gone
  <2>3. Exchanged!Refuse
    BY <2>1, <2>2 DEF Exchanged!Refuse
  <2>. QED
    BY <2>3 DEF Exchanged!Next
<1>6. CASE GoEnds
  <2>1. /\ go \notin {"failed", "gone"} /\ go' = "gone"
        /\ UNCHANGED <<kind, msgs, given, got>>
    BY <1>6 DEF GoEnds, phpVars
  <2>2. Exchanged!End
    BY <2>1 DEF Exchanged!End
  <2>. QED
    BY <2>2 DEF Exchanged!Next
<1>7. CASE PhpHandles
  <2>1. /\ php = "handle" /\ given' = Append(given, phpBuf)
        /\ UNCHANGED <<kind, msgs, go, got>>
    BY <1>7 DEF PhpHandles, goVars
  <2>2. Len(given) = Len(got) /\ Len(got) < Exchanges /\ phpBuf = Asked /\ go # "failed"
    <3>1. Len(given) = Len(got) /\ Len(got) < Exchanges /\ (Asking \/ Gone)
      BY <2>1, Reading
    <3>2. PICK x : Incoming(x)
      BY <2>1, Reading
    <3>. QED
      BY <2>1, <3>1, <3>2 DEF Incoming, Asking, Gone
  <2>3. phpBuf = [i \in 1..Exchanges |-> Encodings[kind][msgs[i]]][Len(given) + 1]
    BY <2>2, ExchangeRequest
  <2>4. Exchanged!Handle
    BY <2>1, <2>2, <2>3 DEF Exchanged!Handle
  <2>. QED
    BY <2>4 DEF Exchanged!Next
<1>. QED
  BY <1>1, <1>2, <1>3, <1>4, <1>5, <1>6, <1>7 DEF Next, Go, Php

\* It begins as Exchange begins.
LEMMA ExchangeInit == Init => Exchanged!Init
<1>. SUFFICES ASSUME Init PROVE Exchanged!Init
  OBVIOUS
<1>1. kind \in DOMAIN Requests /\ msgs \in [1..Exchanges -> Requests[kind]]
  BY DEF Init
<1>2. ASSUME NEW i \in 1..Exchanges PROVE Encodings[kind][msgs[i]] \in DOMAIN Program[kind]
  <2>1. msgs[i] \in Requests[kind]
    BY <1>1
  <2>2. Encodings[kind][msgs[i]] = Encode(kind, msgs[i])
    BY <1>1, <2>1 DEF Encodings
  <2>3. DOMAIN Program[kind] = {Encode(kind, m) : m \in Requests[kind]}
    BY <1>1 DEF Program
  <2>. QED
    BY <2>1, <2>2, <2>3
<1>3. [i \in 1..Exchanges |-> Encodings[kind][msgs[i]]] \in [1..Exchanges -> DOMAIN Program[kind]]
  BY <1>2
<1>4. Program[kind] \in {Program[k] : k \in DOMAIN Requests}
  BY <1>1
<1>5. go = "idle" /\ given = <<>> /\ got = <<>>
  BY DEF Init
<1>. QED
  BY <1>3, <1>4, <1>5 DEF Exchanged!Init

\* Client, pipes and Dispatcher.php together are an Exchange, for any messages and any
\* sizes of pipes and chunks: each message is handled at most once, before its client is
\* told, and never after its client was told an error (worker.go 254-272).
THEOREM WireImplementsExchange == Spec => ExchangeSpec
<1>1. Init => Exchanged!Init
  BY ExchangeInit
<1>2. Inv /\ [Next]_vars => [Exchanged!Next]_(Exchanged!vars)
  BY ExchangeStep
<1>. QED
  BY <1>1, <1>2, Invariant, PTL DEF Spec, ExchangeSpec, Exchanged!Spec
=============================================================================
