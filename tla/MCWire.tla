------------------------------- MODULE MCWire -------------------------------
(***************************************************************************)
(* Wire for TLC: numbers of two digits of base 4, so lengths up to 7; 8    *)
(* and above, here 13, are negative for PHP.                               *)
(***************************************************************************)
EXTENDS Wire, TLC

k1 == <<1>>   \* a key that looks like a number
k2 == <<2>>
k3 == <<2, 0>>

Headers == {<<>>, <<<<k1, <<2>>>>>>, <<<<k3, <<>>>>, <<k2, <<1, 1>>>>>>}
\* No files and no form, or one of each.
Bodies == {<<<<>>, <<>>>>, <<<<<<k2, <<1>>, <<>>, 5>>>>, <<<<k1, <<0, 2>>>>>>>>}

MCRequests ==
  [http |-> {<<<<1>>, <<>>, h, <<0>>, b[1], b[2]>> : h \in Headers, b \in Bodies},
   job |-> {<<<<2>>, p, t>> : p \in {<<>>, <<0, 1>>}, t \in {0, 13}},
   raw |-> {<<>>, <<0>>, <<2, 2, 1, 0, 1>>}]

MCNumeric == {k1}
=============================================================================
