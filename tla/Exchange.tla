------------------------------ MODULE Exchange ------------------------------
(***************************************************************************)
(* What Worker.send and Dispatcher::run promise each other while no request *)
(* times out, whatever the pipes between them do (worker.go 254-272,       *)
(* Dispatcher.php 38-50): the program handles the messages one at a time   *)
(* and in order, each at most once and before the client is told; what the *)
(* client is told is what the program has answered to that message, or an  *)
(* error, and a message that has been told an error is not handled later.  *)
(***************************************************************************)
EXTENDS Naturals, Sequences

CONSTANTS
  Count,       \* how many messages there are
  Programs,    \* what a program may answer to each message
  Error        \* what the client is told if there is no answer

VARIABLES
  program, messages,    \* the program, and what the client sends it
  handled,     \* the messages the handler was called with
  told,        \* what the client was told
  state        \* "open", "failed" or "ended"

vars == <<program, messages, handled, told, state>>

Init ==
  /\ program \in Programs /\ messages \in [1..Count -> DOMAIN program]
  /\ handled = <<>> /\ told = <<>> /\ state = "open"

\* A message may still be handled when the server has ended.
Handle ==
  /\ state # "failed" /\ Len(handled) = Len(told) /\ Len(handled) < Count
  /\ handled' = Append(handled, messages[Len(handled) + 1])
  /\ UNCHANGED <<program, messages, told, state>>

Answer ==
  /\ state = "open" /\ Len(handled) = Len(told) + 1
  /\ \E r \in program[handled[Len(handled)]] :
       told' = Append(told, [ok |-> TRUE, data |-> r])
  /\ UNCHANGED <<program, messages, handled, state>>

\* After an error the worker gets another process.
Refuse ==
  /\ state = "open" /\ Len(told) < Count
  /\ told' = Append(told, Error) /\ state' = "failed"
  /\ UNCHANGED <<program, messages, handled>>

End ==
  /\ state = "open" /\ state' = "ended"
  /\ UNCHANGED <<program, messages, handled, told>>

Next == Handle \/ Answer \/ Refuse \/ End

Spec == Init /\ [][Next]_vars
=============================================================================
