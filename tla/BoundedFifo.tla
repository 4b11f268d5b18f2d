---------------------------- MODULE BoundedFifo -----------------------------
(***************************************************************************)
(* What the key buffer promises: characters come out in the order they     *)
(* went in, each once; one is refused only when Capacity are waiting.      *)
(***************************************************************************)
EXTENDS Naturals, Sequences

CONSTANTS Chars, Capacity, NoChar

VARIABLES queue,     \* the characters waiting
          resetting, \* the reader is emptying the buffer
          got,       \* what the last pop returned
          refused    \* the last push was refused, and nothing has left since

Init == queue = <<>> /\ resetting = FALSE /\ got = NoChar /\ refused = FALSE

Put(ch) ==
  /\ ~resetting /\ Len(queue) < Capacity
  /\ queue' = Append(queue, ch) /\ refused' = FALSE
  /\ UNCHANGED <<resetting, got>>

Refuse ==
  /\ ~resetting /\ Len(queue) = Capacity
  /\ refused' = TRUE
  /\ UNCHANGED <<queue, resetting, got>>

Get ==
  /\ ~resetting /\ queue # <<>>
  /\ got' = Head(queue)
  /\ queue' = Tail(queue) /\ refused' = FALSE
  /\ UNCHANGED resetting

GetNothing ==
  /\ ~resetting /\ queue = <<>>
  /\ got' = NoChar
  /\ UNCHANGED <<queue, resetting, refused>>

(* Whatever arrives while the reader empties the buffer is lost.             *)
BeginReset == resetting' = TRUE /\ queue' = <<>> /\ refused' = FALSE /\ UNCHANGED got
EndReset == resetting /\ resetting' = FALSE /\ UNCHANGED <<queue, got, refused>>

Next ==
  \/ (\E ch \in Chars : Put(ch)) \/ Refuse \/ Get \/ GetNothing
  \/ BeginReset \/ EndReset

Spec == Init /\ [][Next]_<<queue, resetting, got, refused>>
=============================================================================
