------------------------------- MODULE KeyPath -------------------------------
(***************************************************************************)
(* What the console driver, the keyboard interrupt and the key buffer      *)
(* promise together: three queues in a row.  A character typed comes out   *)
(* of the last one once and in its turn, or is lost in one of two ways:    *)
(* the second queue forgets everything it holds when one character too     *)
(* many arrives, the third refuses when it is full.                        *)
(***************************************************************************)
EXTENDS Naturals, Sequences, SequencesExt

CONSTANTS Chars,                  \* codes of characters; 0 is none
          ConsCapacity, KbCapacity

VARIABLES coming,   \* typed and not yet read from the keyboard
          cons,     \* stored by the driver
          kb        \* handed to the line editor: 0 where a key made no character

Init == coming = <<>> /\ cons = <<>> /\ kb = <<>>

Store(q, c) == IF Len(q) < ConsCapacity THEN Append(q, c) ELSE <<>>

(* The driver stores the next n characters.                                  *)
Fed(n) == FoldLeft(Store, cons, SubSeq(coming, 1, n))
Fetch(n) == coming' = SubSeq(coming, n + 1, Len(coming))

Offered(q) == IF q = <<>> THEN 0 ELSE Head(q)
Rest(q) == IF q = <<>> THEN q ELSE Tail(q)

Type(c) == coming' = Append(coming, c) /\ UNCHANGED <<cons, kb>>

Feed(n) == Fetch(n) /\ cons' = Fed(n) /\ UNCHANGED kb

(* One character is handed on, or 0, or it is refused and lost.              *)
Handle(n) ==
  /\ Fetch(n)
  /\ cons' = Rest(Fed(n))
  /\ kb' = IF Len(kb) < KbCapacity THEN Append(kb, Offered(Fed(n))) ELSE kb

(* One character goes to a reader that polls.                                *)
Poll(n) == Fetch(n) /\ cons' = Rest(Fed(n)) /\ UNCHANGED kb

Read == kb # <<>> /\ kb' = Tail(kb) /\ UNCHANGED <<coming, cons>>

Next ==
  \/ \E c \in Chars : Type(c)
  \/ \E n \in 0 .. Len(coming) : Feed(n) \/ Handle(n) \/ Poll(n)
  \/ Read

Spec == Init /\ [][Next]_<<coming, cons, kb>>
=============================================================================
