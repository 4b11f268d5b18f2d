------------------------------- MODULE KeyBuf -------------------------------
(***************************************************************************)
(* The ring of libs/stringbuffer.c between the keyboard interrupt, which   *)
(* pushes (kern/trap/trap.c), and the line editor, which polls it          *)
(* (kern/component/editbox.c).  Nothing in the repository calls the editor  *)
(* at present, so the reader takes its steps when it likes, or never: what  *)
(* is stated here is safety, and a full ring may stay full.                 *)
(*                                                                         *)
(* The interrupt handler runs to its end before the interrupted code goes  *)
(* on, so a push is one step; it may come between any two memory accesses  *)
(* of the reader.  The kernel is built without optimisation: ++front is    *)
(* stored before it is compared with the size and set back to 0.           *)
(***************************************************************************)
EXTENDS Integers, Sequences

CONSTANTS Size,      \* 32
          Chars,     \* the characters pushed; the handler also pushes 0
          NoChar     \* 0: what pop returns when there is none

ASSUME SizeAssumption == Size \in Nat /\ Size > 1
ASSUME CharAssumption == NoChar \in Chars

VARIABLES data, front, rear,
          reader,    \* where the reader is
          c,         \* its local variable
          got,       \* what its last pop returned
          answer     \* what the last push returned; 1 again once one has left

keybufVars == <<data, front, rear, reader, c, got, answer>>

Slots == 0 .. Size - 1

KeyBufTypeOK ==
  /\ data \in [Slots -> Chars]
  /\ front \in 0 .. Size /\ rear \in Slots
  /\ reader \in {"out", "load", "advance", "wrap", "front", "rear"}
  /\ c \in Chars /\ got \in Chars /\ answer \in {0, 1}

(* kb is a zeroed global.                                                    *)
KeyBufInit ==
  /\ data = [s \in Slots |-> NoChar]
  /\ front = 0 /\ rear = 0
  /\ reader = "out" /\ c = NoChar /\ got = NoChar /\ answer = 1

-----------------------------------------------------------------------------
(* Mistake: the case of front at the start of the array is left out.         *)
Full_NoWrap == front - rear = 1

(* Mistake: front at the start of the array is taken for a full buffer       *)
(* wherever rear has wrapped to, one slot too early.                         *)
Full_Early == front - rear = 1 \/ (front = 0 /\ rear >= Size - 2)

(* keybuf_push, in the interrupt handler.                                    *)
Full == front - rear = 1 \/ (front = 0 /\ rear = Size - 1)

PushRefused ==
  /\ Full
  /\ answer' = 0
  /\ UNCHANGED <<data, front, rear, reader, c, got>>

Push(ch) ==
  /\ ~Full
  /\ data' = [data EXCEPT ![rear] = ch]
  /\ rear' = IF rear + 1 = Size THEN 0 ELSE rear + 1
  /\ answer' = 1
  /\ UNCHANGED <<front, reader, c, got>>

(* keybuf_pop.                                                               *)
PopTest ==
  /\ reader = "out"
  /\ IF front = rear
       THEN got' = NoChar /\ UNCHANGED reader
       ELSE reader' = "load" /\ UNCHANGED got
  /\ UNCHANGED <<data, front, rear, c, answer>>

PopLoad ==
  /\ reader = "load"
  /\ c' = data[front]
  /\ reader' = "advance"
  /\ UNCHANGED <<data, front, rear, got, answer>>

PopReturn == got' = c /\ c' = NoChar /\ reader' = "out"

PopAdvance ==
  /\ reader = "advance"
  /\ front' = front + 1
  /\ IF front + 1 = Size THEN reader' = "wrap" /\ UNCHANGED <<c, got>> ELSE PopReturn
  /\ answer' = 1
  /\ UNCHANGED <<data, rear>>

PopWrap ==
  /\ reader = "wrap"
  /\ front' = 0
  /\ PopReturn
  /\ UNCHANGED <<data, rear, answer>>

(* keybuf_init, which the editor calls on a buffer that interrupts may       *)
(* already be filling: memset, then the two indices.                         *)
InitData ==
  /\ reader = "out"
  /\ data' = [s \in Slots |-> NoChar]
  /\ reader' = "front"
  /\ UNCHANGED <<front, rear, c, got, answer>>

InitFront ==
  /\ reader = "front"
  /\ front' = 0 /\ reader' = "rear"
  /\ UNCHANGED <<data, rear, c, got, answer>>

InitRear ==
  /\ reader = "rear"
  /\ rear' = 0 /\ reader' = "out" /\ answer' = 1
  /\ UNCHANGED <<data, front, c, got>>

Reader ==
  \/ PopTest \/ PopLoad \/ PopAdvance \/ PopWrap
  \/ InitData \/ InitFront \/ InitRear

Interrupt == (\E ch \in Chars : Push(ch)) \/ PushRefused

KeyBufNext == Reader \/ Interrupt

KeyBufSpec == KeyBufInit /\ [][KeyBufNext]_keybufVars

-----------------------------------------------------------------------------
(* The slots from front to rear, in order, while the buffer is not being     *)
(* emptied.  The moment a character leaves is the store to front.            *)
First == front % Size
Count == (rear - First) % Size
Contents == [n \in 1 .. Count |-> data[(First + n - 1) % Size]]

Emptying == reader \in {"front", "rear"}

Fifo == INSTANCE BoundedFifo WITH
          Capacity <- Size - 1,
          queue <- IF Emptying THEN <<>> ELSE Contents,
          resetting <- Emptying,
          refused <- answer = 0 /\ ~Emptying,
          got <- IF reader = "wrap" THEN c ELSE got

(* Interrupts between any two accesses of the reader lose, repeat or reorder *)
(* no character; none is accepted that overwrites one still waiting, and     *)
(* none is refused while fewer than Size - 1 are: also while front is one    *)
(* past the array.                                                           *)
ImplementsFifo == Fifo!Spec

(* The slot the reader has copied but not yet given up is not overwritten.   *)
SlotKept == reader = "advance" => c = data[front]
=============================================================================
