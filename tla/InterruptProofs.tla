--------------------------- MODULE InterruptProofs ---------------------------
(***************************************************************************)
(* What runs between the kernel's interrupts, for any sizes of its buffers *)
(* and any threads: the path of a key, then boot and the threads.          *)
(*                                                                         *)
(* The key buffer: an interrupt between two accesses of the reader never   *)
(* touches the slot the reader is at, and the ring is a FIFO.  What makes  *)
(* it inductive: from the test for emptiness to the store to front, front  *)
(* and rear differ, and only the store that passes the end of the array    *)
(* leaves front outside it.                                                *)
(*                                                                         *)
(* The console driver: the bytes on their way will be decoded as they were *)
(* meant, and decoder, ring and interrupt are queues in a row.  What makes *)
(* it inductive: a state of the decoder and a number of characters after   *)
(* each byte that is on its way.                                           *)
(*                                                                         *)
(* Boot, schedule and switch_to, for any lists proc_init may build and any *)
(* state of the generator.  What makes them inductive: the boot sets the   *)
(* flags in its order (Booting), schedule remembers the flag it found      *)
(* where it is called from the idle loop (Remembered), and what it chose   *)
(* is listed and is currentthread until the switch (Chosen).               *)
(***************************************************************************)
EXTENDS KeyBuf, Console, Threads, CommonLemmas, SequenceTheorems, TLAPS

Inside == front = Size <=> reader = "wrap"

Waiting == reader \in {"load", "advance"} => front # rear

Emptied == reader = "rear" => front = 0

KeyBufIInv == KeyBufTypeOK /\ Inside /\ Waiting /\ Emptied /\ SlotKept

(* The zeroed ring is empty, and no reader is inside a call. *)
LEMMA KeyBufInitIInv == KeyBufInit => KeyBufIInv
  BY SizeAssumption, CharAssumption
  DEF KeyBufInit, KeyBufIInv, KeyBufTypeOK, Inside, Waiting, Emptied, SlotKept, Slots

(* A push fills the slot at rear, which is not the reader's, and stops short *)
(* of making rear meet front.                                                *)
LEMMA PushIInv ==
  ASSUME KeyBufIInv, NEW ch \in Chars, Push(ch)
  PROVE  KeyBufIInv'
<1> USE SizeAssumption
<1>1. /\ data \in [Slots -> Chars] /\ front \in 0 .. Size /\ rear \in Slots
      /\ ~Full /\ data' = [data EXCEPT ![rear] = ch]
      /\ rear' = (IF rear + 1 = Size THEN 0 ELSE rear + 1)
      /\ answer' = 1 /\ UNCHANGED <<front, reader, c, got>>
  BY DEF KeyBufIInv, KeyBufTypeOK, Push
<1>2. rear' \in Slots
  BY <1>1 DEF Slots
<1>3. data' \in [Slots -> Chars]
  BY <1>1
<1>4. KeyBufTypeOK'
  BY <1>1, <1>2, <1>3 DEF KeyBufIInv, KeyBufTypeOK
<1>5. Inside' /\ Waiting' /\ Emptied'
  BY <1>1 DEF KeyBufIInv, Inside, Waiting, Emptied, Full, Slots
<1>6. SlotKept'
  <2>1. CASE reader = "advance"
    <3>1. front \in Slots /\ front # rear /\ c = data[front]
      BY <1>1, <2>1 DEF KeyBufIInv, Inside, Waiting, Emptied, SlotKept, Slots
    <3> QED
      BY <1>1, <3>1 DEF SlotKept
  <2>2. CASE reader # "advance"
    BY <1>1, <2>2 DEF SlotKept
  <2> QED
    BY <2>1, <2>2
<1> QED
  BY <1>4, <1>5, <1>6 DEF KeyBufIInv

(* A refusal changes nothing but its result. *)
LEMMA RefusedIInv ==
  ASSUME KeyBufIInv, PushRefused
  PROVE  KeyBufIInv'
BY DEF PushRefused, KeyBufIInv, KeyBufTypeOK, Inside, Waiting, Emptied, SlotKept

(* The accesses of keybuf_pop, one at a time. *)
LEMMA PopIInv ==
  ASSUME KeyBufIInv, PopTest \/ PopLoad \/ PopAdvance \/ PopWrap
  PROVE  KeyBufIInv'
<1> USE SizeAssumption, CharAssumption
<1>1. CASE PopTest
  BY <1>1 DEF PopTest, KeyBufIInv, KeyBufTypeOK, Inside, Waiting, Emptied, SlotKept, Slots
<1>2. CASE PopLoad
  <2>1. front \in Slots /\ data[front] \in Chars
    BY <1>2 DEF PopLoad, KeyBufIInv, KeyBufTypeOK, Inside, Slots
  <2> QED
    BY <1>2, <2>1 DEF PopLoad, KeyBufIInv, KeyBufTypeOK, Inside, Waiting, Emptied, SlotKept
<1>3. CASE PopAdvance
  <2>1. front \in Slots
    BY <1>3 DEF PopAdvance, KeyBufIInv, KeyBufTypeOK, Inside, Slots
  <2>2. CASE front + 1 = Size
    BY <1>3, <2>1, <2>2 DEF PopAdvance, KeyBufIInv, KeyBufTypeOK, Inside, Waiting, Emptied, SlotKept, Slots
  <2>3. CASE front + 1 # Size
    BY <1>3, <2>1, <2>3
    DEF PopAdvance, PopReturn, KeyBufIInv, KeyBufTypeOK, Inside, Waiting, Emptied, SlotKept, Slots
  <2> QED
    BY <2>2, <2>3
<1>4. CASE PopWrap
  BY <1>4 DEF PopWrap, PopReturn, KeyBufIInv, KeyBufTypeOK, Inside, Waiting, Emptied, SlotKept, Slots
<1> QED
  BY <1>1, <1>2, <1>3, <1>4

(* The three stores of keybuf_init. *)
LEMMA InitCallIInv ==
  ASSUME KeyBufIInv, InitData \/ InitFront \/ InitRear
  PROVE  KeyBufIInv'
<1> USE SizeAssumption, CharAssumption
<1>1. CASE InitData
  BY <1>1 DEF InitData, KeyBufIInv, KeyBufTypeOK, Inside, Waiting, Emptied, SlotKept
<1>2. CASE InitFront
  BY <1>2 DEF InitFront, KeyBufIInv, KeyBufTypeOK, Inside, Waiting, Emptied, SlotKept, Slots
<1>3. CASE InitRear
  BY <1>3 DEF InitRear, KeyBufIInv, KeyBufTypeOK, Inside, Waiting, Emptied, SlotKept, Slots
<1> QED
  BY <1>1, <1>2, <1>3

(* Every access of the reader and every push of the interrupt keeps KeyBufIInv. *)
LEMMA KeyBufNextIInv ==
  ASSUME KeyBufIInv, [KeyBufNext]_keybufVars
  PROVE  KeyBufIInv'
<1>1. CASE UNCHANGED keybufVars
  BY <1>1 DEF keybufVars, KeyBufIInv, KeyBufTypeOK, Inside, Waiting, Emptied, SlotKept
<1> QED
  BY <1>1, PushIInv, RefusedIInv, PopIInv, InitCallIInv DEF KeyBufNext, Reader, Interrupt

(* Type correctness: the reader never indexes the array with the front that  *)
(* is one past it, nor does the interrupt handler with rear.                 *)
THEOREM TypeCorrect == KeyBufSpec => []KeyBufTypeOK
<1>1. KeyBufIInv /\ [KeyBufNext]_keybufVars => KeyBufIInv'
  BY KeyBufNextIInv
<1>2. KeyBufIInv => KeyBufTypeOK
  BY DEF KeyBufIInv
<1> QED
  BY <1>1, <1>2, KeyBufInitIInv, PTL DEF KeyBufSpec

(* The slot copied and not yet given up is not overwritten by an interrupt   *)
(* that finds the buffer nearly full.                                        *)
THEOREM SlotKeptAlways == KeyBufSpec => []SlotKept
<1>1. KeyBufIInv /\ [KeyBufNext]_keybufVars => KeyBufIInv'
  BY KeyBufNextIInv
<1>2. KeyBufIInv => SlotKept
  BY DEF KeyBufIInv
<1> QED
  BY <1>1, <1>2, KeyBufInitIInv, PTL DEF KeyBufSpec
-----------------------------------------------------------------------------
(* The ring as a queue.  One wrap around the array is all an index or a       *)
(* difference of indices ever needs.                                          *)
LEMMA OneWrap ==
  ASSUME NEW N \in Nat \ {0}, NEW k \in -N .. 2 * N - 1
  PROVE  k % N = IF k < 0 THEN k + N ELSE IF k < N THEN k ELSE k - N
<1>1. CASE k \in -N .. -1
  BY <1>1
<1>2. CASE k \in 0 .. N - 1
  BY <1>2
<1>3. CASE k \in N .. 2 * N - 1
  BY <1>3
<1> QED
  BY <1>1, <1>2, <1>3

(* The slot n places after slot f, and where the first character waiting is,  *)
(* how many wait and the slot of each.                                        *)
Slot(f, n) == IF f + n < Size THEN f + n ELSE f + n - Size

RingIndices ==
  /\ First = (IF front = Size THEN 0 ELSE front) /\ First \in Slots
  /\ Count = (IF rear < First THEN rear - First + Size ELSE rear - First)
  /\ Count \in Slots
  /\ \A n \in 1 .. Size : (First + n - 1) % Size = Slot(First, n - 1)

LEMMA Indices == KeyBufIInv => RingIndices
<1> SUFFICES ASSUME KeyBufIInv
             PROVE  RingIndices
  OBVIOUS
<1> USE SizeAssumption
<1>1. Size \in Nat /\ front \in 0 .. Size /\ rear \in 0 .. Size - 1
  BY DEF KeyBufIInv, KeyBufTypeOK, Slots
<1>7. \A k \in -Size .. 2 * Size - 1 :
        k % Size = IF k < 0 THEN k + Size ELSE IF k < Size THEN k ELSE k - Size
  <2>1. PICK N \in Nat \ {0} : N = Size
    BY <1>1
  <2>2. \A k \in -N .. 2 * N - 1 :
          k % N = IF k < 0 THEN k + N ELSE IF k < N THEN k ELSE k - N
    BY OneWrap
  <2> QED
    BY <2>1, <2>2
<1>2. First = (IF front = Size THEN 0 ELSE front) /\ First \in 0 .. Size - 1
  BY <1>1, <1>7 DEF First
<1> HIDE DEF First
<1>3. rear - First \in -Size .. 2 * Size - 1
  BY <1>1, <1>2
<1>4. Count = (IF rear < First THEN rear - First + Size ELSE rear - First)
  BY <1>1, <1>2, <1>3, <1>7 DEF Count
<1>5. \A n \in 1 .. Size : First + n - 1 \in -Size .. 2 * Size - 1
  BY <1>1, <1>2
<1>6. \A n \in 1 .. Size : (First + n - 1) % Size = Slot(First, n - 1)
  BY <1>1, <1>2, <1>5, <1>7 DEF Slot
<1> QED
  BY <1>1, <1>2, <1>4, <1>6 DEF Slots, RingIndices

(* The characters waiting are those of the slots from front on.               *)
RingContents ==
  /\ Contents \in Seq(Chars) /\ Len(Contents) = Count
  /\ \A n \in 1 .. Count : Contents[n] = data[Slot(First, n - 1)]

LEMMA ContentsSeq == KeyBufIInv => RingContents
<1> SUFFICES ASSUME KeyBufIInv
             PROVE  RingContents
  OBVIOUS
<1> USE SizeAssumption
<1>1. /\ data \in [Slots -> Chars] /\ Count \in Nat /\ Count < Size
      /\ First \in 0 .. Size - 1
  BY Indices DEF RingIndices, KeyBufIInv, KeyBufTypeOK, Slots
<1>2. Contents = [n \in 1 .. Count |-> data[(First + n - 1) % Size]]
  BY DEF Contents
<1>3. \A n \in 1 .. Count : (First + n - 1) % Size = Slot(First, n - 1)
  BY <1>1, Indices DEF RingIndices
<1>4. \A n \in 1 .. Count : Slot(First, n - 1) \in Slots
  BY <1>1 DEF Slot, Slots
<1> HIDE DEF Count, First
<1>5. Contents \in [1 .. Count -> Chars]
  BY <1>1, <1>2, <1>3, <1>4
<1>6. Contents \in Seq(Chars) /\ Len(Contents) = Count
  BY <1>1, <1>5
<1> QED
  BY <1>2, <1>3, <1>6 DEF RingContents

(* The same of the state after a step.                                        *)
LEMMA RingNext == KeyBufIInv' => RingIndices' /\ RingContents'
<1>1. KeyBufIInv => RingIndices /\ RingContents
  BY Indices, ContentsSeq
<1> QED
  BY <1>1, PTL

(* What the reader's pop will return, or has returned.                        *)
Popped == IF reader = "wrap" THEN c ELSE got

(* A push outside keybuf_init adds its character behind those waiting, of     *)
(* which there were fewer than Size - 1.                                      *)
LEMMA PushPuts ==
  ASSUME KeyBufIInv, NEW ch \in Chars, Push(ch)
  PROVE  Contents' = Append(Contents, ch) /\ Count < Size - 1
<1> USE SizeAssumption
<1>1. KeyBufIInv' /\ First' = First
  BY PushIInv DEF Push, First
<1>2. /\ rear \in 0 .. Size - 1 /\ front \in 0 .. Size /\ ~Full
      /\ data \in [Slots -> Chars] /\ data' = [data EXCEPT ![rear] = ch]
      /\ rear' = IF rear + 1 = Size THEN 0 ELSE rear + 1
  BY DEF KeyBufIInv, KeyBufTypeOK, Slots, Push
<1>3. /\ First = (IF front = Size THEN 0 ELSE front) /\ First \in 0 .. Size - 1
      /\ Count = (IF rear < First THEN rear - First + Size ELSE rear - First)
  BY Indices DEF RingIndices, Slots
<1>4. Count' = (IF rear' < First THEN rear' - First + Size ELSE rear' - First)
  <2>1. Count' = (IF rear' < First' THEN rear' - First' + Size ELSE rear' - First')
    BY <1>1, RingNext DEF RingIndices
  <2> QED
    BY <1>1, <2>1
<1> HIDE DEF Count, First
<1>5. Count \in Nat /\ Count < Size - 1 /\ Count' = Count + 1
  BY <1>2, <1>3, <1>4 DEF Full
<1>6. Slot(First, Count) = rear
  BY <1>2, <1>3 DEF Slot
<1>7. \A n \in 1 .. Count : Slot(First, n - 1) # rear /\ Slot(First, n - 1) \in Slots
  BY <1>2, <1>3, <1>5 DEF Slot, Slots
<1>8. /\ Contents \in Seq(Chars) /\ Len(Contents) = Count
      /\ \A n \in 1 .. Count : Contents[n] = data[Slot(First, n - 1)]
  BY ContentsSeq DEF RingContents
<1>9. /\ Contents' \in Seq(Chars) /\ Len(Contents') = Count'
      /\ \A n \in 1 .. Count' : Contents'[n] = data'[Slot(First, n - 1)]
  <2>1. /\ Contents' \in Seq(Chars) /\ Len(Contents') = Count'
        /\ \A n \in 1 .. Count' : Contents'[n] = data'[Slot(First', n - 1)]
    BY <1>1, RingNext DEF RingContents, Slot
  <2> QED
    BY <1>1, <2>1
<1> HIDE DEF Contents
<1>10. /\ Append(Contents, ch) \in Seq(Chars) /\ Len(Append(Contents, ch)) = Count'
       /\ \A n \in 1 .. Count : Append(Contents, ch)[n] = Contents[n]
       /\ Append(Contents, ch)[Count + 1] = ch
  BY <1>5, <1>8, AppendProperties
<1>11. ASSUME NEW n \in 1 .. Count'
       PROVE  Contents'[n] = Append(Contents, ch)[n]
  <2>1. CASE n = Count + 1
    <3>1. Slot(First, n - 1) = rear /\ rear \in Slots
      BY <1>2, <1>5, <1>6, <2>1 DEF Slots
    <3> QED
      BY <1>2, <1>9, <1>10, <2>1, <3>1
  <2>2. CASE n # Count + 1
    <3>1. n \in 1 .. Count
      BY <1>5, <2>2
    <3>2. Contents'[n] = data'[Slot(First, n - 1)] /\ Contents[n] = data[Slot(First, n - 1)]
      BY <1>8, <1>9, <3>1
    <3> QED
      BY <1>2, <1>7, <1>10, <3>1, <3>2
  <2> QED
    BY <2>1, <2>2
<1>12. Contents' = Append(Contents, ch)
  BY <1>9, <1>10, <1>11, SeqEqual
<1> QED
  BY <1>5, <1>12

(* The store to front takes the first character off, the one the reader has   *)
(* copied.                                                                    *)
LEMMA AdvanceTakes ==
  ASSUME KeyBufIInv, PopAdvance
  PROVE  Contents # <<>> /\ Head(Contents) = c /\ Contents' = Tail(Contents)
<1> USE SizeAssumption
<1>1. /\ KeyBufIInv' /\ data' = data /\ rear' = rear /\ front' = front + 1
      /\ front \in 0 .. Size - 1 /\ front # rear /\ c = data[front] /\ rear \in 0 .. Size - 1
  BY PopIInv DEF PopAdvance, KeyBufIInv, KeyBufTypeOK, Inside, Waiting, SlotKept, Slots
<1>2. /\ First = front
      /\ Count = (IF rear < First THEN rear - First + Size ELSE rear - First)
  BY <1>1, Indices DEF RingIndices
<1>3. /\ First' = (IF front' = Size THEN 0 ELSE front')
      /\ Count' = (IF rear' < First' THEN rear' - First' + Size ELSE rear' - First')
  BY <1>1, RingNext DEF RingIndices
<1>4. /\ Contents \in Seq(Chars) /\ Len(Contents) = Count
      /\ \A n \in 1 .. Count : Contents[n] = data[Slot(First, n - 1)]
  BY ContentsSeq DEF RingContents
<1>5. /\ Contents' \in Seq(Chars) /\ Len(Contents') = Count'
      /\ \A n \in 1 .. Count' : Contents'[n] = data[Slot(First', n - 1)]
  BY <1>1, RingNext DEF RingContents, Slot
<1> HIDE DEF Count, First
<1>6. Count \in Nat /\ Count > 0 /\ Count < Size /\ Count' = Count - 1
  BY <1>1, <1>2, <1>3
<1>7. \A n \in 1 .. Count' : Slot(First', n - 1) = Slot(First, n)
  BY <1>1, <1>2, <1>3, <1>6 DEF Slot
<1> HIDE DEF Contents
<1>8. Contents # <<>>
  BY <1>4, <1>6
<1>9. Head(Contents) = c
  <2>1. Slot(First, 0) = front
    BY <1>1, <1>2 DEF Slot
  <2> QED
    BY <1>1, <1>4, <1>6, <1>8, <2>1
<1>10. /\ Tail(Contents) \in Seq(Chars) /\ Len(Tail(Contents)) = Count'
       /\ \A n \in 1 .. Count' : Tail(Contents)[n] = Contents[n + 1]
  BY <1>4, <1>6, <1>8, HeadTailProperties
<1>11. ASSUME NEW n \in 1 .. Count'
       PROVE  Contents'[n] = Tail(Contents)[n]
  <2>1. n + 1 \in 1 .. Count /\ (n + 1) - 1 = n
    BY <1>6
  <2>2. Contents[n + 1] = data[Slot(First, n)]
    BY <1>4, <2>1
  <2> QED
    BY <1>5, <1>7, <1>10, <2>2
<1>12. Contents' = Tail(Contents)
  BY <1>5, <1>10, <1>11, SeqEqual
<1> QED
  BY <1>8, <1>9, <1>12

(* Between the two stores of front that wrap it nothing seems to move.        *)
LEMMA WrapKeeps ==
  ASSUME KeyBufIInv, PopWrap
  PROVE  Contents' = Contents
<1>1. First' = First
  <2>1. KeyBufIInv' /\ front = Size /\ front' = 0
    BY PopIInv DEF PopWrap, KeyBufIInv, Inside
  <2>2. First = 0
    BY <2>1, Indices DEF RingIndices
  <2>3. First' = 0
    BY <2>1, SizeAssumption, RingNext DEF RingIndices
  <2> QED
    BY <2>2, <2>3
<1>2. data' = data /\ rear' = rear
  BY DEF PopWrap
<1> QED
  BY <1>1, <1>2 DEF Contents, Count

(* Indices that agree mean an empty ring.                                     *)
LEMMA EmptyRing ==
  ASSUME KeyBufIInv, front = rear
  PROVE  Contents = <<>>
<1>1. Count = 0
  BY Indices, SizeAssumption DEF RingIndices, KeyBufIInv, KeyBufTypeOK, Slots
<1> QED
  BY <1>1, ContentsSeq DEF RingContents

(* The two tests of keybuf_push find a full ring and no other.                *)
LEMMA RefusedFull ==
  ASSUME KeyBufIInv, Full
  PROVE  Len(Contents) = Size - 1
<1> USE SizeAssumption
<1>1. front \in 0 .. Size /\ rear \in 0 .. Size - 1
  BY DEF KeyBufIInv, KeyBufTypeOK, Slots
<1>2. /\ First = (IF front = Size THEN 0 ELSE front)
      /\ Count = (IF rear < First THEN rear - First + Size ELSE rear - First)
  BY Indices DEF RingIndices
<1> HIDE DEF Count, First
<1>3. Count = Size - 1
  BY <1>1, <1>2 DEF Full
<1> QED
  BY <1>3, ContentsSeq DEF RingContents

(* The queue that BoundedFifo sees, and the refusal it sees.                  *)
Queue == IF Emptying THEN <<>> ELSE Contents
Refused == answer = 0 /\ ~Emptying

(* Every access of the reader and every push is a step of the bounded queue.  *)
LEMMA FifoStep ==
  ASSUME KeyBufIInv, [KeyBufNext]_keybufVars
  PROVE  [Fifo!Next]_<<Queue, Emptying, Popped, Refused>>
<1> USE DEF Queue, Popped, Refused
<1>0. KeyBufIInv'
  BY KeyBufNextIInv
<1>1. CASE UNCHANGED keybufVars
  BY <1>1 DEF keybufVars, Emptying, Contents, Count, First
<1>2. ASSUME NEW ch \in Chars, Push(ch)
      PROVE  [Fifo!Next]_<<Queue, Emptying, Popped, Refused>>
  <2>1. UNCHANGED <<reader, c, got>> /\ answer' = 1
    BY <1>2 DEF Push
  <2>2. CASE Emptying
    BY <2>1, <2>2 DEF Emptying
  <2>3. CASE ~Emptying
    <3>1. /\ Contents' = Append(Contents, ch) /\ Len(Contents) < Size - 1
      BY <1>2, PushPuts, ContentsSeq DEF RingContents
    <3>2. Fifo!Put(ch)
      BY <2>1, <2>3, <3>1 DEF Fifo!Put, Emptying
    <3> QED
      BY <3>2 DEF Fifo!Next
  <2> QED
    BY <2>2, <2>3
<1>10. CASE PushRefused
  <2>1. /\ Full /\ answer' = 0 /\ UNCHANGED <<data, front, rear, reader, c, got>>
    BY <1>10 DEF PushRefused
  <2>2. Contents' = Contents /\ Emptying' = Emptying
    BY <2>1 DEF Contents, Count, First, Emptying
  <2>3. CASE Emptying
    BY <2>1, <2>2, <2>3
  <2>4. CASE ~Emptying
    <3>1. Len(Contents) = Size - 1
      BY <2>1, RefusedFull
    <3>2. Fifo!Refuse
      BY <2>1, <2>2, <2>4, <3>1 DEF Fifo!Refuse
    <3> QED
      BY <3>2 DEF Fifo!Next
  <2> QED
    BY <2>3, <2>4
<1>3. CASE PopTest
  <2>1. /\ ~Emptying /\ Emptying' = Emptying /\ UNCHANGED <<data, front, rear, c, answer>>
        /\ reader # "wrap" /\ reader' # "wrap"
    BY <1>3 DEF PopTest, Emptying
  <2>2. Contents' = Contents
    BY <2>1 DEF Contents, Count, First
  <2>3. CASE front = rear
    <3>1. Contents = <<>> /\ got' = NoChar
      BY <1>3, <2>3, EmptyRing DEF PopTest
    <3>2. Fifo!GetNothing
      BY <2>1, <2>2, <3>1 DEF Fifo!GetNothing
    <3> QED
      BY <3>2 DEF Fifo!Next
  <2>4. CASE front # rear
    BY <1>3, <2>1, <2>2, <2>4 DEF PopTest
  <2> QED
    BY <2>3, <2>4
<1>4. CASE PopLoad
  <2>1. Contents' = Contents
    BY <1>4 DEF PopLoad, Contents, Count, First
  <2> QED
    BY <1>4, <2>1 DEF PopLoad, Emptying
<1>5. CASE PopAdvance
  <2>1. Contents # <<>> /\ Head(Contents) = c /\ Contents' = Tail(Contents)
    BY <1>5, AdvanceTakes
  <2>2. ~Emptying /\ Emptying' = Emptying /\ Popped' = c /\ answer' = 1
    BY <1>5 DEF PopAdvance, PopReturn, Emptying
  <2>3. Fifo!Get
    BY <2>1, <2>2 DEF Fifo!Get
  <2> QED
    BY <2>3 DEF Fifo!Next
<1>6. CASE PopWrap
  <2>1. Contents' = Contents
    BY <1>6, WrapKeeps
  <2> QED
    BY <1>6, <2>1 DEF PopWrap, PopReturn, Emptying, KeyBufIInv, Inside
<1>7. CASE InitData
  <2>1. Fifo!BeginReset
    BY <1>7 DEF InitData, Fifo!BeginReset, Emptying
  <2> QED
    BY <2>1 DEF Fifo!Next
<1>8. CASE InitFront
  BY <1>8 DEF InitFront, Emptying
<1>9. CASE InitRear
  <2>1. front' = rear'
    BY <1>9 DEF InitRear, KeyBufIInv, Emptied
  <2>2. Contents' = <<>>
    <3>1. front' = 0 /\ rear' = 0 /\ Count' = 0
      BY <1>0, <1>9, <2>1, RingNext, SizeAssumption DEF RingIndices, InitRear
    <3> QED
      BY <1>0, <3>1, RingNext DEF RingContents
  <2>3. Fifo!EndReset
    BY <1>9, <2>2 DEF InitRear, Fifo!EndReset, Emptying
  <2> QED
    BY <2>3 DEF Fifo!Next
<1> QED
  BY <1>1, <1>2, <1>3, <1>4, <1>5, <1>6, <1>7, <1>8, <1>9, <1>10
  DEF KeyBufNext, Reader, Interrupt

(* Whatever accesses of the reader the interrupts come between, the ring is a *)
(* queue of Size - 1 characters: none is lost, repeated or reordered, and one *)
(* is refused only when it is full.                                           *)
THEOREM Implements == KeyBufSpec => ImplementsFifo
<1>1. KeyBufInit => Fifo!Init
  <2> SUFFICES ASSUME KeyBufInit
               PROVE  Fifo!Init
    OBVIOUS
  <2>1. Contents = <<>>
    BY KeyBufInitIInv, EmptyRing DEF KeyBufInit
  <2> QED
    BY <2>1 DEF KeyBufInit, Fifo!Init, Emptying
<1>2. KeyBufIInv /\ [KeyBufNext]_keybufVars => [Fifo!Next]_<<Queue, Emptying, Popped, Refused>>
  BY FifoStep
<1>3. KeyBufIInv /\ [KeyBufNext]_keybufVars => KeyBufIInv'
  BY KeyBufNextIInv
<1> QED
  BY <1>1, <1>2, <1>3, KeyBufInitIInv, PTL DEF KeyBufSpec, ImplementsFifo, Fifo!Spec, Queue, Popped, Refused

-----------------------------------------------------------------------------
(* The console driver.  The codes the modelled keys have, and the bits of the *)
(* decoder's state.                                                          *)
Codes == {97, 65, 1, 10, 13, KEY_LF}
Modifiers == {"SHIFT", "CTL", "CAPSLOCK"}
Bits == Modifiers \cup {"ALT", "NUMLOCK", "SCROLLLOCK", "E0ESC"}
AllKeys == {"lshift", "rshift", "lctl", "rctl", "caps", "a", "enter", "left"}

(* The bytes w, decoded from state s0 on, end in state s1 and mean cs: sh is  *)
(* the state and pos the number of characters after each byte.                *)
Decodes(w, s0, s1, cs, sh, pos) ==
  /\ sh \in [0 .. Len(w) -> SUBSET Bits] /\ pos \in [0 .. Len(w) -> 0 .. Len(cs)]
  /\ sh[0] = s0 /\ pos[0] = 0 /\ sh[Len(w)] = s1 /\ pos[Len(w)] = Len(cs)
  /\ \A i \in 1 .. Len(w) :
       LET p == kbd_proc_data(sh[i - 1], w[i])
       IN  /\ sh[i] = p.shift
           /\ pos[i] = pos[i - 1] + (IF p.c = 0 THEN 0 ELSE 1)
           /\ p.c # 0 => cs[pos[i]] = p.c

Means(w, s0, s1, cs) == \E sh, pos : Decodes(w, s0, s1, cs, sh, pos)

ConsoleType ==
  /\ wire \in Seq(Nat) /\ shift \subseteq Bits /\ typed \in Seq(Codes)
  /\ buf \in [0 .. ConsBufSize - 1 -> Codes \cup {0}]
  /\ rpos \in 0 .. ConsBufSize - 1 /\ wpos \in 0 .. ConsBufSize - 1
  /\ kb \in Seq({Signed(v) : v \in Codes \cup {0}})
  /\ held \subseteq Keys /\ on \subseteq Modifiers
  /\ mode \in {"boot", "run", "panic"} /\ latched \in BOOLEAN

(* A shift or control bit is on only while a key for it is down. *)
HeldOn == \A m \in {"SHIFT", "CTL"} \cap on : \E k \in held : m \in Modifier(k)

ConsoleInv == ConsoleType /\ Means(wire, shift, on, typed) /\ HeldOn

(* Any byte leaves a state of the decoder and makes a code of the table or 0. *)
LEMMA ProcType ==
  ASSUME NEW s \in SUBSET Bits, NEW b
  PROVE  /\ kbd_proc_data(s, b).shift \in SUBSET Bits
         /\ kbd_proc_data(s, b).c \in Codes \cup {0}
<1>1. ASSUME NEW mods, NEW d
      PROVE  charcode(mods, d) \in Codes \cup {0} /\ Capitalised(charcode(mods, d)) \in Codes \cup {0}
  BY DEF charcode, Capitalised, Codes, KEY_LF
<1>2. \A d : shiftcode(d) \in SUBSET Bits /\ togglecode(d) \in SUBSET Bits
  BY DEF shiftcode, togglecode, Bits, Modifiers
<1>3. Pressed(s, b).shift \in SUBSET Bits /\ Pressed(s, b).c \in Codes \cup {0}
  <2> DEFINE code == IF "E0ESC" \in s THEN b + 128 ELSE b
             mods == Toggled((s \ {"E0ESC"}) \cup shiftcode(code), togglecode(code))
  <2>1. /\ Pressed(s, b).shift = mods
        /\ Pressed(s, b).c = IF "CAPSLOCK" \in mods THEN Capitalised(charcode(mods, code))
                             ELSE charcode(mods, code)
    BY DEF Pressed
  <2>2. mods \in SUBSET Bits
    BY <1>2 DEF Toggled
  <2> HIDE DEF mods, code
  <2> QED
    BY <1>1, <2>1, <2>2
<1>4. Released(s, b) \in SUBSET Bits
  BY DEF Released
<1>5. "E0ESC" \in Bits
  BY DEF Bits
<1>6. CASE b = E0
  BY <1>5, <1>6 DEF kbd_proc_data
<1>7. CASE b # E0 /\ b >= 128
  BY <1>4, <1>7 DEF kbd_proc_data
<1>8. CASE b # E0 /\ ~(b >= 128)
  <2>1. kbd_proc_data(s, b) = Pressed(s, b)
    BY <1>8 DEF kbd_proc_data
  <2> QED
    BY <1>3, <2>1
<1> QED
  BY <1>6, <1>7, <1>8

(* One byte more. *)
LEMMA MeansAppend ==
  ASSUME NEW w \in Seq(Nat), NEW s0 \in SUBSET Bits, NEW s1 \in SUBSET Bits,
         NEW cs \in Seq(Codes), Means(w, s0, s1, cs), NEW b \in Nat
  PROVE  LET p == kbd_proc_data(s1, b)
         IN  Means(Append(w, b), s0, p.shift, IF p.c = 0 THEN cs ELSE Append(cs, p.c))
<1>1. PICK sh, pos : Decodes(w, s0, s1, cs, sh, pos)
  BY DEF Means
<1>2. PICK p : p = kbd_proc_data(s1, b)
  OBVIOUS
<1>3. p.shift \in SUBSET Bits /\ p.c \in Codes \cup {0}
  BY <1>2, ProcType
<1>4. PICK n \in Nat : n = Len(w)
  OBVIOUS
<1>17. PICK W : W = Append(w, b)
  OBVIOUS
<1>5. PICK ds : ds = IF p.c = 0 THEN cs ELSE Append(cs, p.c)
  OBVIOUS
<1>6. PICK m \in Nat : m = Len(cs)
  OBVIOUS
<1>7. /\ Len(W) = n + 1 /\ W[n + 1] = b /\ \A i \in 1 .. n : W[i] = w[i]
  BY <1>4, <1>17
<1>8. /\ Len(ds) = m + (IF p.c = 0 THEN 0 ELSE 1) /\ \A i \in 1 .. m : ds[i] = cs[i]
      /\ p.c # 0 => ds[m + 1] = p.c
  BY <1>3, <1>5, <1>6
<1>9. /\ sh \in [0 .. n -> SUBSET Bits] /\ pos \in [0 .. n -> 0 .. m]
      /\ sh[0] = s0 /\ pos[0] = 0 /\ sh[n] = s1 /\ pos[n] = m
  BY <1>1, <1>4, <1>6 DEF Decodes
<1>10. ASSUME NEW i \in 1 .. n, NEW q, q = kbd_proc_data(sh[i - 1], w[i])
       PROVE  /\ sh[i] = q.shift /\ pos[i] = pos[i - 1] + (IF q.c = 0 THEN 0 ELSE 1)
              /\ q.c # 0 => cs[pos[i]] = q.c
  BY <1>1, <1>4, <1>10 DEF Decodes
<1>11. PICK sh2 : sh2 = [i \in 0 .. n + 1 |-> IF i = n + 1 THEN p.shift ELSE sh[i]]
  OBVIOUS
<1>12. PICK pos2 : pos2 = [i \in 0 .. n + 1 |-> IF i = n + 1 THEN Len(ds) ELSE pos[i]]
  OBVIOUS
<1>13. sh2 \in [0 .. n + 1 -> SUBSET Bits] /\ pos2 \in [0 .. n + 1 -> 0 .. Len(ds)]
  <2>1. \A i \in 0 .. n + 1 : i # n + 1 => i \in 0 .. n
    OBVIOUS
  <2>2. \A j \in 0 .. m : j \in 0 .. Len(ds)
    BY <1>8
  <2>3. Len(ds) \in 0 .. Len(ds)
    BY <1>8
  <2> QED
    BY <1>3, <1>9, <1>11, <1>12, <2>1, <2>2, <2>3
<1>14. ASSUME NEW i \in 1 .. n + 1, NEW q, q = kbd_proc_data(sh2[i - 1], W[i])
       PROVE  /\ sh2[i] = q.shift /\ pos2[i] = pos2[i - 1] + (IF q.c = 0 THEN 0 ELSE 1)
              /\ q.c # 0 => ds[pos2[i]] = q.c
  <2>1. i - 1 \in 0 .. n /\ i - 1 # n + 1 /\ i - 1 \in 0 .. n + 1 /\ i \in 0 .. n + 1
    OBVIOUS
  <2>2. sh2[i - 1] = sh[i - 1] /\ pos2[i - 1] = pos[i - 1]
    BY <1>11, <1>12, <2>1
  <2>3. CASE i = n + 1
    <3>1. i - 1 = n /\ q = p
      BY <1>2, <1>7, <1>9, <1>14, <2>2, <2>3
    <3>2. sh2[i] = p.shift /\ pos2[i] = Len(ds) /\ pos2[i - 1] = m
      BY <1>9, <1>11, <1>12, <2>1, <2>2, <2>3, <3>1
    <3> QED
      BY <1>8, <3>1, <3>2
  <2>4. CASE i # n + 1
    <3>1. i \in 1 .. n /\ q = kbd_proc_data(sh[i - 1], w[i])
      BY <1>7, <1>14, <2>2, <2>4
    <3>2. sh2[i] = sh[i] /\ pos2[i] = pos[i]
      BY <1>11, <1>12, <2>1, <2>4
    <3>3. /\ sh[i] = q.shift /\ pos[i] = pos[i - 1] + (IF q.c = 0 THEN 0 ELSE 1)
          /\ q.c # 0 => cs[pos[i]] = q.c
      BY <1>10, <3>1
    <3>4. q.c # 0 => pos[i] \in 1 .. m
      <4>1. pos[i] \in 0 .. m /\ pos[i - 1] \in 0 .. m
        BY <1>9, <2>1, <3>1
      <4> QED
        BY <3>3, <4>1
    <3> QED
      BY <1>8, <2>2, <3>2, <3>3, <3>4
  <2> QED
    BY <2>3, <2>4
<1>15. sh2[0] = s0 /\ pos2[0] = 0 /\ sh2[n + 1] = p.shift /\ pos2[n + 1] = Len(ds)
  BY <1>9, <1>11, <1>12
<1>16. Decodes(W, s0, p.shift, ds, sh2, pos2)
  BY <1>7, <1>13, <1>14, <1>15 DEF Decodes
<1> QED
  BY <1>2, <1>5, <1>16, <1>17 DEF Means

(* What each byte contributes, for a reader who has the sequences at hand. *)
Contributes(w, cs, sh, pos, i) ==
  /\ \A q : q = kbd_proc_data(sh[i - 1], w[i]) =>
       /\ sh[i] = q.shift /\ pos[i] = pos[i - 1] + (IF q.c = 0 THEN 0 ELSE 1)
       /\ q.c # 0 => cs[pos[i]] = q.c
  /\ sh[i - 1] \in SUBSET Bits /\ sh[i] \in SUBSET Bits
  /\ pos[i - 1] \in 0 .. Len(cs) /\ pos[i] \in 0 .. Len(cs)

LEMMA DecodesAt ==
  ASSUME NEW w \in Seq(Nat), NEW s0, NEW s1, NEW cs \in Seq(Codes), NEW sh, NEW pos,
         Decodes(w, s0, s1, cs, sh, pos)
  PROVE  \A i \in 1 .. Len(w) : Contributes(w, cs, sh, pos, i)
<1>1. \A i \in 1 .. Len(w) : i \in 0 .. Len(w) /\ i - 1 \in 0 .. Len(w)
  OBVIOUS
<1> QED
  BY <1>1 DEF Decodes, Contributes

LEMMA PosGrows ==
  ASSUME NEW w \in Seq(Nat), NEW s0, NEW s1, NEW cs \in Seq(Codes), NEW sh, NEW pos,
         Decodes(w, s0, s1, cs, sh, pos), NEW n \in 0 .. Len(w)
  PROVE  \A j \in n .. Len(w) : pos[n] <= pos[j]
<1> DEFINE Good == {j \in n .. Len(w) : pos[n] <= pos[j]}
<1>1. PICK L \in Nat : L = Len(w)
  OBVIOUS
<1>2. \A j \in 0 .. L : pos[j] \in Nat
  <2>1. pos \in [0 .. L -> 0 .. Len(cs)]
    BY <1>1 DEF Decodes
  <2>2. \A k \in 0 .. Len(cs) : k \in Nat
    OBVIOUS
  <2> QED
    BY <2>1, <2>2
<1>7. \A i \in 1 .. L : Contributes(w, cs, sh, pos, i)
  BY <1>1, DecodesAt
<1>3. n \in Good
  BY <1>1, <1>2
<1>4. ASSUME NEW j \in n .. L, j \in Good, j < L
      PROVE  j + 1 \in Good
  <2>1. j + 1 \in 1 .. L /\ j + 1 \in n .. L /\ j = j + 1 - 1 /\ j + 1 \in 0 .. L /\ j \in 0 .. L
    BY <1>1, <1>4
  <2>2. PICK q : q = kbd_proc_data(sh[j + 1 - 1], w[j + 1])
    OBVIOUS
  <2>3. pos[j + 1] = pos[j] + (IF q.c = 0 THEN 0 ELSE 1)
    BY <1>7, <2>1, <2>2 DEF Contributes
  <2> QED
    BY <1>1, <1>2, <1>4, <2>1, <2>3
<1>5. Good \in SUBSET (n .. L) /\ n \in Nat
  BY <1>1
<1> HIDE DEF Good
<1>6. Good = n .. L
  BY <1>3, <1>4, <1>5, Steps
<1> QED
  BY <1>1, <1>6 DEF Good

(* The bytes after the first n, decoded from the state those leave. *)
LEMMA MeansRest ==
  ASSUME NEW w \in Seq(Nat), NEW s0, NEW s1, NEW cs \in Seq(Codes), NEW sh, NEW pos,
         Decodes(w, s0, s1, cs, sh, pos), NEW n \in 0 .. Len(w)
  PROVE  Means(SubSeq(w, n + 1, Len(w)), sh[n], s1, SubSeq(cs, pos[n] + 1, Len(cs)))
<1>1. PICK L \in Nat : L = Len(w)
  OBVIOUS
<1>2. PICK m \in Nat : m = Len(cs)
  OBVIOUS
<1>3. PICK k : k = pos[n]
  OBVIOUS
<1>4. /\ sh \in [0 .. L -> SUBSET Bits] /\ pos \in [0 .. L -> 0 .. m]
      /\ sh[L] = s1 /\ pos[L] = m
  BY <1>1, <1>2 DEF Decodes
<1>5. k \in 0 .. m /\ \A j \in n .. L : k <= pos[j]
  BY <1>1, <1>3, <1>4, PosGrows
<1>6. PICK v : v = SubSeq(w, n + 1, L)
  OBVIOUS
<1>7. PICK ds : ds = SubSeq(cs, k + 1, m)
  OBVIOUS
<1>8. v \in Seq(Nat) /\ Len(v) = L - n /\ \A i \in 1 .. L - n : v[i] = w[i + n]
  BY <1>1, <1>6
<1>9. ds \in Seq(Codes) /\ Len(ds) = m - k /\ \A i \in 1 .. m - k : ds[i] = cs[i + k]
  BY <1>2, <1>5, <1>7
<1>10. PICK sh2 : sh2 = [i \in 0 .. L - n |-> sh[i + n]]
  OBVIOUS
<1>11. PICK pos2 : pos2 = [i \in 0 .. L - n |-> pos[i + n] - k]
  OBVIOUS
<1>12. \A i \in 0 .. L - n : i + n \in n .. L /\ i + n \in 0 .. L
  BY <1>1
<1>13. sh2 \in [0 .. L - n -> SUBSET Bits] /\ pos2 \in [0 .. L - n -> 0 .. m - k]
  <2>1. sh2 \in [0 .. L - n -> SUBSET Bits]
    BY <1>4, <1>10, <1>12
  <2>2. \A i \in 0 .. L - n : pos[i + n] - k \in 0 .. m - k
    BY <1>4, <1>5, <1>12
  <2> QED
    BY <1>11, <2>1, <2>2
<1>14. sh2[0] = sh[n] /\ pos2[0] = 0 /\ sh2[L - n] = s1 /\ pos2[L - n] = m - k
  <2>1. 0 \in 0 .. L - n /\ L - n \in 0 .. L - n /\ 0 + n = n /\ L - n + n = L /\ k - k = 0
    BY <1>1, <1>5
  <2> QED
    BY <1>3, <1>4, <1>10, <1>11, <2>1
<1>15. ASSUME NEW i \in 1 .. L - n, NEW q, q = kbd_proc_data(sh2[i - 1], v[i])
       PROVE  /\ sh2[i] = q.shift /\ pos2[i] = pos2[i - 1] + (IF q.c = 0 THEN 0 ELSE 1)
              /\ q.c # 0 => ds[pos2[i]] = q.c
  <2>1. i - 1 \in 0 .. L - n /\ i \in 0 .. L - n /\ i + n \in 1 .. L /\ (i + n) - 1 = (i - 1) + n
    BY <1>1
  <2>2. /\ sh2[i] = sh[i + n] /\ pos2[i] = pos[i + n] - k
        /\ sh2[i - 1] = sh[i + n - 1] /\ pos2[i - 1] = pos[i + n - 1] - k
    BY <1>10, <1>11, <2>1
  <2>3. q = kbd_proc_data(sh[i + n - 1], w[i + n])
    BY <1>8, <1>15, <2>2
  <2>9. \A h \in 1 .. L : Contributes(w, cs, sh, pos, h)
    BY <1>1, DecodesAt
  <2>4. /\ sh[i + n] = q.shift /\ pos[i + n] = pos[i + n - 1] + (IF q.c = 0 THEN 0 ELSE 1)
        /\ q.c # 0 => cs[pos[i + n]] = q.c
        /\ pos[i + n - 1] \in 0 .. m /\ pos[i + n] \in 0 .. m
    BY <1>2, <2>1, <2>3, <2>9 DEF Contributes
  <2>5. k <= pos[i + n - 1]
    BY <1>5, <1>12, <2>1
  <2>6. q.c # 0 => pos[i + n] - k \in 1 .. m - k /\ (pos[i + n] - k) + k = pos[i + n]
    <3>1. PICK x, y : x = pos[i + n] /\ y = pos[i + n - 1]
      OBVIOUS
    <3>2. x \in Int /\ y \in Int /\ k \in Int /\ m \in Int
      BY <1>5, <2>4, <3>1
    <3>3. q.c # 0 => x = y + 1
      BY <2>4, <3>1
    <3>4. x <= m /\ k <= y
      BY <2>4, <2>5, <3>1
    <3> QED
      BY <3>1, <3>2, <3>3, <3>4
  <2>7. q.c # 0 => ds[pos[i + n] - k] = cs[pos[i + n]]
    BY <1>9, <2>6
  <2>8. pos2[i] = pos2[i - 1] + (IF q.c = 0 THEN 0 ELSE 1)
    BY <1>5, <2>2, <2>4
  <2> QED
    BY <2>2, <2>4, <2>7, <2>8
<1>16. Decodes(v, sh[n], s1, ds, sh2, pos2)
  BY <1>8, <1>9, <1>13, <1>14, <1>15 DEF Decodes
<1> QED
  BY <1>1, <1>2, <1>3, <1>6, <1>7, <1>16 DEF Means

-----------------------------------------------------------------------------
(* The drain.  A fold that goes through a sequence from its first byte to its *)
(* last passes through states each of which is one turn after the one before. *)
DriverType ==
  [shift : SUBSET Bits, buf : [0 .. ConsBufSize - 1 -> Codes \cup {0}],
   wpos : 0 .. ConsBufSize - 1, n : Nat]

LEMMA TurnType ==
  ASSUME NEW d \in DriverType, NEW b
  PROVE  Turn(d, b) \in DriverType
<1>1. PICK p : p = kbd_proc_data(d.shift, b)
  OBVIOUS
<1>2. /\ d.shift \in SUBSET Bits /\ d.buf \in [0 .. ConsBufSize - 1 -> Codes \cup {0}]
      /\ d.wpos \in 0 .. ConsBufSize - 1 /\ d.n \in Nat
      /\ d = [shift |-> d.shift, buf |-> d.buf, wpos |-> d.wpos, n |-> d.n]
  BY DEF DriverType
<1>3. p.shift \in SUBSET Bits /\ p.c \in Codes \cup {0}
  BY <1>1, <1>2, ProcType
<1>4. CASE p.c = 0
  <2>1. Turn(d, b) = [d EXCEPT !.shift = p.shift]
    BY <1>1, <1>4 DEF Turn
  <2>2. Turn(d, b) = [shift |-> p.shift, buf |-> d.buf, wpos |-> d.wpos, n |-> d.n]
    BY <1>2, <2>1
  <2> QED
    BY <1>2, <1>3, <2>2 DEF DriverType
<1>5. CASE p.c # 0
  <2>1. Turn(d, b) = [shift |-> p.shift, buf |-> [d.buf EXCEPT ![d.wpos] = p.c],
                      wpos |-> Advanced(d.wpos), n |-> d.n + 1]
    BY <1>1, <1>5 DEF Turn
  <2>2. [d.buf EXCEPT ![d.wpos] = p.c] \in [0 .. ConsBufSize - 1 -> Codes \cup {0}]
    BY <1>2, <1>3
  <2>3. Advanced(d.wpos) \in 0 .. ConsBufSize - 1 /\ d.n + 1 \in Nat
    BY <1>2, ConsoleAssumption DEF Advanced
  <2> QED
    BY <1>3, <2>1, <2>2, <2>3 DEF DriverType
<1> QED
  BY <1>4, <1>5

TurnFold(f, first, w) ==
  f = [s \in SUBSET DOMAIN w |->
         IF s = {} THEN first ELSE Turn(f[s \ {Max(s)}], w[Max(s)])]

Turns(h, w) ==
  /\ h \in [0 .. Len(w) -> DriverType]
  /\ \A i \in 1 .. Len(w) : h[i] = Turn(h[i - 1], w[i])

LEMMA TurnTrace ==
  ASSUME NEW w \in Seq(Nat), NEW first \in DriverType
  PROVE  \E h : Turns(h, w) /\ h[0] = first /\ h[Len(w)] = FoldLeft(Turn, first, w)
<1>1. PICK n \in Nat : n = Len(w) /\ DOMAIN w = 1 .. n
  OBVIOUS
<1>2. PICK step : step = [i \in 1 .. n |-> [d \in DriverType |-> Turn(d, w[i])]]
  OBVIOUS
<1>3. step \in [1 .. n -> [DriverType -> DriverType]]
  BY <1>2, TurnType
<1>4. PICK F \in [SUBSET (1 .. n) -> DriverType] : FoldsTo(F, n, first, step)
  BY <1>3, FoldExists
<1>5. \A s \in SUBSET (1 .. n) : s # {} => Max(s) \in 1 .. n /\ Max(s) \in s
  <2> SUFFICES ASSUME NEW s \in SUBSET (1 .. n), s # {}
               PROVE  Max(s) \in s
    OBVIOUS
  <2>1. s \in SUBSET Nat /\ \A i \in s : i <= n
    OBVIOUS
  <2> QED
    BY <2>1, MaxIs
<1>6. ASSUME NEW s \in SUBSET (1 .. n), s # {}
      PROVE  F[s] = Turn(F[s \ {Max(s)}], w[Max(s)])
  <2>1. s \ {Max(s)} \in SUBSET (1 .. n) /\ Max(s) \in 1 .. n
    BY <1>5, <1>6
  <2>2. F[s] = step[Max(s)][F[s \ {Max(s)}]] /\ F[s \ {Max(s)}] \in DriverType
    BY <1>4, <1>6, <2>1 DEF FoldsTo
  <2> QED
    BY <1>2, <2>1, <2>2
<1>7. F[{}] = first
  BY <1>4 DEF FoldsTo
<1>8. TurnFold(F, first, w)
  <2>1. F = [s \in SUBSET (1 .. n) |-> F[s]]
    OBVIOUS
  <2>2. [s \in SUBSET (1 .. n) |-> F[s]]
          = [s \in SUBSET (1 .. n) |->
               IF s = {} THEN first ELSE Turn(F[s \ {Max(s)}], w[Max(s)])]
    BY <1>6, <1>7
  <2> QED
    BY <1>1, <2>1, <2>2 DEF TurnFold
<1>9. ASSUME NEW f, TurnFold(f, first, w)
      PROVE  f = F
  <2>1. f = [s \in SUBSET (1 .. n) |->
               IF s = {} THEN first ELSE Turn(f[s \ {Max(s)}], w[Max(s)])]
    BY <1>1, <1>9 DEF TurnFold
  <2>2. f = [s \in SUBSET (1 .. n) |-> f[s]] /\ F = [s \in SUBSET (1 .. n) |-> F[s]]
    BY <2>1
  <2>3. f[{}] = F[{}]
    BY <1>7, <2>1
  <2>4. \A s \in SUBSET (1 .. n) : s # {} /\ f[s \ {Max(s)}] = F[s \ {Max(s)}] => f[s] = F[s]
    BY <1>6, <2>1
  <2>5. Congruent(f, F, n)
    BY <2>2, <2>3, <2>4 DEF Congruent
  <2> QED
    BY <2>5, FoldUnique
<1>10. (CHOOSE f : TurnFold(f, first, w)) = F
  BY <1>8, <1>9
<1>11. FoldLeft(Turn, first, w) = (CHOOSE f : TurnFold(f, first, w))[DOMAIN w]
  BY DEF FoldLeft, MapThenFoldSet, TurnFold
<1>12. FoldLeft(Turn, first, w) = F[1 .. n]
  BY <1>1, <1>10, <1>11
<1>13. PICK h \in [0 .. n -> DriverType] :
         Passes(h, n, first, step, F[1 .. n])
  BY <1>4, FoldTrace
<1>14. \A i \in 1 .. n : h[i] = Turn(h[i - 1], w[i])
  <2>1. \A i \in 1 .. n : h[i - 1] \in DriverType
    OBVIOUS
  <2> QED
    BY <1>2, <1>13, <2>1 DEF Passes
<1>15. Turns(h, w)
  BY <1>1, <1>14 DEF Turns
<1> QED
  BY <1>1, <1>12, <1>13, <1>15 DEF Passes

(* The drain as KeysDecoded takes it: what the bytes make of the shift state, *)
(* and their characters in a row.                                             *)
Reads(d, byte) ==
  LET p == kbd_proc_data(d.shift, byte)
  IN  [shift |-> p.shift, chars |-> IF p.c = 0 THEN d.chars ELSE Append(d.chars, p.c)]

ReaderType == [shift : SUBSET Bits, chars : Seq(Codes)]

LEMMA ReadsType ==
  ASSUME NEW d \in ReaderType, NEW b
  PROVE  Reads(d, b) \in ReaderType
<1>1. PICK p : p = kbd_proc_data(d.shift, b)
  OBVIOUS
<1>2. d.shift \in SUBSET Bits /\ d.chars \in Seq(Codes)
  BY DEF ReaderType
<1>3. p.shift \in SUBSET Bits /\ p.c \in Codes \cup {0}
  BY <1>1, <1>2, ProcType
<1>4. Reads(d, b) = [shift |-> p.shift, chars |-> IF p.c = 0 THEN d.chars ELSE Append(d.chars, p.c)]
  BY <1>1 DEF Reads
<1>5. (IF p.c = 0 THEN d.chars ELSE Append(d.chars, p.c)) \in Seq(Codes)
  BY <1>2, <1>3
<1> QED
  BY <1>3, <1>4, <1>5 DEF ReaderType

ReadFold(f, first, w) ==
  f = [s \in SUBSET DOMAIN w |->
         IF s = {} THEN first ELSE Reads(f[s \ {Max(s)}], w[Max(s)])]

Readings(h, w) ==
  /\ h \in [0 .. Len(w) -> ReaderType]
  /\ \A i \in 1 .. Len(w) : h[i] = Reads(h[i - 1], w[i])

LEMMA ReadTrace ==
  ASSUME NEW w \in Seq(Nat), NEW first \in ReaderType
  PROVE  \E h : Readings(h, w) /\ h[0] = first /\ h[Len(w)] = FoldLeft(Reads, first, w)
<1>1. PICK n \in Nat : n = Len(w) /\ DOMAIN w = 1 .. n
  OBVIOUS
<1>2. PICK step : step = [i \in 1 .. n |-> [d \in ReaderType |-> Reads(d, w[i])]]
  OBVIOUS
<1>3. step \in [1 .. n -> [ReaderType -> ReaderType]]
  BY <1>2, ReadsType
<1>4. PICK F \in [SUBSET (1 .. n) -> ReaderType] : FoldsTo(F, n, first, step)
  BY <1>3, FoldExists
<1>5. \A s \in SUBSET (1 .. n) : s # {} => Max(s) \in 1 .. n /\ Max(s) \in s
  <2> SUFFICES ASSUME NEW s \in SUBSET (1 .. n), s # {}
               PROVE  Max(s) \in s
    OBVIOUS
  <2>1. s \in SUBSET Nat /\ \A i \in s : i <= n
    OBVIOUS
  <2> QED
    BY <2>1, MaxIs
<1>6. ASSUME NEW s \in SUBSET (1 .. n), s # {}
      PROVE  F[s] = Reads(F[s \ {Max(s)}], w[Max(s)])
  <2>1. s \ {Max(s)} \in SUBSET (1 .. n) /\ Max(s) \in 1 .. n
    BY <1>5, <1>6
  <2>2. F[s] = step[Max(s)][F[s \ {Max(s)}]] /\ F[s \ {Max(s)}] \in ReaderType
    BY <1>4, <1>6, <2>1 DEF FoldsTo
  <2> QED
    BY <1>2, <2>1, <2>2
<1>7. F[{}] = first
  BY <1>4 DEF FoldsTo
<1>8. ReadFold(F, first, w)
  <2>1. F = [s \in SUBSET (1 .. n) |-> F[s]]
    OBVIOUS
  <2>2. [s \in SUBSET (1 .. n) |-> F[s]]
          = [s \in SUBSET (1 .. n) |->
               IF s = {} THEN first ELSE Reads(F[s \ {Max(s)}], w[Max(s)])]
    BY <1>6, <1>7
  <2> QED
    BY <1>1, <2>1, <2>2 DEF ReadFold
<1>9. ASSUME NEW f, ReadFold(f, first, w)
      PROVE  f = F
  <2>1. f = [s \in SUBSET (1 .. n) |->
               IF s = {} THEN first ELSE Reads(f[s \ {Max(s)}], w[Max(s)])]
    BY <1>1, <1>9 DEF ReadFold
  <2>2. f = [s \in SUBSET (1 .. n) |-> f[s]] /\ F = [s \in SUBSET (1 .. n) |-> F[s]]
    BY <2>1
  <2>3. f[{}] = F[{}]
    BY <1>7, <2>1
  <2>4. \A s \in SUBSET (1 .. n) : s # {} /\ f[s \ {Max(s)}] = F[s \ {Max(s)}] => f[s] = F[s]
    BY <1>6, <2>1
  <2>5. Congruent(f, F, n)
    BY <2>2, <2>3, <2>4 DEF Congruent
  <2> QED
    BY <2>5, FoldUnique
<1>10. (CHOOSE f : ReadFold(f, first, w)) = F
  BY <1>8, <1>9
<1>11. FoldLeft(Reads, first, w) = (CHOOSE f : ReadFold(f, first, w))[DOMAIN w]
  BY DEF FoldLeft, MapThenFoldSet, ReadFold
<1>12. FoldLeft(Reads, first, w) = F[1 .. n]
  BY <1>1, <1>10, <1>11
<1>13. PICK h \in [0 .. n -> ReaderType] :
         Passes(h, n, first, step, F[1 .. n])
  BY <1>4, FoldTrace
<1>14. \A i \in 1 .. n : h[i] = Reads(h[i - 1], w[i])
  <2>1. \A i \in 1 .. n : h[i - 1] \in ReaderType
    OBVIOUS
  <2> QED
    BY <1>2, <1>13, <2>1 DEF Passes
<1>15. Readings(h, w)
  BY <1>1, <1>14 DEF Readings
<1> QED
  BY <1>1, <1>12, <1>13, <1>15 DEF Passes

(* The same for the queue that the ring implements. *)
RingType == Seq(Codes \cup {0})

LEMMA StoreType ==
  ASSUME NEW q \in RingType, NEW v \in Codes
  PROVE  Path!Store(q, v) \in RingType
BY DEF Path!Store, RingType

StoreFold(f, first, w) ==
  f = [s \in SUBSET DOMAIN w |->
         IF s = {} THEN first ELSE Path!Store(f[s \ {Max(s)}], w[Max(s)])]

Stores(h, w) ==
  /\ h \in [0 .. Len(w) -> RingType]
  /\ \A i \in 1 .. Len(w) : h[i] = Path!Store(h[i - 1], w[i])

LEMMA StoreTrace ==
  ASSUME NEW w \in Seq(Codes), NEW first \in RingType
  PROVE  \E h : Stores(h, w) /\ h[0] = first /\ h[Len(w)] = FoldLeft(Path!Store, first, w)
<1>1. PICK n \in Nat : n = Len(w) /\ DOMAIN w = 1 .. n
  OBVIOUS
<1>2. PICK step : step = [i \in 1 .. n |-> [d \in RingType |-> Path!Store(d, w[i])]]
  OBVIOUS
<1>3. step \in [1 .. n -> [RingType -> RingType]]
  <2>1. \A i \in 1 .. n : w[i] \in Codes
    BY <1>1
  <2> QED
    BY <1>2, <2>1, StoreType
<1>4. PICK F \in [SUBSET (1 .. n) -> RingType] : FoldsTo(F, n, first, step)
  BY <1>3, FoldExists
<1>5. \A s \in SUBSET (1 .. n) : s # {} => Max(s) \in 1 .. n /\ Max(s) \in s
  <2> SUFFICES ASSUME NEW s \in SUBSET (1 .. n), s # {}
               PROVE  Max(s) \in s
    OBVIOUS
  <2>1. s \in SUBSET Nat /\ \A i \in s : i <= n
    OBVIOUS
  <2> QED
    BY <2>1, MaxIs
<1>6. ASSUME NEW s \in SUBSET (1 .. n), s # {}
      PROVE  F[s] = Path!Store(F[s \ {Max(s)}], w[Max(s)])
  <2>1. s \ {Max(s)} \in SUBSET (1 .. n) /\ Max(s) \in 1 .. n
    BY <1>5, <1>6
  <2>2. F[s] = step[Max(s)][F[s \ {Max(s)}]] /\ F[s \ {Max(s)}] \in RingType
    BY <1>4, <1>6, <2>1 DEF FoldsTo
  <2> QED
    BY <1>2, <2>1, <2>2
<1>7. F[{}] = first
  BY <1>4 DEF FoldsTo
<1>8. StoreFold(F, first, w)
  <2>1. F = [s \in SUBSET (1 .. n) |-> F[s]]
    OBVIOUS
  <2>2. [s \in SUBSET (1 .. n) |-> F[s]]
          = [s \in SUBSET (1 .. n) |->
               IF s = {} THEN first ELSE Path!Store(F[s \ {Max(s)}], w[Max(s)])]
    BY <1>6, <1>7
  <2> QED
    BY <1>1, <2>1, <2>2 DEF StoreFold
<1>9. ASSUME NEW f, StoreFold(f, first, w)
      PROVE  f = F
  <2>1. f = [s \in SUBSET (1 .. n) |->
               IF s = {} THEN first ELSE Path!Store(f[s \ {Max(s)}], w[Max(s)])]
    BY <1>1, <1>9 DEF StoreFold
  <2>2. f = [s \in SUBSET (1 .. n) |-> f[s]] /\ F = [s \in SUBSET (1 .. n) |-> F[s]]
    BY <2>1
  <2>3. f[{}] = F[{}]
    BY <1>7, <2>1
  <2>4. \A s \in SUBSET (1 .. n) : s # {} /\ f[s \ {Max(s)}] = F[s \ {Max(s)}] => f[s] = F[s]
    BY <1>6, <2>1
  <2>5. Congruent(f, F, n)
    BY <2>2, <2>3, <2>4 DEF Congruent
  <2> QED
    BY <2>5, FoldUnique
<1>10. (CHOOSE f : StoreFold(f, first, w)) = F
  BY <1>8, <1>9
<1>11. FoldLeft(Path!Store, first, w) = (CHOOSE f : StoreFold(f, first, w))[DOMAIN w]
  BY DEF FoldLeft, MapThenFoldSet, StoreFold
<1>12. FoldLeft(Path!Store, first, w) = F[1 .. n]
  BY <1>1, <1>10, <1>11
<1>13. PICK h \in [0 .. n -> RingType] :
         Passes(h, n, first, step, F[1 .. n])
  BY <1>4, FoldTrace
<1>14. \A i \in 1 .. n : h[i] = Path!Store(h[i - 1], w[i])
  <2>1. \A i \in 1 .. n : h[i - 1] \in RingType
    OBVIOUS
  <2> QED
    BY <1>2, <1>13, <2>1 DEF Passes
<1>15. Stores(h, w)
  BY <1>1, <1>14 DEF Stores
<1> QED
  BY <1>1, <1>12, <1>13, <1>15 DEF Passes

(* The fold of KeysDecoded passes through the states that Decodes names. *)
LEMMA Understood ==
  ASSUME ConsoleType, Means(wire, shift, on, typed)
  PROVE  FoldLeft(Reads, [shift |-> shift, chars |-> <<>>], wire) = [shift |-> on, chars |-> typed]
<1>1. PICK sh, pos : Decodes(wire, shift, on, typed, sh, pos)
  BY DEF Means
<1>2. PICK start : start = [shift |-> shift, chars |-> <<>>]
  OBVIOUS
<1>3. /\ wire \in Seq(Nat) /\ shift \in SUBSET Bits /\ typed \in Seq(Codes)
      /\ start \in ReaderType
  BY <1>2 DEF ConsoleType, ReaderType
<1>4. PICK h : Readings(h, wire) /\ h[0] = start /\ h[Len(wire)] = FoldLeft(Reads, start, wire)
  BY <1>3, ReadTrace
<1>5. PICK L \in Nat : L = Len(wire)
  BY <1>3
<1>6. PICK m \in Nat : m = Len(typed)
  BY <1>3
<1>7. \A i \in 1 .. L : Contributes(wire, typed, sh, pos, i)
  BY <1>1, <1>3, <1>5, DecodesAt
<1>8. /\ sh \in [0 .. L -> SUBSET Bits] /\ pos \in [0 .. L -> 0 .. m]
      /\ sh[0] = shift /\ pos[0] = 0 /\ sh[L] = on /\ pos[L] = m
  BY <1>1, <1>5, <1>6 DEF Decodes
<1> DEFINE Seen(i) == [shift |-> sh[i], chars |-> SubSeq(typed, 1, pos[i])]
           Good == {i \in 0 .. L : h[i] = Seen(i)}
<1>9. 0 \in Good
  <2>1. SubSeq(typed, 1, 0) = <<>>
    BY <1>3
  <2> QED
    BY <1>2, <1>4, <1>8, <2>1
<1>10. ASSUME NEW i \in 0 .. L, i \in Good, i < L
       PROVE  i + 1 \in Good
  <2>1. i + 1 \in 1 .. L /\ i + 1 - 1 = i /\ i + 1 \in 0 .. L
    BY <1>5, <1>10
  <2>2. PICK q : q = kbd_proc_data(sh[i], wire[i + 1])
    OBVIOUS
  <2>3. /\ sh[i + 1] = q.shift /\ pos[i + 1] = pos[i] + (IF q.c = 0 THEN 0 ELSE 1)
        /\ q.c # 0 => typed[pos[i + 1]] = q.c
        /\ pos[i] \in 0 .. m /\ pos[i + 1] \in 0 .. m
    BY <1>6, <1>7, <2>1, <2>2 DEF Contributes
  <2>4. h[i + 1] = Reads(h[i], wire[i + 1])
    BY <1>4, <1>5, <2>1 DEF Readings
  <2>5. h[i].shift = sh[i] /\ h[i].chars = SubSeq(typed, 1, pos[i])
    BY <1>10
  <2>6. h[i + 1] = [shift |-> q.shift,
                    chars |-> IF q.c = 0 THEN SubSeq(typed, 1, pos[i])
                              ELSE Append(SubSeq(typed, 1, pos[i]), q.c)]
    BY <2>2, <2>4, <2>5 DEF Reads
  <2>7. q.c # 0 => Append(SubSeq(typed, 1, pos[i]), q.c) = SubSeq(typed, 1, pos[i] + 1)
    <3>1. SUFFICES ASSUME q.c # 0
                   PROVE  Append(SubSeq(typed, 1, pos[i]), q.c) = SubSeq(typed, 1, pos[i] + 1)
      OBVIOUS
    <3>2. PICK k \in Nat : k = pos[i] /\ k + 1 <= m /\ typed[k + 1] = q.c
      BY <2>3, <3>1
    <3>3. Append(SubSeq(typed, 1, k), typed[k + 1]) = SubSeq(typed, 1, k + 1)
      BY <1>3, <1>6, <3>2
    <3> QED
      BY <3>2, <3>3
  <2>8. pos[i] + 0 = pos[i]
    BY <1>6, <2>3
  <2>9. h[i + 1] = Seen(i + 1)
    <3>1. CASE q.c = 0
      BY <2>3, <2>6, <2>8, <3>1
    <3>2. CASE q.c # 0
      BY <2>3, <2>6, <2>7, <3>2
    <3> QED
      BY <3>1, <3>2
  <2> QED
    BY <2>1, <2>9
<1>11. Good \in SUBSET (0 .. L)
  OBVIOUS
<1> HIDE DEF Good
<1>12. Good = 0 .. L
  BY <1>9, <1>10, <1>11, Steps
<1>13. h[L] = [shift |-> on, chars |-> SubSeq(typed, 1, m)]
  <2>1. L \in Good
    BY <1>12
  <2>2. h[L] = Seen(L)
    BY <2>1 DEF Good
  <2> QED
    BY <1>8, <2>2
<1>14. SubSeq(typed, 1, m) = typed
  BY <1>3, <1>6
<1> QED
  BY <1>2, <1>4, <1>5, <1>13, <1>14

LEMMA InvDecoded == ConsoleInv => KeysDecoded
<1> SUFFICES ASSUME ConsoleInv
             PROVE  KeysDecoded
  OBVIOUS
<1>1. FoldLeft(Reads, [shift |-> shift, chars |-> <<>>], wire) = [shift |-> on, chars |-> typed]
  BY Understood DEF ConsoleInv
<1>2. PICK rest : rest = FoldLeft(Reads, [shift |-> shift, chars |-> <<>>], wire)
  OBVIOUS
<1>3. rest.chars = typed /\ rest.shift = on
  BY <1>1, <1>2
<1>4. \A m \in {"SHIFT", "CTL", "ALT"} \cap rest.shift : \E k \in held : m \in Modifier(k)
  <2>1. on \subseteq Modifiers /\ "ALT" \notin Modifiers
    BY DEF ConsoleInv, ConsoleType, Modifiers
  <2> QED
    BY <1>3, <2>1 DEF ConsoleInv, HeldOn
<1>5. KeysDecoded <=>
        LET rest_ == FoldLeft(Reads, [shift |-> shift, chars |-> <<>>], wire)
        IN  /\ rest_.chars = typed /\ rest_.shift = on
            /\ \A m \in {"SHIFT", "CTL", "ALT"} \cap rest_.shift : \E k \in held : m \in Modifier(k)
  BY DEF KeysDecoded, Reads
<1> QED
  BY <1>2, <1>3, <1>4, <1>5

(* The driver after a drain of the first n bytes. *)
Start == [shift |-> shift, buf |-> buf, wpos |-> wpos, n |-> 0]

LEMMA DrainTrace ==
  ASSUME ConsoleType, NEW sh, NEW pos, Decodes(wire, shift, on, typed, sh, pos),
         NEW n \in 0 .. Len(wire)
  PROVE  \E h : /\ Turns(h, SubSeq(wire, 1, n)) /\ h[0] = Start
                /\ h[n] = cons_intr(SubSeq(wire, 1, n))
                /\ \A i \in 0 .. n : h[i] \in DriverType /\ h[i].shift = sh[i] /\ h[i].n = pos[i]
<1>1. PICK L \in Nat : L = Len(wire)
  BY DEF ConsoleType
<1>2. wire \in Seq(Nat) /\ typed \in Seq(Codes) /\ Start \in DriverType
  BY DEF ConsoleType, Start, DriverType
<1>3. PICK w : w = SubSeq(wire, 1, n)
  OBVIOUS
<1>4. w \in Seq(Nat) /\ Len(w) = n /\ \A i \in 1 .. n : w[i] = wire[i]
  BY <1>2, <1>3
<1>5. PICK h : Turns(h, w) /\ h[0] = Start /\ h[Len(w)] = FoldLeft(Turn, Start, w)
  BY <1>2, <1>4, TurnTrace
<1>6. h[n] = cons_intr(w)
  BY <1>4, <1>5 DEF cons_intr, Start
<1>7. h \in [0 .. n -> DriverType] /\ \A i \in 1 .. n : h[i] = Turn(h[i - 1], wire[i])
  BY <1>4, <1>5 DEF Turns
<1>8. \A i \in 1 .. L : Contributes(wire, typed, sh, pos, i)
  BY <1>1, <1>2, DecodesAt
<1> DEFINE Good == {i \in 0 .. n : h[i].shift = sh[i] /\ h[i].n = pos[i]}
<1>9. 0 \in Good
  <2>1. sh[0] = shift /\ pos[0] = 0
    BY DEF Decodes
  <2> QED
    BY <1>1, <1>5, <2>1 DEF Start
<1>10. ASSUME NEW i \in 0 .. n, i \in Good, i < n
       PROVE  i + 1 \in Good
  <2>1. i + 1 \in 1 .. n /\ i + 1 - 1 = i /\ i + 1 \in 0 .. n /\ i + 1 \in 1 .. L
    BY <1>1, <1>10
  <2>2. PICK q : q = kbd_proc_data(sh[i], wire[i + 1])
    OBVIOUS
  <2>3. sh[i + 1] = q.shift /\ pos[i + 1] = pos[i] + (IF q.c = 0 THEN 0 ELSE 1)
    BY <1>8, <2>1, <2>2 DEF Contributes
  <2>4. h[i + 1] = Turn(h[i], wire[i + 1]) /\ h[i] \in DriverType /\ h[i].shift = sh[i] /\ h[i].n = pos[i]
    BY <1>7, <1>10, <2>1
  <2>5. Turn(h[i], wire[i + 1]).shift = q.shift
    <3>1. DOMAIN h[i] = {"shift", "buf", "wpos", "n"}
      BY <2>4 DEF DriverType
    <3> QED
      BY <2>2, <2>4, <3>1 DEF Turn
  <2>6. Turn(h[i], wire[i + 1]).n = h[i].n + (IF q.c = 0 THEN 0 ELSE 1)
    <3>1. h[i].n \in Nat /\ h[i].n + 0 = h[i].n
      BY <2>4 DEF DriverType
    <3>2. CASE q.c = 0
      BY <2>2, <2>4, <3>1, <3>2 DEF Turn, DriverType
    <3>3. CASE q.c # 0
      BY <2>2, <2>4, <3>3 DEF Turn
    <3> QED
      BY <3>2, <3>3
  <2> QED
    BY <2>1, <2>3, <2>4, <2>5, <2>6
<1>11. Good \in SUBSET (0 .. n) /\ n \in Nat
  BY <1>1
<1> HIDE DEF Good
<1>12. Good = 0 .. n
  BY <1>9, <1>10, <1>11, Steps
<1>13. \A i \in 0 .. n : h[i] \in DriverType /\ h[i].shift = sh[i] /\ h[i].n = pos[i]
  BY <1>7, <1>12 DEF Good
<1> QED
  BY <1>3, <1>5, <1>6, <1>13

-----------------------------------------------------------------------------
(* What the keyboard sends for a key: one byte, or one behind the prefix, that *)
(* takes the decoder from s to mods and makes the characters cs.              *)
Makes(s, b, mods, cs) ==
  LET p == kbd_proc_data(s, b)
  IN  p.shift = mods /\ cs = IF p.c = 0 THEN <<>> ELSE <<p.c>>

Spelled(bytes, s, mods, cs) ==
  \E b \in Nat :
    \/ bytes = <<b>> /\ Makes(s, b, mods, cs)
    \/ bytes = <<E0, b>> /\ Makes(s \cup {"E0ESC"}, b, mods, cs)

LEMMA ByteMeans ==
  ASSUME NEW w \in Seq(Nat), NEW s0 \in SUBSET Bits, NEW s \in SUBSET Bits,
         NEW cs \in Seq(Codes), Means(w, s0, s, cs),
         NEW b \in Nat, NEW mods, NEW ds, Makes(s, b, mods, ds)
  PROVE  /\ Means(Append(w, b), s0, mods, cs \o ds)
         /\ mods \in SUBSET Bits /\ cs \o ds \in Seq(Codes)
<1>1. PICK p : p = kbd_proc_data(s, b)
  OBVIOUS
<1>2. mods = p.shift /\ ds = IF p.c = 0 THEN <<>> ELSE <<p.c>>
  BY <1>1 DEF Makes
<1>3. p.shift \in SUBSET Bits /\ p.c \in Codes \cup {0}
  BY <1>1, ProcType
<1>4. Means(Append(w, b), s0, p.shift, IF p.c = 0 THEN cs ELSE Append(cs, p.c))
  BY <1>1, MeansAppend
<1>5. cs \o ds = (IF p.c = 0 THEN cs ELSE Append(cs, p.c)) /\ cs \o ds \in Seq(Codes)
  <2>1. CASE p.c = 0
    BY <1>2, <2>1
  <2>2. CASE p.c # 0
    <3>1. PICK v \in Codes : v = p.c
      BY <1>3, <2>2
    <3>2. cs \o <<v>> = Append(cs, v) /\ cs \o <<v>> \in Seq(Codes)
      OBVIOUS
    <3> QED
      BY <1>2, <2>2, <3>1, <3>2
  <2> QED
    BY <2>1, <2>2
<1> QED
  BY <1>2, <1>3, <1>4, <1>5

LEMMA PrefixMakes ==
  ASSUME NEW s \in SUBSET Bits
  PROVE  Makes(s, E0, s \cup {"E0ESC"}, <<>>)
BY DEF Makes, kbd_proc_data

LEMMA SpelledMeans ==
  ASSUME NEW w \in Seq(Nat), NEW s0 \in SUBSET Bits, NEW s \in SUBSET Bits,
         NEW cs \in Seq(Codes), Means(w, s0, s, cs),
         NEW bytes, NEW mods, NEW ds, Spelled(bytes, s, mods, ds)
  PROVE  /\ Means(w \o bytes, s0, mods, cs \o ds)
         /\ w \o bytes \in Seq(Nat) /\ cs \o ds \in Seq(Codes)
<1>1. PICK b \in Nat :
        \/ bytes = <<b>> /\ Makes(s, b, mods, ds)
        \/ bytes = <<E0, b>> /\ Makes(s \cup {"E0ESC"}, b, mods, ds)
  BY DEF Spelled
<1>2. CASE bytes = <<b>> /\ Makes(s, b, mods, ds)
  <2>1. w \o bytes = Append(w, b) /\ Append(w, b) \in Seq(Nat)
    BY <1>2
  <2> QED
    BY <1>2, <2>1, ByteMeans
<1>3. CASE bytes = <<E0, b>> /\ Makes(s \cup {"E0ESC"}, b, mods, ds)
  <2>1. E0 \in Nat
    BY DEF E0
  <2>2. PICK v : v = Append(w, E0)
    OBVIOUS
  <2>3. v \in Seq(Nat) /\ w \o bytes = Append(v, b) /\ Append(v, b) \in Seq(Nat)
    BY <1>3, <2>1, <2>2
  <2>4. PICK t : t = s \cup {"E0ESC"}
    OBVIOUS
  <2>5. PICK es : es = cs \o <<>>
    OBVIOUS
  <2>6. es = cs
    BY <2>5
  <2>7. Means(v, s0, t, es) /\ t \in SUBSET Bits
    <3>1. Makes(s, E0, t, <<>>)
      BY <2>4, PrefixMakes
    <3> QED
      BY <2>1, <2>2, <2>5, <3>1, ByteMeans
  <2> QED
    BY <1>3, <2>3, <2>4, <2>6, <2>7, ByteMeans
<1> QED
  BY <1>1, <1>2, <1>3

(* The press of every modelled key. *)
Modified(s, k) == Toggled(s \cup Modifier(k), IF k = "caps" THEN {"CAPSLOCK"} ELSE {})

LEMMA MakeSpelled ==
  ASSUME NEW s \in SUBSET Modifiers, NEW k \in AllKeys, NEW mods, mods = Modified(s, k)
  PROVE  Spelled(Make(k), s, mods, Meaning(k, mods)) /\ mods \in SUBSET Modifiers
<1> USE DEF Modified
<1> DEFINE After(d) == Toggled(s \cup shiftcode(d), togglecode(d))
           Says(d) == IF "CAPSLOCK" \in After(d) THEN Capitalised(charcode(After(d), d))
                      ELSE charcode(After(d), d)
<1>1. "E0ESC" \notin s /\ s \ {"E0ESC"} = s /\ (s \cup {"E0ESC"}) \ {"E0ESC"} = s
  BY DEF Modifiers
<1>2. mods \in SUBSET Modifiers
  BY DEF Toggled, Modifier, Modifiers, AllKeys
<1>3. ASSUME NEW b \in Nat, b < 128
      PROVE  kbd_proc_data(s, b).shift = After(b) /\ kbd_proc_data(s, b).c = Says(b)
  <2>1. kbd_proc_data(s, b) = Pressed(s, b)
    BY <1>3 DEF kbd_proc_data, E0
  <2> QED
    BY <1>1, <2>1 DEF Pressed
<1>13. PICK t : t = s \cup {"E0ESC"}
  OBVIOUS
<1>4. ASSUME NEW b \in Nat, b < 128, NEW d, d = b + 128
      PROVE  kbd_proc_data(t, b).shift = After(d) /\ kbd_proc_data(t, b).c = Says(d)
  <2>1. kbd_proc_data(t, b) = Pressed(t, b)
    BY <1>4 DEF kbd_proc_data, E0
  <2>2. "E0ESC" \in t /\ t \ {"E0ESC"} = s
    BY <1>1, <1>13
  <2> QED
    BY <1>4, <2>1, <2>2 DEF Pressed
<1>5. CASE k = "lshift"
  <2>1. /\ Make(k) = <<42>> /\ mods = Toggled(s \cup shiftcode(42), togglecode(42))
        /\ Meaning(k, mods) = <<>> /\ charcode(mods, 42) = 0 /\ Capitalised(0) = 0
    BY <1>5 DEF Make, Modifier, shiftcode, togglecode, Meaning, charcode, Capitalised
  <2>2. Makes(s, 42, mods, Meaning(k, mods))
    BY <1>3, <2>1 DEF Makes
  <2> QED
    BY <1>2, <2>1, <2>2 DEF Spelled
<1>6. CASE k = "rshift"
  <2>1. /\ Make(k) = <<54>> /\ mods = Toggled(s \cup shiftcode(54), togglecode(54))
        /\ Meaning(k, mods) = <<>> /\ charcode(mods, 54) = 0 /\ Capitalised(0) = 0
    BY <1>6 DEF Make, Modifier, shiftcode, togglecode, Meaning, charcode, Capitalised
  <2>2. Makes(s, 54, mods, Meaning(k, mods))
    BY <1>3, <2>1 DEF Makes
  <2> QED
    BY <1>2, <2>1, <2>2 DEF Spelled
<1>7. CASE k = "lctl"
  <2>1. /\ Make(k) = <<29>> /\ mods = Toggled(s \cup shiftcode(29), togglecode(29))
        /\ Meaning(k, mods) = <<>> /\ charcode(mods, 29) = 0 /\ Capitalised(0) = 0
    BY <1>7 DEF Make, Modifier, shiftcode, togglecode, Meaning, charcode, Capitalised
  <2>2. Makes(s, 29, mods, Meaning(k, mods))
    BY <1>3, <2>1 DEF Makes
  <2> QED
    BY <1>2, <2>1, <2>2 DEF Spelled
<1>8. CASE k = "rctl"
  <2>1. /\ Make(k) = <<E0, 29>> /\ mods = Toggled(s \cup shiftcode(157), togglecode(157))
        /\ Meaning(k, mods) = <<>> /\ charcode(mods, 157) = 0 /\ Capitalised(0) = 0
    BY <1>8 DEF Make, Modifier, shiftcode, togglecode, Meaning, charcode, Capitalised
  <2>3. kbd_proc_data(t, 29).shift = After(157) /\ kbd_proc_data(t, 29).c = Says(157)
    <3>1. 157 = 29 + 128 /\ 29 < 128
      OBVIOUS
    <3> HIDE DEF After, Says
    <3> QED
      BY <1>4, <3>1
  <2>4. After(157) = mods /\ Says(157) = 0
    BY <2>1
  <2>2. Makes(t, 29, mods, Meaning(k, mods))
    BY <2>1, <2>3, <2>4 DEF Makes
  <2> QED
    BY <1>2, <1>13, <2>1, <2>2 DEF Spelled
<1>9. CASE k = "caps"
  <2>1. /\ Make(k) = <<58>> /\ mods = Toggled(s \cup shiftcode(58), togglecode(58))
        /\ Meaning(k, mods) = <<>> /\ charcode(mods, 58) = 0 /\ Capitalised(0) = 0
    BY <1>9 DEF Make, Modifier, shiftcode, togglecode, Meaning, charcode, Capitalised
  <2>2. Makes(s, 58, mods, Meaning(k, mods))
    BY <1>3, <2>1 DEF Makes
  <2> QED
    BY <1>2, <2>1, <2>2 DEF Spelled
<1>10. CASE k = "a"
  <2>1. /\ Make(k) = <<30>> /\ mods = Toggled(s \cup shiftcode(30), togglecode(30))
    BY <1>10 DEF Make, Modifier, shiftcode, togglecode
  <2>2. PICK v : v = IF "CAPSLOCK" \in mods THEN Capitalised(charcode(mods, 30))
                     ELSE charcode(mods, 30)
    OBVIOUS
  <2>3. v # 0 /\ Meaning(k, mods) = <<v>>
    BY <1>10, <2>2 DEF Meaning, charcode, Capitalised
  <2>4. Makes(s, 30, mods, Meaning(k, mods))
    BY <1>3, <2>1, <2>2, <2>3 DEF Makes
  <2> QED
    BY <1>2, <2>1, <2>4 DEF Spelled
<1>11. CASE k = "enter"
  <2>1. /\ Make(k) = <<28>> /\ mods = Toggled(s \cup shiftcode(28), togglecode(28))
    BY <1>11 DEF Make, Modifier, shiftcode, togglecode
  <2>2. PICK v : v = IF "CAPSLOCK" \in mods THEN Capitalised(charcode(mods, 28))
                     ELSE charcode(mods, 28)
    OBVIOUS
  <2>3. v # 0 /\ Meaning(k, mods) = <<v>>
    BY <1>11, <2>2 DEF Meaning, charcode, Capitalised
  <2>4. Makes(s, 28, mods, Meaning(k, mods))
    BY <1>3, <2>1, <2>2, <2>3 DEF Makes
  <2> QED
    BY <1>2, <2>1, <2>4 DEF Spelled
<1>12. CASE k = "left"
  <2>1. /\ Make(k) = <<E0, 75>> /\ mods = Toggled(s \cup shiftcode(203), togglecode(203))
    BY <1>12 DEF Make, Modifier, shiftcode, togglecode
  <2>2. PICK v : v = IF "CAPSLOCK" \in mods THEN Capitalised(charcode(mods, 203))
                     ELSE charcode(mods, 203)
    OBVIOUS
  <2>3. v # 0 /\ Meaning(k, mods) = <<v>>
    BY <1>12, <2>2 DEF Meaning, charcode, Capitalised, KEY_LF
  <2>4. Makes(t, 75, mods, Meaning(k, mods))
    BY <1>4, <2>1, <2>2, <2>3 DEF Makes
  <2> QED
    BY <1>2, <1>13, <2>1, <2>4 DEF Spelled
<1> QED
  BY <1>5, <1>6, <1>7, <1>8, <1>9, <1>10, <1>11, <1>12 DEF AllKeys

(* The release of every modelled key, and the shifts that the keyboard fakes. *)
LEMMA BreakSpelled ==
  ASSUME NEW s \in SUBSET Modifiers, NEW k \in AllKeys
  PROVE  Spelled(Break(k), s, s \ Modifier(k), <<>>)
<1>1. "E0ESC" \notin s /\ (s \cup {"E0ESC"}) \ {"E0ESC"} = s
  BY DEF Modifiers
<1>2. ASSUME NEW b \in Nat, b >= 128, b # E0
      PROVE  Makes(s, b, s \ shiftcode(b - 128), <<>>)
  BY <1>1, <1>2 DEF Makes, kbd_proc_data, Released
<1>3. ASSUME NEW b \in Nat, b >= 128, b # E0
      PROVE  Makes(s \cup {"E0ESC"}, b, s \ shiftcode(b), <<>>)
  BY <1>1, <1>3 DEF Makes, kbd_proc_data, Released
<1>4. CASE k \in {"rctl", "left"}
  <2>1. PICK b \in {157, 203} : Break(k) = <<E0, b>> /\ shiftcode(b) = Modifier(k)
    BY <1>4 DEF Break, shiftcode, Modifier
  <2>2. Makes(s \cup {"E0ESC"}, b, s \ Modifier(k), <<>>)
    <3>1. b \in Nat /\ b >= 128 /\ b # E0
      BY DEF E0
    <3> QED
      BY <1>3, <2>1, <3>1
  <2> QED
    BY <2>1, <2>2 DEF Spelled
<1>5. CASE k \notin {"rctl", "left"}
  <2>1. PICK b \in {170, 182, 157, 186, 158, 156} :
          Break(k) = <<b>> /\ shiftcode(b - 128) = Modifier(k)
    BY <1>5 DEF Break, shiftcode, Modifier, AllKeys
  <2>2. Makes(s, b, s \ Modifier(k), <<>>)
    <3>1. b \in Nat /\ b >= 128 /\ b # E0
      BY DEF E0
    <3> QED
      BY <1>2, <2>1, <3>1
  <2> QED
    BY <2>1, <2>2 DEF Spelled
<1> QED
  BY <1>4, <1>5

LEMMA FakeSpelled ==
  ASSUME NEW s \in SUBSET Modifiers, NEW code \in {42, 170}
  PROVE  Spelled(<<E0, code>>, s, s, <<>>)
<1>1. "E0ESC" \notin s /\ (s \cup {"E0ESC"}) \ {"E0ESC"} = s
  BY DEF Modifiers
<1>2. Makes(s \cup {"E0ESC"}, code, s, <<>>)
  <2>1. CASE code = 42
    <3>1. kbd_proc_data(s \cup {"E0ESC"}, 42) = Pressed(s \cup {"E0ESC"}, 42)
      BY DEF kbd_proc_data, E0
    <3>2. Pressed(s \cup {"E0ESC"}, 42).shift = s
      BY <1>1 DEF Pressed, shiftcode, togglecode, Toggled
    <3>3. Pressed(s \cup {"E0ESC"}, 42).c = 0
      BY <1>1 DEF Pressed, charcode, Capitalised
    <3> QED
      BY <2>1, <3>1, <3>2, <3>3 DEF Makes
  <2>2. CASE code = 170
    BY <1>1, <2>2 DEF Makes, kbd_proc_data, Released, shiftcode, E0
  <2> QED
    BY <2>1, <2>2
<1> QED
  BY <1>2 DEF Spelled

-----------------------------------------------------------------------------
(* The invariant of the driver, action by action. *)
LEMMA ConsoleInitInv == ConsoleInit => ConsoleInv
<1> SUFFICES ASSUME ConsoleInit
             PROVE  ConsoleInv
  OBVIOUS
<1>1. ConsoleType
  <2>1. 0 \in 0 .. ConsBufSize - 1
    BY ConsoleAssumption
  <2>2. <<>> \in Seq({Signed(v) : v \in Codes \cup {0}}) /\ <<>> \in Seq(Nat) /\ <<>> \in Seq(Codes)
    <3>1. \A S : <<>> \in Seq(S)
      OBVIOUS
    <3> QED
      BY <3>1
  <2> QED
    BY <2>1, <2>2 DEF ConsoleInit, ConsoleType
<1>2. Means(<<>>, {}, {}, <<>>)
  <2> DEFINE sh == [i \in 0 .. 0 |-> {}]
             pos == [i \in 0 .. 0 |-> 0]
  <2>1. /\ sh \in [0 .. 0 -> SUBSET Bits] /\ pos \in [0 .. 0 -> 0 .. 0]
        /\ sh[0] = {} /\ pos[0] = 0
    OBVIOUS
  <2>2. Len(<<>>) = 0 /\ 1 .. 0 = {}
    OBVIOUS
  <2> HIDE DEF sh, pos
  <2>3. Decodes(<<>>, {}, {}, <<>>, sh, pos)
    BY <2>1, <2>2 DEF Decodes
  <2> QED
    BY <2>3 DEF Means
<1> QED
  BY <1>1, <1>2 DEF ConsoleInv, ConsoleInit, HeldOn

LEMMA PressInv == ConsoleInv /\ (\E k \in Keys : Press(k)) => ConsoleInv'
<1> SUFFICES ASSUME ConsoleInv, NEW k \in Keys, Press(k)
             PROVE  ConsoleInv'
  OBVIOUS
<1>1. PICK mods : mods = Modified(on, k)
  OBVIOUS
<1>2. /\ wire' = wire \o Make(k) /\ held' = held \cup {k} /\ on' = mods
      /\ typed' = typed \o Meaning(k, mods)
      /\ UNCHANGED <<latched, mode, shift, buf, rpos, wpos, kb>>
  BY <1>1 DEF Press, Send, driver, Modified
<1>3. k \in AllKeys
  BY ConsoleAssumption DEF AllKeys
<1>4. /\ wire \in Seq(Nat) /\ shift \in SUBSET Bits /\ on \in SUBSET Modifiers
      /\ on \in SUBSET Bits /\ typed \in Seq(Codes) /\ Means(wire, shift, on, typed)
  BY DEF ConsoleInv, ConsoleType, Bits
<1>5. Spelled(Make(k), on, mods, Meaning(k, mods)) /\ mods \in SUBSET Modifiers
  BY <1>1, <1>3, <1>4, MakeSpelled
<1>6. /\ Means(wire', shift, mods, typed')
      /\ wire' \in Seq(Nat) /\ typed' \in Seq(Codes)
  BY <1>2, <1>4, <1>5, SpelledMeans
<1>7. ConsoleType'
  BY <1>2, <1>5, <1>6 DEF ConsoleInv, ConsoleType
<1>8. HeldOn'
  <2>1. \A m \in {"SHIFT", "CTL"} \cap mods : m \in on \/ m \in Modifier(k)
    BY <1>1 DEF Modified, Toggled
  <2> QED
    BY <1>2, <2>1 DEF ConsoleInv, HeldOn
<1>9. Means(wire, shift, on, typed)'
  BY <1>2, <1>6
<1> QED
  BY <1>7, <1>8, <1>9 DEF ConsoleInv

LEMMA ReleaseInv == ConsoleInv /\ (\E k \in Keys : Release(k)) => ConsoleInv'
<1> SUFFICES ASSUME ConsoleInv, NEW k \in Keys, Release(k)
             PROVE  ConsoleInv'
  OBVIOUS
<1>1. /\ wire' = wire \o Break(k) /\ held' = held \ {k} /\ on' = on \ Modifier(k)
      /\ UNCHANGED <<latched, mode, shift, buf, rpos, wpos, kb, typed>>
  BY DEF Release, Send, driver
<1>2. k \in AllKeys
  BY ConsoleAssumption DEF AllKeys
<1>3. /\ wire \in Seq(Nat) /\ shift \in SUBSET Bits /\ on \in SUBSET Modifiers
      /\ on \in SUBSET Bits /\ typed \in Seq(Codes) /\ Means(wire, shift, on, typed)
  BY DEF ConsoleInv, ConsoleType, Bits
<1>4. Spelled(Break(k), on, on \ Modifier(k), <<>>)
  BY <1>2, <1>3, BreakSpelled
<1>5. /\ Means(wire', shift, on \ Modifier(k), typed \o <<>>) /\ wire' \in Seq(Nat)
  BY <1>1, <1>3, <1>4, SpelledMeans
<1>6. typed \o <<>> = typed
  BY <1>3
<1>7. ConsoleType'
  BY <1>1, <1>5 DEF ConsoleInv, ConsoleType
<1>8. HeldOn'
  BY <1>1 DEF ConsoleInv, HeldOn
<1>9. Means(wire, shift, on, typed)'
  BY <1>1, <1>5, <1>6
<1> QED
  BY <1>7, <1>8, <1>9 DEF ConsoleInv

LEMMA FakeShiftInv == ConsoleInv /\ FakeShift => ConsoleInv'
<1> SUFFICES ASSUME ConsoleInv, FakeShift
             PROVE  ConsoleInv'
  OBVIOUS
<1>1. PICK code \in {42, 170} : wire' = wire \o <<E0, code>>
  BY DEF FakeShift, Send
<1>2. UNCHANGED <<latched, mode, shift, buf, rpos, wpos, kb, held, on, typed>>
  BY DEF FakeShift, driver, user
<1>3. /\ wire \in Seq(Nat) /\ shift \in SUBSET Bits /\ on \in SUBSET Modifiers
      /\ on \in SUBSET Bits /\ typed \in Seq(Codes) /\ Means(wire, shift, on, typed)
  BY DEF ConsoleInv, ConsoleType, Bits
<1>4. Spelled(<<E0, code>>, on, on, <<>>)
  BY <1>3, FakeSpelled
<1>5. /\ Means(wire', shift, on, typed \o <<>>) /\ wire' \in Seq(Nat)
  BY <1>1, <1>3, <1>4, SpelledMeans
<1>6. typed \o <<>> = typed
  BY <1>3
<1>7. ConsoleType'
  BY <1>2, <1>5 DEF ConsoleInv, ConsoleType
<1>8. HeldOn'
  BY <1>2 DEF ConsoleInv, HeldOn
<1>9. Means(wire, shift, on, typed)'
  BY <1>2, <1>5, <1>6
<1> QED
  BY <1>7, <1>8, <1>9 DEF ConsoleInv

(* A drain of any n bytes, and the character that is then taken. *)
LEMMA DrainMeans ==
  ASSUME ConsoleInv, NEW n \in 0 .. Len(wire),
         NEW d, d = cons_intr(SubSeq(wire, 1, n))
  PROVE  /\ d \in DriverType /\ d.n \in 0 .. Len(typed)
         /\ Means(SubSeq(wire, n + 1, Len(wire)), d.shift, on, SubSeq(typed, d.n + 1, Len(typed)))
         /\ Got(d).c \in Codes \cup {0} /\ Got(d).rpos \in 0 .. ConsBufSize - 1
<1>1. ConsoleType /\ Means(wire, shift, on, typed)
  BY DEF ConsoleInv
<1>2. PICK sh, pos : Decodes(wire, shift, on, typed, sh, pos)
  BY <1>1 DEF Means
<1>3. PICK h : /\ h[n] = d /\ h[n] \in DriverType /\ h[n].shift = sh[n] /\ h[n].n = pos[n]
  <2>1. n \in 0 .. n
    BY <1>1 DEF ConsoleType
  <2> QED
    BY <1>1, <1>2, <2>1, DrainTrace
<1>4. d \in DriverType /\ d.shift = sh[n] /\ d.n = pos[n]
  BY <1>3
<1>5. wire \in Seq(Nat) /\ typed \in Seq(Codes) /\ rpos \in 0 .. ConsBufSize - 1
  BY <1>1 DEF ConsoleType
<1>6. Means(SubSeq(wire, n + 1, Len(wire)), sh[n], on, SubSeq(typed, pos[n] + 1, Len(typed)))
  BY <1>2, <1>5, MeansRest
<1>7. pos[n] \in 0 .. Len(typed)
  BY <1>2 DEF Decodes
<1>8. Got(d).c \in Codes \cup {0} /\ Got(d).rpos \in 0 .. ConsBufSize - 1
  <2>1. d.buf \in [0 .. ConsBufSize - 1 -> Codes \cup {0}]
    BY <1>4 DEF DriverType
  <2>2. Advanced(rpos) \in 0 .. ConsBufSize - 1
    BY <1>5, ConsoleAssumption DEF Advanced
  <2> QED
    BY <1>5, <2>1, <2>2 DEF Got
<1> QED
  BY <1>4, <1>6, <1>7, <1>8

LEMMA DrainInv ==
  ASSUME ConsoleInv, NEW n \in 0 .. Len(wire),
         NEW d, d = cons_intr(SubSeq(wire, 1, n)),
         NEW r \in 0 .. ConsBufSize - 1, Drain(n, d, r),
         kb' \in Seq({Signed(v) : v \in Codes \cup {0}}),
         mode' \in {"boot", "run", "panic"}, latched' \in BOOLEAN
  PROVE  ConsoleInv'
<1>1. /\ d \in DriverType /\ d.n \in 0 .. Len(typed)
      /\ Means(SubSeq(wire, n + 1, Len(wire)), d.shift, on, SubSeq(typed, d.n + 1, Len(typed)))
  BY DrainMeans
<1>2. /\ wire' = SubSeq(wire, n + 1, Len(wire)) /\ shift' = d.shift /\ buf' = d.buf
      /\ wpos' = d.wpos /\ rpos' = r /\ typed' = SubSeq(typed, d.n + 1, Len(typed))
      /\ held' = held /\ on' = on
  BY DEF Drain
<1>3. /\ wire \in Seq(Nat) /\ typed \in Seq(Codes) /\ held \subseteq Keys /\ on \subseteq Modifiers
  BY DEF ConsoleInv, ConsoleType
<1>4. wire' \in Seq(Nat) /\ typed' \in Seq(Codes)
  <2>1. n + 1 \in 1 .. Len(wire) + 1 /\ d.n + 1 \in 1 .. Len(typed) + 1
    BY <1>1, <1>3
  <2> QED
    BY <1>2, <1>3, <2>1
<1>5. /\ d.shift \subseteq Bits /\ d.buf \in [0 .. ConsBufSize - 1 -> Codes \cup {0}]
      /\ d.wpos \in 0 .. ConsBufSize - 1
  BY <1>1 DEF DriverType
<1>6. ConsoleType'
  BY <1>2, <1>3, <1>4, <1>5 DEF ConsoleType
<1>7. Means(wire, shift, on, typed)'
  BY <1>1, <1>2
<1>8. HeldOn'
  BY <1>2 DEF ConsoleInv, HeldOn
<1> QED
  BY <1>6, <1>7, <1>8 DEF ConsoleInv

LEMMA PushedType ==
  ASSUME ConsoleInv, NEW v \in Codes \cup {0}
  PROVE  Pushed(Signed(v)) \in Seq({Signed(u) : u \in Codes \cup {0}})
<1>1. PICK S : S = {Signed(u) : u \in Codes \cup {0}}
  OBVIOUS
<1>2. Signed(v) \in S /\ kb \in Seq(S)
  BY <1>1 DEF ConsoleInv, ConsoleType
<1>3. Pushed(Signed(v)) \in Seq(S)
  BY <1>2 DEF Pushed
<1> QED
  BY <1>1, <1>3

LEMMA DriverInv == ConsoleInv /\ (cons_init \/ KbdInterrupt \/ getchar) => ConsoleInv'
<1> SUFFICES ASSUME ConsoleInv, cons_init \/ KbdInterrupt \/ getchar
             PROVE  ConsoleInv'
  OBVIOUS
<1>1. /\ wire \in Seq(Nat) /\ kb \in Seq({Signed(v) : v \in Codes \cup {0}})
      /\ rpos \in 0 .. ConsBufSize - 1 /\ latched \in BOOLEAN /\ mode \in {"boot", "run", "panic"}
  BY DEF ConsoleInv, ConsoleType
<1>2. CASE cons_init
  <2>1. PICK n \in 0 .. Len(wire) : n = Len(wire)
    BY <1>1
  <2>2. SubSeq(wire, 1, n) = wire
    BY <1>1, <2>1
  <2>3. PICK d : d = cons_intr(SubSeq(wire, 1, n)) /\ Drain(n, d, rpos)
    BY <1>2, <2>1, <2>2 DEF cons_init
  <2>4. /\ kb' \in Seq({Signed(v) : v \in Codes \cup {0}})
        /\ latched' \in BOOLEAN /\ mode' \in {"boot", "run", "panic"}
    BY <1>1, <1>2 DEF cons_init, Latch
  <2> QED
    BY <1>1, <2>3, <2>4, DrainInv
<1>3. CASE KbdInterrupt
  <2>1. PICK n \in 0 .. Len(wire) :
          /\ LET d == cons_intr(SubSeq(wire, 1, n))
             IN  Drain(n, d, Got(d).rpos) /\ kb' = Pushed(Signed(Got(d).c))
          /\ latched' \in BOOLEAN
    BY <1>3 DEF KbdInterrupt, Latch
  <2>2. PICK d : d = cons_intr(SubSeq(wire, 1, n))
    OBVIOUS
  <2>3. Drain(n, d, Got(d).rpos) /\ kb' = Pushed(Signed(Got(d).c))
    BY <2>1, <2>2
  <2>4. Got(d).c \in Codes \cup {0} /\ Got(d).rpos \in 0 .. ConsBufSize - 1
    BY <2>2, DrainMeans
  <2>5. kb' \in Seq({Signed(v) : v \in Codes \cup {0}})
    BY <2>3, <2>4, PushedType
  <2>6. mode' \in {"boot", "run", "panic"}
    BY <1>1, <1>3 DEF KbdInterrupt
  <2> QED
    BY <2>1, <2>2, <2>3, <2>4, <2>5, <2>6, DrainInv
<1>4. CASE getchar
  <2>1. PICK n \in 0 .. Len(wire) :
          LET d == cons_intr(SubSeq(wire, 1, n)) IN Drain(n, d, Got(d).rpos)
    BY <1>4 DEF getchar
  <2>2. PICK d : d = cons_intr(SubSeq(wire, 1, n))
    OBVIOUS
  <2>3. Drain(n, d, Got(d).rpos)
    BY <2>1, <2>2
  <2>4. Got(d).rpos \in 0 .. ConsBufSize - 1
    BY <2>2, DrainMeans
  <2>5. /\ kb' \in Seq({Signed(v) : v \in Codes \cup {0}})
        /\ latched' \in BOOLEAN /\ mode' \in {"boot", "run", "panic"}
    BY <1>1, <1>4 DEF getchar
  <2> QED
    BY <2>2, <2>3, <2>4, <2>5, DrainInv
<1> QED
  BY <1>2, <1>3, <1>4

LEMMA OtherInv ==
  ConsoleInv /\ (keybuf_pop \/ panic \/ UNCHANGED consoleVars) => ConsoleInv'
<1> SUFFICES ASSUME ConsoleInv, keybuf_pop \/ panic \/ UNCHANGED consoleVars
             PROVE  ConsoleInv'
  OBVIOUS
<1>1. UNCHANGED <<wire, latched, shift, buf, rpos, wpos, held, on, typed>>
  BY DEF keybuf_pop, panic, consoleVars, driver, user
<1>2. mode' \in {"boot", "run", "panic"}
  BY DEF keybuf_pop, panic, consoleVars, ConsoleInv, ConsoleType
<1>3. kb' \in Seq({Signed(v) : v \in Codes \cup {0}})
  <2>1. PICK S : S = {Signed(v) : v \in Codes \cup {0}}
    OBVIOUS
  <2>2. kb \in Seq(S)
    BY <2>1 DEF ConsoleInv, ConsoleType
  <2>3. (kb # <<>> /\ kb' = Tail(kb)) \/ kb' = kb
    BY DEF keybuf_pop, panic, consoleVars
  <2>4. kb' \in Seq(S)
    BY <2>2, <2>3
  <2> QED
    BY <2>1, <2>4
<1>4. ConsoleType'
  BY <1>1, <1>2, <1>3 DEF ConsoleInv, ConsoleType
<1>5. HeldOn' /\ Means(wire, shift, on, typed)'
  BY <1>1 DEF ConsoleInv, HeldOn
<1> QED
  BY <1>4, <1>5 DEF ConsoleInv

LEMMA ConsoleNextInv == ConsoleInv /\ [ConsoleNext]_consoleVars => ConsoleInv'
BY PressInv, ReleaseInv, FakeShiftInv, DriverInv, OtherInv DEF ConsoleNext

(* The keys are decoded as they were meant, in every state of the driver:     *)
(* the modifiers come back to what the user holds, and no prefix, faked shift *)
(* or half-drained key changes the character of a key that follows.           *)
THEOREM KeysAlwaysDecoded == ConsoleSpec => []KeysDecoded
<1>1. ConsoleInv => KeysDecoded
  BY InvDecoded
<1> QED
  BY <1>1, ConsoleInitInv, ConsoleNextInv, PTL DEF ConsoleSpec

-----------------------------------------------------------------------------
(* The driver's ring as a queue: the characters of b from index r up to w. *)
RingSeq(b, r, w) == [i \in 1 .. (w - r) % ConsBufSize |-> b[(r + i - 1) % ConsBufSize]]

RingPlaces == 0 .. ConsBufSize - 1

LEMMA RingIndex ==
  ASSUME NEW r \in RingPlaces, NEW w \in RingPlaces
  PROVE  /\ (w - r) % ConsBufSize = (IF w < r THEN w - r + ConsBufSize ELSE w - r)
         /\ (w - r) % ConsBufSize \in RingPlaces
         /\ \A i \in 1 .. ConsBufSize :
              /\ (r + i - 1) % ConsBufSize
                   = (IF r + i - 1 < ConsBufSize THEN r + i - 1 ELSE r + i - 1 - ConsBufSize)
              /\ (r + i - 1) % ConsBufSize \in RingPlaces
<1>1. PICK N \in Nat \ {0} : N = ConsBufSize
  BY ConsoleAssumption
<1>2. r \in 0 .. N - 1 /\ w \in 0 .. N - 1
  BY <1>1 DEF RingPlaces
<1>3. w - r \in -N .. 2 * N - 1 /\ \A i \in 1 .. N : r + i - 1 \in -N .. 2 * N - 1
  BY <1>2
<1>4. (w - r) % N = (IF w < r THEN w - r + N ELSE w - r)
  <2>1. PICK k : k = w - r
    OBVIOUS
  <2>2. k % N = IF k < 0 THEN k + N ELSE IF k < N THEN k ELSE k - N
    BY <1>3, <2>1, OneWrap
  <2> QED
    BY <1>2, <2>1, <2>2
<1>5. ASSUME NEW i \in 1 .. N
      PROVE  (r + i - 1) % N = IF r + i - 1 < N THEN r + i - 1 ELSE r + i - 1 - N
  <2>1. PICK k : k = r + i - 1
    OBVIOUS
  <2>2. k % N = IF k < 0 THEN k + N ELSE IF k < N THEN k ELSE k - N
    BY <1>3, <2>1, OneWrap
  <2> QED
    BY <1>2, <2>1, <2>2
<1>6. \A x : x \in RingPlaces <=> x \in 0 .. N - 1
  BY <1>1 DEF RingPlaces
<1>7. (w - r) % N \in 0 .. N - 1 /\ \A i \in 1 .. N : (r + i - 1) % N \in 0 .. N - 1
  BY <1>2, <1>4, <1>5
<1> QED
  BY <1>1, <1>4, <1>5, <1>6, <1>7

RingBuffer == [RingPlaces -> Codes \cup {0}]

LEMMA RingSeqType ==
  ASSUME NEW b \in RingBuffer, NEW r \in RingPlaces, NEW w \in RingPlaces
  PROVE  RingSeq(b, r, w) \in RingType /\ Len(RingSeq(b, r, w)) = (w - r) % ConsBufSize
<1>1. PICK m \in Nat : m = (w - r) % ConsBufSize /\ m < ConsBufSize
  BY RingIndex, ConsoleAssumption DEF RingPlaces
<1>2. \A i \in 1 .. m : i \in 1 .. ConsBufSize
  BY <1>1, ConsoleAssumption
<1>3. \A i \in 1 .. m : b[(r + i - 1) % ConsBufSize] \in Codes \cup {0}
  BY <1>2, RingIndex DEF RingBuffer
<1>4. RingSeq(b, r, w) = [i \in 1 .. m |-> b[(r + i - 1) % ConsBufSize]]
  BY <1>1 DEF RingSeq
<1> QED
  BY <1>1, <1>3, <1>4 DEF RingType

(* A character stored behind the last: the queue grows, or the ring laps and  *)
(* seems empty.                                                              *)
LEMMA RingStores ==
  ASSUME NEW b \in RingBuffer, NEW r \in RingPlaces, NEW w \in RingPlaces, NEW v \in Codes
  PROVE  RingSeq([b EXCEPT ![w] = v], r, Advanced(w)) = Path!Store(RingSeq(b, r, w), v)
<1>1. PICK N \in Nat : N = ConsBufSize /\ N > 1
  BY ConsoleAssumption
<1>2. PICK m : m = (w - r) % ConsBufSize
  OBVIOUS
<1>3. r \in 0 .. N - 1 /\ w \in 0 .. N - 1
  BY <1>1 DEF RingPlaces
<1>4. m = (IF w < r THEN w - r + N ELSE w - r) /\ m \in 0 .. N - 1
  BY <1>1, <1>2, RingIndex DEF RingPlaces
<1>5. PICK a : a = Advanced(w)
  OBVIOUS
<1>6. a = (IF w + 1 = N THEN 0 ELSE w + 1) /\ a \in 0 .. N - 1
  BY <1>1, <1>3, <1>5 DEF Advanced
<1>7. (a - r) % ConsBufSize = (IF a < r THEN a - r + N ELSE a - r)
  <2>1. a \in RingPlaces
    BY <1>1, <1>6 DEF RingPlaces
  <2> QED
    BY <1>1, <2>1, RingIndex
<1>8. PICK c2 : c2 = [b EXCEPT ![w] = v]
  OBVIOUS
<1>9. c2[w] = v /\ \A x \in RingPlaces : x # w => c2[x] = b[x]
  BY <1>8 DEF RingBuffer
<1>10. PICK q : q = RingSeq(b, r, w)
  OBVIOUS
<1>11. q \in RingType /\ Len(q) = m /\ q = [i \in 1 .. m |-> b[(r + i - 1) % ConsBufSize]]
  BY <1>2, <1>10, RingSeqType DEF RingSeq
<1>12. Path!Store(q, v) = IF m < N - 1 THEN Append(q, v) ELSE <<>>
  BY <1>1, <1>11 DEF Path!Store
<1>13. CASE m < N - 1
  <2>1. (a - r) % ConsBufSize = m + 1
    BY <1>3, <1>4, <1>6, <1>7, <1>13
  <2>2. RingSeq(c2, r, a) = [i \in 1 .. m + 1 |-> c2[(r + i - 1) % ConsBufSize]]
    BY <2>1 DEF RingSeq
  <2>3. ASSUME NEW i \in 1 .. m + 1
        PROVE  c2[(r + i - 1) % ConsBufSize] = IF i = m + 1 THEN v ELSE q[i]
    <3>1. PICK k : k = (r + i - 1) % ConsBufSize
      OBVIOUS
    <3>2. i \in 1 .. ConsBufSize
      BY <1>1, <1>4, <1>13
    <3>3. k = (IF r + i - 1 < N THEN r + i - 1 ELSE r + i - 1 - N) /\ k \in RingPlaces
      BY <1>1, <3>1, <3>2, RingIndex
    <3>4. CASE i = m + 1
      <4>1. k = w
        BY <1>3, <1>4, <3>3, <3>4
      <4> QED
        BY <1>9, <3>1, <3>4, <4>1
    <3>5. CASE i # m + 1
      <4>1. k # w
        BY <1>3, <1>4, <1>13, <3>3, <3>5
      <4>2. i \in 1 .. m
        BY <1>4, <3>5
      <4>3. q[i] = b[k]
        BY <1>11, <3>1, <4>2
      <4> QED
        BY <1>9, <3>1, <3>3, <3>5, <4>1, <4>3
    <3> QED
      BY <3>4, <3>5
  <2>4. PICK u : u = Append(q, v)
    OBVIOUS
  <2>5. /\ u = [i \in 1 .. m + 1 |-> u[i]]
        /\ \A i \in 1 .. m + 1 : u[i] = IF i = m + 1 THEN v ELSE q[i]
    BY <1>4, <1>11, <2>4 DEF RingType
  <2>6. RingSeq(c2, r, a) = u
    BY <2>2, <2>3, <2>5
  <2> QED
    BY <1>5, <1>8, <1>10, <1>12, <1>13, <2>4, <2>6
<1>14. CASE ~(m < N - 1)
  <2>1. (a - r) % ConsBufSize = 0
    BY <1>3, <1>4, <1>6, <1>7, <1>14
  <2>2. RingSeq(c2, r, a) = <<>>
    BY <2>1 DEF RingSeq
  <2> QED
    BY <1>5, <1>8, <1>10, <1>12, <1>14, <2>2
<1> QED
  BY <1>13, <1>14

(* cons_getc takes the oldest character, or none when there is none. *)
LEMMA RingGives ==
  ASSUME NEW d \in DriverType, rpos \in RingPlaces,
         NEW q, q = RingSeq(d.buf, rpos, d.wpos)
  PROVE  /\ Got(d).c = Path!Offered(q)
         /\ RingSeq(d.buf, Got(d).rpos, d.wpos) = Path!Rest(q)
<1>1. PICK N \in Nat : N = ConsBufSize /\ N > 1
  BY ConsoleAssumption
<1>2. PICK w, b : w = d.wpos /\ b = d.buf
  OBVIOUS
<1>3. w \in RingPlaces /\ b \in RingBuffer
  BY <1>2 DEF DriverType, RingBuffer, RingPlaces
<1>4. PICK r : r = rpos
  OBVIOUS
<1>5. r \in 0 .. N - 1 /\ w \in 0 .. N - 1 /\ r \in RingPlaces
  BY <1>1, <1>3, <1>4 DEF RingPlaces
<1>6. PICK m : m = (w - r) % ConsBufSize
  OBVIOUS
<1>7. m = (IF w < r THEN w - r + N ELSE w - r) /\ m \in 0 .. N - 1
  BY <1>1, <1>3, <1>5, <1>6, RingIndex DEF RingPlaces
<1>8. q \in RingType /\ Len(q) = m /\ q = [i \in 1 .. m |-> b[(r + i - 1) % ConsBufSize]]
  BY <1>2, <1>3, <1>4, <1>5, <1>6, RingSeqType DEF RingSeq
<1>9. CASE r = w
  <2>1. q = <<>>
    BY <1>5, <1>7, <1>8, <1>9 DEF RingType
  <2>2. Got(d).c = 0 /\ Got(d).rpos = r
    BY <1>2, <1>4, <1>9 DEF Got
  <2> QED
    BY <1>4, <2>1, <2>2 DEF Path!Offered, Path!Rest
<1>10. CASE r # w
  <2>1. Got(d).c = b[r] /\ Got(d).rpos = Advanced(r)
    BY <1>2, <1>4, <1>10 DEF Got
  <2>2. m \in 1 .. N - 1
    BY <1>5, <1>7, <1>10
  <2>3. q # <<>>
    <3>1. Len(q) # 0 /\ Len(<<>>) = 0
      BY <1>8, <2>2
    <3> QED
      BY <3>1
  <2>4. ASSUME NEW i \in 1 .. N
        PROVE  (r + i - 1) % ConsBufSize = IF r + i - 1 < N THEN r + i - 1 ELSE r + i - 1 - N
    BY <1>1, <1>5, RingIndex
  <2>5. Head(q) = b[r]
    <3>1. 1 \in 1 .. m /\ 1 \in 1 .. N /\ r + 1 - 1 = r /\ r < N
      BY <1>5, <2>2
    <3>2. q[1] = b[r]
      BY <1>8, <2>4, <3>1
    <3> QED
      BY <3>2
  <2>6. PICK a : a = Advanced(r)
    OBVIOUS
  <2>7. a = (IF r + 1 = N THEN 0 ELSE r + 1) /\ a \in 0 .. N - 1 /\ a \in RingPlaces
    BY <1>1, <1>5, <2>6 DEF Advanced, RingPlaces
  <2>8. (w - a) % ConsBufSize = (IF w < a THEN w - a + N ELSE w - a)
    BY <1>1, <1>3, <2>7, RingIndex
  <2>9. (w - a) % ConsBufSize = m - 1
    BY <1>5, <1>7, <1>10, <2>7, <2>8
  <2>10. RingSeq(b, a, w) = [i \in 1 .. m - 1 |-> b[(a + i - 1) % ConsBufSize]]
    BY <2>9 DEF RingSeq
  <2>11. ASSUME NEW i \in 1 .. m - 1
         PROVE  b[(a + i - 1) % ConsBufSize] = q[i + 1]
    <3>1. i \in 1 .. N /\ i + 1 \in 1 .. N /\ i + 1 \in 1 .. m
      BY <2>2
    <3>2. (a + i - 1) % ConsBufSize = IF a + i - 1 < N THEN a + i - 1 ELSE a + i - 1 - N
      BY <1>1, <2>7, <3>1, RingIndex
    <3>3. (r + (i + 1) - 1) % ConsBufSize
            = IF r + (i + 1) - 1 < N THEN r + (i + 1) - 1 ELSE r + (i + 1) - 1 - N
      BY <2>4, <3>1
    <3>4. (a + i - 1) % ConsBufSize = (r + (i + 1) - 1) % ConsBufSize
      BY <1>5, <2>7, <3>1, <3>2, <3>3
    <3> QED
      BY <1>8, <3>1, <3>4
  <2>12. PICK u : u = Tail(q)
    OBVIOUS
  <2>13. u = [i \in 1 .. m - 1 |-> u[i]] /\ \A i \in 1 .. m - 1 : u[i] = q[i + 1]
    BY <1>8, <2>2, <2>3, <2>12 DEF RingType
  <2>14. RingSeq(b, a, w) = u
    BY <2>10, <2>11, <2>13
  <2> QED
    BY <1>2, <1>4, <2>1, <2>3, <2>5, <2>6, <2>12, <2>14 DEF Path!Offered, Path!Rest
<1> QED
  BY <1>9, <1>10

(* The drain of n bytes feeds the queue the characters they make. *)
LEMMA DrainFeeds ==
  ASSUME ConsoleInv, NEW n \in 0 .. Len(wire), NEW d, d = cons_intr(SubSeq(wire, 1, n))
  PROVE  RingSeq(d.buf, rpos, d.wpos) = Path!Fed(d.n)
<1>1. ConsoleType /\ Means(wire, shift, on, typed)
  BY DEF ConsoleInv
<1>2. PICK sh, pos : Decodes(wire, shift, on, typed, sh, pos)
  BY <1>1 DEF Means
<1>3. PICK L \in Nat : L = Len(wire) /\ n \in 0 .. L
  BY <1>1 DEF ConsoleType
<1>4. /\ wire \in Seq(Nat) /\ typed \in Seq(Codes) /\ rpos \in RingPlaces /\ wpos \in RingPlaces
      /\ buf \in RingBuffer
  BY <1>1 DEF ConsoleType, RingPlaces, RingBuffer
<1>5. PICK w : w = SubSeq(wire, 1, n)
  OBVIOUS
<1>6. w \in Seq(Nat) /\ Len(w) = n /\ \A i \in 1 .. n : w[i] = wire[i]
  BY <1>3, <1>4, <1>5
<1>7. PICK h : /\ Turns(h, w) /\ h[0] = Start /\ h[n] = d
               /\ \A i \in 0 .. n : h[i] \in DriverType /\ h[i].shift = sh[i] /\ h[i].n = pos[i]
  BY <1>1, <1>2, <1>5, DrainTrace
<1>8. PICK k : k = pos[n]
  OBVIOUS
<1>9. PICK m \in Nat : m = Len(typed)
  BY <1>4
<1>10. pos \in [0 .. L -> 0 .. m] /\ pos[0] = 0
  BY <1>2, <1>3, <1>9 DEF Decodes
<1>11. k \in 0 .. m
  BY <1>3, <1>8, <1>10
<1>12. \A i \in 0 .. n : pos[i] <= k /\ pos[i] \in 0 .. k
  <2>1. ASSUME NEW i \in 0 .. n
        PROVE  pos[i] <= k
    <3>1. i \in 0 .. Len(wire) /\ n \in i .. Len(wire)
      BY <1>3
    <3> QED
      BY <1>2, <1>4, <1>8, <3>1, PosGrows
  <2>2. \A i \in 0 .. n : pos[i] \in 0 .. m
    BY <1>3, <1>10
  <2> QED
    BY <1>11, <2>1, <2>2
<1>13. PICK t : t = SubSeq(typed, 1, k)
  OBVIOUS
<1>14. t \in Seq(Codes) /\ Len(t) = k /\ \A i \in 1 .. k : t[i] = typed[i]
  BY <1>4, <1>9, <1>11, <1>13
<1>15. PICK q0 : q0 = Unread
  OBVIOUS
<1>16. q0 = RingSeq(buf, rpos, wpos)
  BY <1>15 DEF Unread, RingSeq
<1>17. q0 \in RingType
  BY <1>4, <1>16, RingSeqType
<1>18. PICK g : Stores(g, t) /\ g[0] = q0 /\ g[Len(t)] = FoldLeft(Path!Store, q0, t)
  BY <1>14, <1>17, StoreTrace
<1>19. g[k] = Path!Fed(k)
  <2>1. Path!Fed(k) = FoldLeft(Path!Store, Unread, SubSeq(typed, 1, k))
    BY DEF Path!Fed, Path!FoldLeft, FoldLeft, Path!MapThenFoldSet, MapThenFoldSet, Path!Max, Max
  <2> QED
    BY <1>13, <1>14, <1>15, <1>18, <2>1
<1>20. g \in [0 .. k -> RingType] /\ \A i \in 1 .. k : g[i] = Path!Store(g[i - 1], typed[i])
  BY <1>14, <1>18 DEF Stores
<1>21. \A i \in 1 .. L : Contributes(wire, typed, sh, pos, i)
  BY <1>2, <1>3, <1>4, DecodesAt
<1> DEFINE Good == {i \in 0 .. n : RingSeq(h[i].buf, rpos, h[i].wpos) = g[pos[i]]}
<1>22. 0 \in Good
  <2>1. h[0].buf = buf /\ h[0].wpos = wpos
    BY <1>7 DEF Start
  <2> QED
    BY <1>3, <1>10, <1>16, <1>18, <2>1
<1>23. ASSUME NEW i \in 0 .. n, i \in Good, i < n
       PROVE  i + 1 \in Good
  <2>1. i + 1 \in 1 .. n /\ i + 1 - 1 = i /\ i + 1 \in 0 .. n /\ i + 1 \in 1 .. L
    BY <1>3, <1>23
  <2>2. PICK p : p = kbd_proc_data(sh[i], wire[i + 1])
    OBVIOUS
  <2>3. /\ pos[i + 1] = pos[i] + (IF p.c = 0 THEN 0 ELSE 1)
        /\ p.c # 0 => typed[pos[i + 1]] = p.c
        /\ sh[i] \in SUBSET Bits
    BY <1>21, <2>1, <2>2 DEF Contributes
  <2>4. PICK e : e = h[i]
    OBVIOUS
  <2>5. e \in DriverType /\ e.shift = sh[i] /\ h[i + 1] = Turn(e, wire[i + 1])
    BY <1>6, <1>7, <2>1, <2>4 DEF Turns
  <2>6. RingSeq(e.buf, rpos, e.wpos) = g[pos[i]]
    BY <1>23, <2>4
  <2>7. CASE p.c = 0
    <3>1. h[i + 1].buf = e.buf /\ h[i + 1].wpos = e.wpos
      BY <2>2, <2>5, <2>7 DEF Turn, DriverType
    <3>2. pos[i + 1] = pos[i]
      BY <1>12, <2>3, <2>7
    <3> QED
      BY <2>1, <2>6, <3>1, <3>2
  <2>8. CASE p.c # 0
    <3>1. h[i + 1].buf = [e.buf EXCEPT ![e.wpos] = p.c] /\ h[i + 1].wpos = Advanced(e.wpos)
      BY <2>2, <2>5, <2>8 DEF Turn
    <3>2. e.buf \in RingBuffer /\ e.wpos \in RingPlaces
      BY <2>5 DEF DriverType, RingBuffer, RingPlaces
    <3>3. PICK v \in Codes : v = p.c
      BY <2>2, <2>3, <2>8, ProcType
    <3>4. RingSeq([e.buf EXCEPT ![e.wpos] = v], rpos, Advanced(e.wpos))
            = Path!Store(RingSeq(e.buf, rpos, e.wpos), v)
      BY <1>4, <3>2, RingStores
    <3>5. PICK x : x = pos[i] /\ x + 1 = pos[i + 1] /\ x + 1 \in 1 .. k /\ (x + 1) - 1 = x
      BY <1>12, <2>1, <2>3, <2>8
    <3>6. g[x + 1] = Path!Store(g[x], typed[x + 1])
      <4>1. PICK y \in 1 .. k : y = x + 1 /\ y - 1 = x
        BY <3>5
      <4>2. g[y] = Path!Store(g[y - 1], typed[y])
        BY <1>20
      <4> QED
        BY <4>1, <4>2
    <3> QED
      BY <2>1, <2>3, <2>6, <2>8, <3>1, <3>3, <3>4, <3>5, <3>6
  <2> QED
    BY <2>7, <2>8
<1>24. Good \in SUBSET (0 .. n) /\ n \in Nat
  BY <1>3
<1> HIDE DEF Good
<1>25. Good = 0 .. n
  BY <1>22, <1>23, <1>24, Steps
<1>26. RingSeq(h[n].buf, rpos, h[n].wpos) = g[pos[n]]
  BY <1>24, <1>25 DEF Good
<1>27. d.n = k
  BY <1>3, <1>7, <1>8
<1> QED
  BY <1>7, <1>8, <1>19, <1>26, <1>27

-----------------------------------------------------------------------------
(* The three queues in a row.  The key buffer keeps signed characters; the    *)
(* path speaks of the unsigned ones.                                          *)
Unsigned(s) == [i \in DOMAIN s |-> s[i] % 256]

LEMMA SignedBack == \A v \in Codes \cup {0} : Signed(v) % 256 = v
BY DEF Signed, Codes, KEY_LF

LEMMA PushedView ==
  ASSUME ConsoleInv, NEW v \in Codes \cup {0}
  PROVE  Unsigned(Pushed(Signed(v)))
           = IF Len(Unsigned(kb)) < KbSize - 1 THEN Append(Unsigned(kb), v) ELSE Unsigned(kb)
<1>1. PICK S : S = {Signed(u) : u \in Codes \cup {0}}
  OBVIOUS
<1>2. kb \in Seq(S) /\ Signed(v) \in S
  BY <1>1 DEF ConsoleInv, ConsoleType
<1>3. PICK m \in Nat : m = Len(kb) /\ DOMAIN kb = 1 .. m
  BY <1>2
<1>4. PICK q : q = Unsigned(kb)
  OBVIOUS
<1>5. q = [i \in 1 .. m |-> kb[i] % 256]
  BY <1>3, <1>4 DEF Unsigned
<1>6. \A i \in 1 .. m : kb[i] % 256 \in Codes \cup {0}
  <2>1. \A u \in S : u % 256 \in Codes \cup {0}
    BY <1>1, SignedBack
  <2> QED
    BY <1>2, <1>3, <2>1
<1>7. q \in Seq(Codes \cup {0}) /\ Len(q) = m
  BY <1>5, <1>6
<1>8. CASE m < KbSize - 1
  <2>1. PICK t : t = Append(kb, Signed(v))
    OBVIOUS
  <2>2. /\ t \in Seq(S) /\ DOMAIN t = 1 .. m + 1
        /\ \A i \in 1 .. m + 1 : t[i] = IF i = m + 1 THEN Signed(v) ELSE kb[i]
    BY <1>2, <1>3, <2>1
  <2>3. Unsigned(t) = [i \in 1 .. m + 1 |-> t[i] % 256]
    BY <2>2 DEF Unsigned
  <2>4. \A i \in 1 .. m + 1 : t[i] % 256 = IF i = m + 1 THEN v ELSE q[i]
    <3>1. \A i \in 1 .. m + 1 : i # m + 1 => i \in 1 .. m
      BY <1>3
    <3> QED
      BY <1>5, <2>2, <3>1, SignedBack
  <2>5. PICK u : u = Append(q, v)
    OBVIOUS
  <2>6. /\ u = [i \in 1 .. m + 1 |-> u[i]]
        /\ \A i \in 1 .. m + 1 : u[i] = IF i = m + 1 THEN v ELSE q[i]
    <3>1. PICK T : T = Codes \cup {0}
      OBVIOUS
    <3>2. q \in Seq(T) /\ v \in T /\ Len(q) = m
      BY <1>7, <3>1
    <3> QED
      BY <1>5, <2>5, <3>2
  <2>7. Unsigned(t) = u
    BY <2>3, <2>4, <2>6
  <2> QED
    BY <1>3, <1>4, <1>7, <1>8, <2>1, <2>5, <2>7 DEF Pushed
<1>9. CASE ~(m < KbSize - 1)
  BY <1>3, <1>4, <1>7, <1>9 DEF Pushed
<1> QED
  BY <1>8, <1>9

LEMMA TailView ==
  ASSUME ConsoleInv, kb # <<>>
  PROVE  Unsigned(kb) # <<>> /\ Unsigned(Tail(kb)) = Tail(Unsigned(kb))
<1>1. PICK S : S = {Signed(u) : u \in Codes \cup {0}}
  OBVIOUS
<1>2. kb \in Seq(S)
  BY <1>1 DEF ConsoleInv, ConsoleType
<1>3. PICK m \in Nat : m = Len(kb) /\ DOMAIN kb = 1 .. m /\ m # 0
  BY <1>2
<1>4. PICK q : q = Unsigned(kb)
  OBVIOUS
<1>5. q = [i \in 1 .. m |-> kb[i] % 256]
  BY <1>3, <1>4 DEF Unsigned
<1>6. \A i \in 1 .. m : kb[i] % 256 \in Codes \cup {0}
  <2>1. \A u \in S : u % 256 \in Codes \cup {0}
    BY <1>1, SignedBack
  <2> QED
    BY <1>2, <1>3, <2>1
<1>7. q \in Seq(Codes \cup {0}) /\ Len(q) = m /\ q # <<>>
  <2>1. q \in Seq(Codes \cup {0}) /\ Len(q) = m
    BY <1>5, <1>6
  <2> QED
    BY <1>3, <2>1
<1>8. PICK t : t = Tail(kb)
  OBVIOUS
<1>9. DOMAIN t = 1 .. m - 1 /\ \A i \in 1 .. m - 1 : t[i] = kb[i + 1]
  BY <1>2, <1>3, <1>8
<1>10. PICK u : u = Tail(q)
  OBVIOUS
<1>11. u = [i \in 1 .. m - 1 |-> u[i]] /\ \A i \in 1 .. m - 1 : u[i] = q[i + 1]
  <2>1. PICK T : T = Codes \cup {0}
    OBVIOUS
  <2>2. q \in Seq(T) /\ Len(q) = m /\ q # <<>> /\ m > 0
    BY <1>3, <1>7, <2>1
  <2> QED
    BY <1>5, <1>10, <2>2
<1>12. \A i \in 1 .. m - 1 : t[i] % 256 = u[i]
  <2>1. \A i \in 1 .. m - 1 : i + 1 \in 1 .. m
    BY <1>3
  <2> QED
    BY <1>5, <1>9, <1>11, <2>1
<1>13. Unsigned(t) = [i \in 1 .. m - 1 |-> t[i] % 256]
  BY <1>9 DEF Unsigned
<1>14. Unsigned(t) = u
  BY <1>11, <1>12, <1>13
<1> QED
  BY <1>4, <1>7, <1>8, <1>10, <1>14

PathVars == <<typed, Unread, Unsigned(kb)>>

LEMMA UnreadNext == Unread = RingSeq(buf, rpos, wpos) /\ Unread' = RingSeq(buf', rpos', wpos')
BY DEF Unread, RingSeq

(* A drain of n bytes fetches the characters they make. *)
LEMMA DrainFetches ==
  ASSUME ConsoleInv, NEW n \in 0 .. Len(wire), NEW d, d = cons_intr(SubSeq(wire, 1, n)),
         NEW r, Drain(n, d, r)
  PROVE  /\ d.n \in 0 .. Len(typed) /\ Path!Fetch(d.n)
         /\ Unread' = RingSeq(d.buf, r, d.wpos)
         /\ RingSeq(d.buf, rpos, d.wpos) = Path!Fed(d.n)
         /\ Got(d).c = Path!Offered(Path!Fed(d.n)) /\ Got(d).c \in Codes \cup {0}
         /\ RingSeq(d.buf, Got(d).rpos, d.wpos) = Path!Rest(Path!Fed(d.n))
<1>1. d \in DriverType /\ d.n \in 0 .. Len(typed) /\ Got(d).c \in Codes \cup {0}
  BY DrainMeans
<1>2. PICK q : q = RingSeq(d.buf, rpos, d.wpos)
  OBVIOUS
<1>3. q = Path!Fed(d.n)
  BY <1>2, DrainFeeds
<1>4. rpos \in RingPlaces
  BY DEF ConsoleInv, ConsoleType, RingPlaces
<1>5. Got(d).c = Path!Offered(q) /\ RingSeq(d.buf, Got(d).rpos, d.wpos) = Path!Rest(q)
  BY <1>1, <1>2, <1>4, RingGives
<1>6. typed' = SubSeq(typed, d.n + 1, Len(typed)) /\ buf' = d.buf /\ wpos' = d.wpos /\ rpos' = r
  BY DEF Drain
<1>7. Path!Fetch(d.n)
  BY <1>6 DEF Path!Fetch
<1> QED
  BY <1>1, <1>2, <1>3, <1>5, <1>6, <1>7, UnreadNext

LEMMA PressPath ==
  ConsoleInv /\ (\E k \in Keys : Press(k)) => [Path!Next]_PathVars
<1> SUFFICES ASSUME ConsoleInv, NEW k \in Keys, Press(k)
             PROVE  [Path!Next]_PathVars
  OBVIOUS
<1>1. PICK mods : mods = Modified(on, k)
  OBVIOUS
<1>2. typed' = typed \o Meaning(k, mods) /\ UNCHANGED <<buf, rpos, wpos, kb>>
  BY <1>1 DEF Press, driver, Modified
<1>3. UNCHANGED <<Unread, Unsigned(kb)>>
  BY <1>2, UnreadNext
<1>4. typed \in Seq(Codes)
  BY DEF ConsoleInv, ConsoleType
<1>5. CASE Meaning(k, mods) = <<>>
  <2>1. typed' = typed
    BY <1>2, <1>4, <1>5
  <2> QED
    BY <1>3, <2>1 DEF PathVars
<1>6. CASE Meaning(k, mods) # <<>>
  <2>1. PICK v \in Codes : Meaning(k, mods) = <<v>>
    BY <1>6 DEF Meaning, Codes
  <2>2. typed' = Append(typed, v)
    BY <1>2, <1>4, <2>1
  <2>3. Path!Type(v)
    BY <1>3, <2>2 DEF Path!Type, Unsigned
  <2>4. v \in {97, 65, 1, 10, 13, KEY_LF}
    BY DEF Codes
  <2>5. Path!Next
    BY <2>3, <2>4 DEF Path!Next
  <2> QED
    BY <2>5
<1> QED
  BY <1>5, <1>6

LEMMA FeedPath == ConsoleInv /\ cons_init => Path!Next
<1> SUFFICES ASSUME ConsoleInv, cons_init
             PROVE  Path!Next
  OBVIOUS
<1>1. wire \in Seq(Nat)
  BY DEF ConsoleInv, ConsoleType
<1>2. PICK n \in 0 .. Len(wire) : n = Len(wire)
  BY <1>1
<1>3. SubSeq(wire, 1, n) = wire
  BY <1>1, <1>2
<1>4. PICK d : d = cons_intr(SubSeq(wire, 1, n)) /\ Drain(n, d, rpos)
  BY <1>2, <1>3 DEF cons_init
<1>5. d.n \in 0 .. Len(typed) /\ Path!Fetch(d.n) /\ Unread' = Path!Fed(d.n)
  BY <1>4, DrainFetches
<1>6. UNCHANGED Unsigned(kb)
  BY DEF cons_init
<1>7. Path!Feed(d.n)
  BY <1>5, <1>6 DEF Path!Feed, Unsigned
<1> QED
  BY <1>5, <1>7 DEF Path!Next

LEMMA HandlePath == ConsoleInv /\ KbdInterrupt => Path!Next
<1> SUFFICES ASSUME ConsoleInv, KbdInterrupt
             PROVE  Path!Next
  OBVIOUS
<1>1. PICK n \in 0 .. Len(wire) :
        LET e == cons_intr(SubSeq(wire, 1, n))
        IN  Drain(n, e, Got(e).rpos) /\ kb' = Pushed(Signed(Got(e).c))
  BY DEF KbdInterrupt
<1>2. PICK d : d = cons_intr(SubSeq(wire, 1, n))
  OBVIOUS
<1>3. Drain(n, d, Got(d).rpos) /\ kb' = Pushed(Signed(Got(d).c))
  BY <1>1, <1>2
<1>4. /\ d.n \in 0 .. Len(typed) /\ Path!Fetch(d.n) /\ Unread' = Path!Rest(Path!Fed(d.n))
      /\ Got(d).c = Path!Offered(Path!Fed(d.n)) /\ Got(d).c \in Codes \cup {0}
  BY <1>2, <1>3, DrainFetches
<1>5. Unsigned(kb') = IF Len(Unsigned(kb)) < KbSize - 1
                        THEN Append(Unsigned(kb), Got(d).c) ELSE Unsigned(kb)
  BY <1>3, <1>4, PushedView
<1>6. Path!Handle(d.n)
  BY <1>4, <1>5 DEF Path!Handle, Unsigned
<1> QED
  BY <1>4, <1>6 DEF Path!Next

LEMMA PollPath == ConsoleInv /\ getchar => Path!Next
<1> SUFFICES ASSUME ConsoleInv, getchar
             PROVE  Path!Next
  OBVIOUS
<1>1. PICK n \in 0 .. Len(wire) :
        LET e == cons_intr(SubSeq(wire, 1, n)) IN Drain(n, e, Got(e).rpos)
  BY DEF getchar
<1>2. PICK d : d = cons_intr(SubSeq(wire, 1, n))
  OBVIOUS
<1>3. Drain(n, d, Got(d).rpos)
  BY <1>1, <1>2
<1>4. d.n \in 0 .. Len(typed) /\ Path!Fetch(d.n) /\ Unread' = Path!Rest(Path!Fed(d.n))
  BY <1>2, <1>3, DrainFetches
<1>5. UNCHANGED Unsigned(kb)
  BY DEF getchar
<1>6. Path!Poll(d.n)
  BY <1>4, <1>5 DEF Path!Poll, Unsigned
<1> QED
  BY <1>4, <1>6 DEF Path!Next

LEMMA ReadPath == ConsoleInv /\ keybuf_pop => Path!Next
<1> SUFFICES ASSUME ConsoleInv, keybuf_pop
             PROVE  Path!Next
  OBVIOUS
<1>1. kb # <<>> /\ kb' = Tail(kb) /\ UNCHANGED <<typed, buf, rpos, wpos>>
  BY DEF keybuf_pop, driver, user
<1>2. Unsigned(kb) # <<>> /\ Unsigned(kb') = Tail(Unsigned(kb))
  BY <1>1, TailView
<1>3. UNCHANGED Unread
  BY <1>1, UnreadNext
<1>4. Path!Read
  BY <1>1, <1>2, <1>3 DEF Path!Read, Unsigned
<1> QED
  BY <1>4 DEF Path!Next

LEMMA StutterPath ==
  (\E k \in Keys : Release(k)) \/ FakeShift \/ panic \/ UNCHANGED consoleVars => UNCHANGED PathVars
<1> SUFFICES ASSUME (\E k \in Keys : Release(k)) \/ FakeShift \/ panic \/ UNCHANGED consoleVars
             PROVE  UNCHANGED PathVars
  OBVIOUS
<1>1. UNCHANGED <<typed, buf, rpos, wpos, kb>>
  BY DEF Release, FakeShift, panic, consoleVars, driver, user
<1> QED
  BY <1>1, UnreadNext DEF PathVars

LEMMA PathStep == ConsoleInv /\ [ConsoleNext]_consoleVars => [Path!Next]_PathVars
BY PressPath, FeedPath, HandlePath, PollPath, ReadPath, StutterPath DEF ConsoleNext

(* From the keyboard to the line editor: every character comes out once and   *)
(* in its turn, or is lost in one of the two ways of KeyPath.                *)
THEOREM DriverImplements == ConsoleSpec => ImplementsKeyPath
<1>1. ConsoleInit => Path!Init
  <2> SUFFICES ASSUME ConsoleInit
               PROVE  Path!Init
    OBVIOUS
  <2>1. typed = <<>> /\ kb = <<>> /\ rpos = 0 /\ wpos = 0
    BY DEF ConsoleInit
  <2>2. Unread = <<>>
    <3>1. 0 \in RingPlaces
      BY ConsoleAssumption DEF RingPlaces
    <3>2. (wpos - rpos) % ConsBufSize = 0
      BY <2>1, <3>1, RingIndex
    <3> QED
      BY <3>2 DEF Unread
  <2>3. [i \in DOMAIN kb |-> kb[i] % 256] = <<>>
    BY <2>1
  <2> QED
    BY <2>1, <2>2, <2>3 DEF Path!Init
<1>2. ConsoleInv /\ [ConsoleNext]_consoleVars => [Path!Next]_<<typed, Unread, [i \in DOMAIN kb |-> kb[i] % 256]>>
  BY PathStep DEF PathVars, Unsigned
<1> QED
  BY <1>1, <1>2, ConsoleInitInv, ConsoleNextInv, PTL DEF ConsoleSpec, ImplementsKeyPath, Path!Spec

-----------------------------------------------------------------------------
(* Boot and the threads.                                                      *)
(* kern_init's calls, schedule's stages, and all the places of the CPU.       *)
Starting == {"memset", "cons_init", "pmm_init", "pic_init", "idt_init",
             "clock_init", "intr_enable", "check_vmm", "sched_init", "proc_init"}
Scheduling == {"schedule", "walk", "save", "load", "restore"}
Places == Starting \cup Scheduling
            \cup {"idle", "body", "exit", "halt", "hlt", "halted", "fault"}

Listed == {list[i] : i \in 1 .. Len(list)}

(* Every variable holds a value of its kind. *)
TypeOK ==
  /\ pc \in Places
  /\ stack \in Threads
  /\ intr \in BOOLEAN /\ idt \in BOOLEAN /\ timer \in BOOLEAN
  /\ current \in {"none", "idleproc"} /\ needResched \in BOOLEAN
  /\ list \in Seq(Threads)
  /\ frame \in [Threads -> Frames \cup {NoFrame}]
  /\ seed \in Nat
  /\ starts \in [Threads -> Nat]

(* The first calls of kern_init, up to the one that loads the IDT, that       *)
(* unmasks the timer and that enables interrupts.                             *)
ToIdt == {"memset", "cons_init", "pmm_init", "pic_init", "idt_init"}
ToTimer == ToIdt \cup {"clock_init"}
ToIntr == ToTimer \cup {"intr_enable"}

(* Up to proc_init no thread has run, and the flags are set in the boot's     *)
(* order; afterwards the boot does not come back.                             *)
Booting ==
  IF current = "none"
    THEN /\ pc \in Starting \cup {"fault"}
         /\ \A t \in Threads : starts[t] = 0
         /\ pc \in Starting =>
              (idt <=> pc \notin ToIdt) /\ (timer <=> pc \notin ToTimer)
                /\ (intr <=> pc \notin ToIntr)
    ELSE pc \notin Starting \cup {"fault"} /\ idt /\ timer

(* A call of schedule from the idle loop found interrupts on.                 *)
Remembered ==
  /\ pc = "idle" => intr
  /\ pc = "schedule" /\ frame[stack].ret = "idle" => intr
  /\ pc \in {"walk", "save", "load", "restore"} /\ frame[stack].ret = "idle"
       => frame[stack].flag

(* schedule runs on a stack with a frame of it, and a thread function on      *)
(* another stack than the main thread's.                                      *)
Called ==
  /\ pc \in Scheduling => frame[stack] \in Frames
  /\ pc \in {"body", "exit"} => stack # Main

(* What schedule has chosen is in the list and is currentthread, and the      *)
(* context saved is that of the stack in use.                                 *)
Chosen ==
  /\ pc \in {"save", "load"} =>
       frame[stack].to \in Listed /\ currentthread = frame[stack].to
  /\ pc = "load" => mainContext = [of |-> stack, frame |-> frame[stack]]

IInv == TypeOK /\ Booting /\ Remembered /\ Called /\ Chosen /\ ListSound /\ ExitsItself
-----------------------------------------------------------------------------
(* A list that ends with the main thread and names nobody twice.              *)
Sound(ths) ==
  /\ ths \in Seq(Threads) /\ ths # <<>> /\ ths[Len(ths)] = Main
  /\ Distinct(ths)

(* Whatever the generator says, the walk takes a thread of the list.          *)
LEMMA WalkListed ==
  ASSUME NEW ths \in Seq(Threads), ths # <<>>, NEW s0 \in Nat
  PROVE  /\ Walk(ths, s0).run \in {ths[i] : i \in 1 .. Len(ths)}
         /\ Walk(ths, s0).seed \in Nat
<1> DEFINE n == Len(ths)
           V == [run : {ths[i] : i \in 1 .. n}, seed : Nat]
           first == [run |-> ths[1], seed |-> s0]
           Then(i, v) == [run |-> IF Odd(NextSeed(v.seed)) THEN ths[i] ELSE v.run,
                          seed |-> NextSeed(v.seed)]
           Is(g) == g = [i \in 1 .. n |-> IF i = 1 THEN first ELSE Then(i, g[i - 1])]
<1>1. n \in Nat /\ n > 0 /\ first \in V
  OBVIOUS
<1>2. ASSUME NEW i \in 1 .. n, NEW v \in V
      PROVE  Then(i, v) \in V
  BY DEF NextSeed
<1>3. \E g : Is(g)
  <2> DEFINE step == [i \in Nat |-> [v \in V |-> IF i \in 1 .. n THEN Then(i, v) ELSE v]]
  <2>1. step \in [Nat -> [V -> V]]
    BY <1>2
  <2>2. PICK f \in [1 .. n -> V] : Iterates(f, n, first, step)
    <3> HIDE DEF V, first, step, n
    <3> QED
      BY <1>1, <2>1, IterationExists
  <2>3. ASSUME NEW i \in 1 .. n, i # 1
        PROVE  step[i][f[i - 1]] = Then(i, f[i - 1])
    <3>1. f[i - 1] \in V
      <4> HIDE DEF V, n
      <4> QED
        BY <2>3, <1>1
    <3> HIDE DEF V, Then
    <3> QED
      BY <3>1
  <2>4. Is(f)
    <3> HIDE DEF step, V, first, Then
    <3> QED
      BY <2>2, <2>3 DEF Iterates
  <2> QED
    BY <2>4
<1> DEFINE at == CHOOSE g : Is(g)
<1>4. Is(at)
  <2> HIDE DEF Is
  <2> QED
    BY <1>3
<1>5. Walk(ths, s0) = at[n]
  BY DEF Walk
<1>6. at[n] \in V
  <2> DEFINE Good == {i \in 1 .. n : at[i] \in V}
  <2> HIDE DEF at
  <2>1. 1 \in Good
    BY <1>1, <1>4
  <2>2. ASSUME NEW i \in 1 .. n, i \in Good, i < n
        PROVE  i + 1 \in Good
    <3>1. at[i + 1] = Then(i + 1, at[i])
      <4> HIDE DEF Then, first, n
      <4>1. i + 1 \in 1 .. n /\ i + 1 # 1 /\ (i + 1) - 1 = i
        BY <1>1, <2>2
      <4> QED
        BY <1>4, <4>1
    <3>2. Then(i + 1, at[i]) \in V
      <4>1. i + 1 \in 1 .. n /\ at[i] \in V
        BY <1>1, <2>2
      <4> HIDE DEF V, Then, n
      <4> QED
        BY <1>2, <4>1
    <3> QED
      BY <1>1, <2>2, <3>1, <3>2
  <2>3. Good = 1 .. n
    <3>1. Good \in SUBSET (1 .. n)
      OBVIOUS
    <3> HIDE DEF Good
    <3> QED
      BY <1>1, <2>1, <2>2, <3>1, Steps
  <2> QED
    BY <1>1, <2>3
<1> QED
  BY <1>5, <1>6
(* Taking out another thread than the main one leaves such a list, of the     *)
(* other threads it named.                                                    *)
LEMMA RemovedSound ==
  ASSUME NEW ths, Sound(ths), NEW t, t # Main
  PROVE  Sound(RemoveFirst(ths, t)) /\ Range(RemoveFirst(ths, t)) = Range(ths) \ {t}
<1> DEFINE r == RemoveFirst(ths, t)
<1>1. ths \in Seq(Threads) /\ Distinct(ths) /\ Len(ths) \in Nat
  BY DEF Sound
<1>2. /\ r \in Seq(Threads) /\ Distinct(r) /\ Range(r) = Range(ths) \ {t}
      /\ \/ r = ths
         \/ \E k \in 1 .. Len(ths) : ths[k] = t /\ r = RemoveAt(ths, k)
  BY <1>1, Removed
<1>3. CASE r = ths
  BY <1>2, <1>3
<1>4. ASSUME NEW k \in 1 .. Len(ths), ths[k] = t, r = RemoveAt(ths, k)
      PROVE  r # <<>> /\ r[Len(r)] = Main
  <2>1. k < Len(ths)
    BY <1>1, <1>4 DEF Sound
  <2>2. /\ Len(r) = Len(ths) - 1
        /\ \A i \in 1 .. Len(ths) - 1 : r[i] = IF i < k THEN ths[i] ELSE ths[i + 1]
    BY <1>1, <1>4, TakenOut
  <2> HIDE DEF r
  <2> QED
    BY <1>1, <1>2, <2>1, <2>2 DEF Sound
<1> QED
  BY <1>2, <1>3, <1>4 DEF Sound
-----------------------------------------------------------------------------
(* What the assumptions say, part by part.                                    *)
LEMMA Given ==
  /\ Main \in Threads /\ Nobody \notin Threads /\ TickNum \in Nat /\ TickNum # 0
  /\ \A s \in Seeds : s \in Nat
  /\ \A l \in Lists : Sound(l)
<1>1. ASSUME NEW l \in Lists
      PROVE  Sound(l)
  <2>1. l \in Seq(Threads) /\ l # <<>> /\ l[Len(l)] = Main
    BY ThreadsAssumption
  <2>2. ASSUME NEW i \in 1 .. Len(l), NEW j \in 1 .. Len(l), l[i] = l[j]
        PROVE  i = j
    BY ThreadsAssumption, <2>2, SMTT(60)
  <2> QED
    BY <2>1, <2>2 DEF Sound, Distinct
<1> QED
  BY <1>1, ThreadsAssumption

(* Before the first call of kern_init nothing is set and nothing is listed.   *)
LEMMA InitIInv == Init => IInv
<1> SUFFICES ASSUME Init
             PROVE  IInv
  OBVIOUS
<1>1. pc = "memset"
  BY DEF Init, Boot
<1>2. TypeOK
  <2>1. seed \in Nat /\ stack \in Threads
    BY Given DEF Init
  <2>2. list \in Seq(Threads) /\ starts \in [Threads -> Nat]
    BY DEF Init
  <2>3. frame \in [Threads -> Frames \cup {NoFrame}]
    BY DEF Init
  <2>4. /\ intr \in BOOLEAN /\ idt \in BOOLEAN /\ timer \in BOOLEAN
        /\ current \in {"none", "idleproc"} /\ needResched \in BOOLEAN
    BY DEF Init
  <2> QED
    BY <1>1, <2>1, <2>2, <2>3, <2>4 DEF TypeOK, Places, Starting
<1>3. Booting
  BY <1>1 DEF Init, Booting, Starting, ToIdt, ToTimer, ToIntr
<1> QED
  BY <1>1, <1>2, <1>3
  DEF Init, IInv, Remembered, Called, Chosen, ListSound, ExitsItself, Scheduling

(* kern_init's calls set the flags in their order. *)
LEMMA KernInitIInv ==
  ASSUME IInv, KernInit
  PROVE  IInv'
<1>1. PICK i \in 1 .. Len(Boot) - 2 :
        /\ pc = Boot[i] /\ pc' = Boot[i + 1]
        /\ idt' = (idt \/ Boot[i] = "idt_init")
        /\ timer' = (timer \/ Boot[i] = "clock_init")
        /\ intr' = (intr \/ Boot[i] = "intr_enable")
        /\ UNCHANGED <<stack, current, needResched, chosen, frame, mainContext, starts>>
  BY DEF KernInit
<1>2. pc \in Starting /\ pc' \in Starting
  BY <1>1 DEF Starting, Boot
<1>3. current = "none" /\ UNCHANGED <<list, currentthread, seed>>
  BY <1>1, <1>2 DEF IInv, Booting, chosen
<1>4. /\ pc' \notin ToIdt <=> pc \notin ToIdt \/ pc = "idt_init"
      /\ pc' \notin ToTimer <=> pc \notin ToTimer \/ pc = "clock_init"
      /\ pc' \notin ToIntr <=> pc \notin ToIntr \/ pc = "intr_enable"
  BY <1>1 DEF Boot, ToIdt, ToTimer, ToIntr
<1>5. Booting'
  <2>1. /\ idt <=> pc \notin ToIdt
        /\ timer <=> pc \notin ToTimer
        /\ intr <=> pc \notin ToIntr
    BY <1>2, <1>3 DEF IInv, Booting
  <2>2. /\ idt' <=> pc' \notin ToIdt
        /\ timer' <=> pc' \notin ToTimer
        /\ intr' <=> pc' \notin ToIntr
    BY <1>1, <1>4, <2>1, Zenon
  <2> QED
    BY <1>1, <1>2, <1>3, <2>2 DEF IInv, Booting
<1>6. pc' \notin Scheduling \cup {"idle", "body", "exit"}
  BY <1>2 DEF Starting, Scheduling
<1>7. TypeOK'
  <2>1. idt' \in BOOLEAN /\ timer' \in BOOLEAN /\ intr' \in BOOLEAN
    BY <1>1, Zenon
  <2> QED
    BY <1>1, <1>2, <1>3, <2>1 DEF IInv, TypeOK, Places
<1> QED
  BY <1>1, <1>3, <1>5, <1>6, <1>7
  DEF IInv, Remembered, Called, Chosen, ListSound, ExitsItself, Scheduling

(* The list proc_init builds is sound, and no thread has run.                 *)
LEMMA ProcInitIInv ==
  ASSUME IInv, proc_init
  PROVE  IInv'
<1> USE DEF proc_init
<1>1. current = "none" /\ intr /\ idt /\ timer
  BY DEF IInv, TypeOK, Booting, Starting, ToIdt, ToTimer, ToIntr
<1>2. \A t \in Threads : starts'[t] = 0
  BY <1>1 DEF IInv, Booting
<1>3. Sound(list')
  BY Given
<1>4. ListSound'
  BY <1>2, <1>3 DEF ListSound, Sound, Distinct
<1>5. TypeOK'
  BY <1>3 DEF IInv, TypeOK, Places, Sound
<1>6. Booting' /\ Remembered' /\ Called' /\ Chosen' /\ ExitsItself'
  BY <1>1 DEF Booting, Remembered, Called, Chosen, ExitsItself, Scheduling, Starting
<1> QED
  BY <1>4, <1>5, <1>6 DEF IInv

(* The places of schedule and of the threads come after the boot.             *)
LEMMA Booted ==
  ASSUME IInv, pc \in Scheduling \cup {"idle", "body", "exit", "halt", "hlt", "halted"}
  PROVE  current = "idleproc" /\ idt /\ timer /\ Sound(list)
<1>1. pc \notin Starting \cup {"fault"}
  BY DEF Scheduling, Starting
<1> QED
  BY <1>1 DEF IInv, TypeOK, Booting, ListSound, Sound, Distinct

(* Nobody in the list has started, where no function is running.              *)
LEMMA Fresh ==
  ASSUME IInv, pc \in Scheduling \cup {"idle", "halt", "hlt", "halted"},
         NEW i \in 1 .. Len(list)
  PROVE  starts[list[i]] = 0 /\ list[i] \in Threads
<1>1. Sound(list) /\ current = "idleproc"
  BY Booted
<1>2. list[i] \in Threads
  BY <1>1 DEF Sound
<1> QED
  BY <1>1, <1>2 DEF IInv, TypeOK, ListSound, Scheduling

(* A call of schedule, from the idle loop with interrupts on or from a thread *)
(* that has ended, by a list that names nobody who has started.               *)
LEMMA CallIInv ==
  ASSUME IInv, NEW ret \in Returns, CallSchedule(ret), ret = "idle" => intr,
         pc \in {"idle", "exit", "halt"},
         UNCHANGED <<stack, intr, boot, ticks, needResched, currentthread,
                     mainContext, seed, starts>>,
         Sound(list'), \A i \in 1 .. Len(list') : starts[list'[i]] = 0
  PROVE  IInv'
<1> USE DEF CallSchedule
<1>1. current = "idleproc" /\ idt /\ timer
  BY Booted
<1>2. [NoFrame EXCEPT !.ret = ret] \in Frames /\ [NoFrame EXCEPT !.ret = ret].ret = ret
  BY DEF NoFrame, Frames
<1>3. /\ frame'[stack] = [NoFrame EXCEPT !.ret = ret]
      /\ frame' \in [Threads -> Frames \cup {NoFrame}]
  BY <1>2 DEF IInv, TypeOK
<1>4. TypeOK'
  BY <1>3 DEF IInv, TypeOK, boot, Places, Scheduling, Sound
<1>5. Booting' /\ ListSound'
  BY <1>1 DEF boot, Booting, ListSound, Starting, Sound, Distinct
<1>6. Called' /\ Chosen' /\ ExitsItself'
  BY <1>2, <1>3 DEF Called, Chosen, ExitsItself
<1>7. Remembered'
  BY <1>2, <1>3 DEF Remembered
<1> QED
  BY <1>4, <1>5, <1>6, <1>7 DEF IInv

(* The idle loop calls schedule.                                              *)
LEMMA CpuIdleIInv ==
  ASSUME IInv, cpu_idle
  PROVE  IInv'
<1>1. pc = "idle" /\ intr /\ list' = list /\ Sound(list)
  BY Booted DEF cpu_idle, IInv, Remembered, chosen
<1>2. \A i \in 1 .. Len(list) : starts[list[i]] = 0
  BY <1>1, Fresh
<1> QED
  BY <1>1, <1>2, CallIInv DEF cpu_idle, chosen, Returns

(* A thread that has ended calls schedule again.                              *)
LEMMA HaltLoopIInv ==
  ASSUME IInv, HaltLoop
  PROVE  IInv'
<1>1. pc = "halt" /\ list' = list /\ Sound(list)
  BY Booted DEF HaltLoop, chosen
<1>2. \A i \in 1 .. Len(list) : starts[list[i]] = 0
  BY <1>1, Fresh
<1> QED
  BY <1>1, <1>2, CallIInv DEF HaltLoop, chosen, Returns

(* The thread that exits leaves the list, which keeps the main thread.        *)
LEMMA ThreadExitIInv ==
  ASSUME IInv, thread_exit
  PROVE  IInv'
<1>1. /\ pc = "exit" /\ Sound(list) /\ current = "idleproc"
      /\ currentthread = stack /\ stack # Main
  BY Booted DEF thread_exit, IInv, ExitsItself, Called
<1>2. list' = RemoveFirst(list, stack)
  BY <1>1 DEF thread_exit
<1>3. Sound(list') /\ Range(list') = Range(list) \ {stack}
  BY <1>1, <1>2, RemovedSound
<1>4. ASSUME NEW i \in 1 .. Len(list')
      PROVE  starts[list'[i]] = 0
  <2>1. list'[i] \in Range(list')
    BY <1>3 DEF Sound, Range
  <2>2. PICK j \in 1 .. Len(list) : list[j] = list'[i]
    BY <1>1, <1>3, <2>1 DEF Sound, Range
  <2>3. list[j] # stack /\ list[j] \in Threads
    BY <1>1, <1>3, <2>1, <2>2 DEF Sound
  <2> QED
    BY <1>1, <2>2, <2>3 DEF IInv, TypeOK, ListSound
<1> QED
  BY <1>1, <1>3, <1>4, CallIInv DEF thread_exit, Returns

(* local_intr_save: the frame remembers the flag it found.                    *)
LEMMA ScheduleEnterIInv ==
  ASSUME IInv, ScheduleEnter
  PROVE  IInv'
<1> USE DEF ScheduleEnter
<1>1. current = "idleproc" /\ idt /\ timer /\ frame[stack] \in Frames
  BY Booted DEF Scheduling, IInv, Called
<1>2. /\ frame'[stack] = [frame[stack] EXCEPT !.flag = intr]
      /\ frame'[stack] \in Frames /\ frame'[stack].flag = intr
      /\ frame'[stack].ret = frame[stack].ret
      /\ frame' \in [Threads -> Frames \cup {NoFrame}]
  BY <1>1 DEF IInv, TypeOK, Frames
<1>3. TypeOK'
  BY <1>2 DEF IInv, TypeOK, boot, chosen, Places, Scheduling
<1>4. Booting' /\ ListSound'
  BY <1>1 DEF IInv, boot, chosen, Booting, ListSound, Starting
<1>5. Called' /\ Chosen' /\ ExitsItself' /\ Remembered'
  BY <1>2 DEF IInv, Called, Chosen, ExitsItself, Remembered
<1> QED
  BY <1>3, <1>4, <1>5 DEF IInv

(* The walk takes a listed thread, and the frame remembers it.                *)
LEMMA ScheduleWalkIInv ==
  ASSUME IInv, ScheduleWalk
  PROVE  IInv'
<1> DEFINE w == Walk(list, seed)
<1>1. /\ current = "idleproc" /\ idt /\ timer /\ Sound(list)
      /\ frame[stack] \in Frames /\ pc = "walk"
  BY Booted DEF ScheduleWalk, Scheduling, IInv, Called
<1>2. w.run \in Listed /\ w.seed \in Nat
  BY <1>1, WalkListed DEF Sound, Listed, IInv, TypeOK
<1>3. w.run \in Threads /\ w.run # Nobody
  BY <1>1, <1>2, Given DEF Sound, Listed
<1> HIDE DEF w
<1>4. /\ pc' = "save" /\ seed' = w.seed /\ currentthread' = w.run
      /\ frame' = [frame EXCEPT ![stack].to = w.run]
      /\ needResched' = (needResched /\ w.run \notin {Main, Nobody})
      /\ UNCHANGED <<stack, intr, boot, ticks, list, mainContext, starts>>
  BY <1>3 DEF ScheduleWalk, w
<1>5. /\ frame'[stack] = [frame[stack] EXCEPT !.to = w.run]
      /\ frame'[stack] \in Frames /\ frame'[stack].to = w.run
      /\ frame'[stack].ret = frame[stack].ret
      /\ frame'[stack].flag = frame[stack].flag
      /\ frame' \in [Threads -> Frames \cup {NoFrame}]
  BY <1>1, <1>3, <1>4 DEF IInv, TypeOK, Frames
<1>6. TypeOK'
  <2>1. needResched' \in BOOLEAN
    BY <1>4, Zenon
  <2> QED
    BY <1>2, <1>4, <1>5, <2>1 DEF IInv, TypeOK, boot, Places, Scheduling
<1>7. Booting' /\ ListSound'
  BY <1>1, <1>4 DEF IInv, boot, Booting, ListSound, Starting
<1>8. Called' /\ Chosen' /\ ExitsItself' /\ Remembered'
  BY <1>1, <1>2, <1>4, <1>5
  DEF IInv, Called, Chosen, ExitsItself, Remembered, Listed, Scheduling
<1> QED
  BY <1>6, <1>7, <1>8 DEF IInv

(* switch_to saves the stack in use.                                          *)
LEMMA SwitchSaveIInv ==
  ASSUME IInv, SwitchSave
  PROVE  IInv'
<1> USE DEF SwitchSave
<1>1. current = "idleproc" /\ idt /\ timer
  BY Booted DEF Scheduling
<1>2. TypeOK'
  BY DEF IInv, TypeOK, boot, chosen, Places, Scheduling
<1>3. Booting' /\ ListSound'
  BY <1>1 DEF IInv, boot, chosen, Booting, ListSound, Starting
<1>4. Called' /\ Chosen' /\ ExitsItself' /\ Remembered'
  BY DEF IInv, Called, Chosen, ExitsItself, Remembered, Listed, chosen, Scheduling
<1> QED
  BY <1>2, <1>3, <1>4 DEF IInv

(* switch_to loads the stack it has saved, or enters a thread not started yet. *)
LEMMA SwitchLoadIInv ==
  ASSUME IInv, SwitchLoad
  PROVE  IInv'
<1> DEFINE t == frame[stack].to
<1>1. /\ current = "idleproc" /\ idt /\ timer /\ Sound(list) /\ pc = "load"
      /\ mainContext.of = stack
  BY Booted DEF SwitchLoad, Scheduling, IInv, Chosen
<1>2. UNCHANGED <<idt, timer, current, needResched, list, currentthread, seed,
                  frame, mainContext>>
  BY DEF SwitchLoad, boot, chosen
<1>3. t \in Listed /\ t \in Threads /\ currentthread = t
  BY <1>1 DEF IInv, Chosen, Listed, Sound
<1>4. \A i \in 1 .. Len(list) : starts[list[i]] = 0 /\ list[i] \in Threads
  BY <1>1, Fresh DEF Scheduling
<1>5. CASE t = Main
  <2>1. stack' = stack /\ pc' = "restore" /\ UNCHANGED <<intr, starts>>
    BY <1>1, <1>5 DEF SwitchLoad
  <2>2. TypeOK'
    BY <1>2, <2>1 DEF IInv, TypeOK, Places, Scheduling
  <2>3. Booting' /\ ListSound'
    BY <1>1, <1>2, <1>4, <2>1 DEF Booting, ListSound, Starting, Sound, Distinct
  <2>4. Called' /\ Chosen' /\ ExitsItself' /\ Remembered'
    BY <1>1, <1>2, <2>1 DEF IInv, Called, Chosen, ExitsItself, Remembered, Scheduling
  <2> QED
    BY <2>2, <2>3, <2>4 DEF IInv
<1>6. CASE t # Main
  <2>1. /\ stack' = t /\ pc' = "body" /\ intr' \in BOOLEAN
        /\ starts' = [starts EXCEPT ![t] = @ + 1]
    BY <1>6 DEF SwitchLoad
  <2>2. TypeOK'
    BY <1>2, <1>3, <2>1 DEF IInv, TypeOK, Places
  <2>3. Booting'
    BY <1>1, <1>2, <2>1 DEF Booting, Starting
  <2>4. ListSound'
    <3>1. ASSUME NEW i \in 1 .. Len(list), starts'[list[i]] > 0
          PROVE  list[i] = t
      BY <1>4, <2>1, <3>1 DEF IInv, TypeOK
    <3> QED
      BY <1>1, <1>2, <2>1, <3>1 DEF ListSound, Sound, Distinct
  <2>5. Called' /\ Chosen' /\ ExitsItself' /\ Remembered'
    BY <1>2, <1>3, <1>6, <2>1 DEF Called, Chosen, ExitsItself, Remembered, Scheduling
  <2> QED
    BY <2>2, <2>3, <2>4, <2>5 DEF IInv
<1> QED
  BY <1>5, <1>6

(* local_intr_restore: a call from the idle loop comes back with interrupts on. *)
LEMMA ScheduleReturnIInv ==
  ASSUME IInv, ScheduleReturn
  PROVE  IInv'
<1> USE DEF ScheduleReturn
<1>1. /\ current = "idleproc" /\ idt /\ timer /\ Sound(list) /\ pc = "restore"
      /\ frame[stack] \in Frames
  BY Booted DEF Scheduling, IInv, Called
<1>2. /\ pc' \in Returns /\ pc' = frame[stack].ret
      /\ intr' \in BOOLEAN /\ (frame[stack].flag => intr')
  <2>1. frame[stack].ret \in Returns
    BY <1>1 DEF Frames
  <2>2. intr' \in BOOLEAN /\ (frame[stack].flag => intr')
    BY Zenon
  <2> QED
    BY <2>1, <2>2
<1>3. \A i \in 1 .. Len(list) : starts[list[i]] = 0
  BY <1>1, Fresh DEF Scheduling
<1>4. TypeOK'
  BY <1>2 DEF IInv, TypeOK, boot, chosen, Places, Scheduling, Returns
<1>5. Booting' /\ ListSound'
  BY <1>1, <1>2, <1>3 DEF IInv, boot, chosen, Booting, ListSound, Starting, Returns, Sound, Distinct
<1>6. Remembered'
  BY <1>1, <1>2 DEF IInv, Remembered, Returns
<1>7. Called' /\ Chosen' /\ ExitsItself'
  BY <1>2 DEF Called, Chosen, ExitsItself, Scheduling, Returns
<1> QED
  BY <1>4, <1>5, <1>6, <1>7 DEF IInv

(* A thread that was never linked and never started joins at the head.        *)
LEMMA ThreadJoinIInv ==
  ASSUME IInv, NEW t \in Threads, thread_join(t)
  PROVE  IInv'
<1> USE DEF thread_join
<1>1. /\ current = "idleproc" /\ idt /\ timer /\ Sound(list) /\ pc = "body"
      /\ starts[t] = 0
  BY Booted
<1>2. /\ list' \in Seq(Threads) /\ Distinct(list') /\ list' # <<>>
      /\ Len(list') = Len(list) + 1 /\ list'[1] = t
      /\ \A i \in 1 .. Len(list) : list'[i + 1] = list[i]
      /\ Len(list) \in Nat /\ Len(list) > 0
  <2>1. list \in Seq(Threads) /\ Distinct(list) /\ t \notin Range(list) /\ list # <<>>
    BY <1>1 DEF Sound, Range
  <2>2. Len(list) \in Nat /\ Len(list) > 0
    BY <2>1
  <2> QED
    BY <2>1, <2>2, PutFirst
<1>4. ListSound'
  <2>1. list'[Len(list')] = Main
    BY <1>1, <1>2 DEF Sound
  <2>2. ASSUME NEW i \in 1 .. Len(list'), starts[list'[i]] > 0
        PROVE  list'[i] = stack
    <3>1. i - 1 \in 1 .. Len(list) /\ list'[i] = list[i - 1]
      BY <1>1, <1>2, <2>2
    <3> QED
      BY <1>1, <2>2, <3>1 DEF IInv, ListSound
  <2> QED
    BY <1>1, <1>2, <2>1, <2>2 DEF ListSound, Distinct
<1>5. TypeOK' /\ Booting'
  BY <1>1, <1>2 DEF IInv, TypeOK, Booting, boot
<1>6. Called' /\ Chosen' /\ ExitsItself' /\ Remembered'
  BY <1>1 DEF IInv, Called, Chosen, ExitsItself, Remembered, Scheduling
<1> QED
  BY <1>4, <1>5, <1>6 DEF IInv

(* A function returns, or a thread waits: only the place changes.             *)
LEMMA BodyReturnIInv ==
  ASSUME IInv, BodyReturn \/ Hlt
  PROVE  IInv'
<1> USE DEF BodyReturn, Hlt, chosen, boot
<1>1. current = "idleproc" /\ idt /\ timer
  BY Booted
<1>2. TypeOK'
  BY DEF IInv, TypeOK, Places
<1>3. Booting' /\ ListSound'
  BY <1>1 DEF IInv, Booting, ListSound, Starting
<1>4. Called' /\ Chosen' /\ ExitsItself' /\ Remembered'
  BY DEF IInv, Called, Chosen, ExitsItself, Remembered, Scheduling
<1> QED
  BY <1>2, <1>3, <1>4 DEF IInv

(* An interrupt raises need_resched, ends a hlt, or, before current is set,   *)
(* faults; it leaves the rest.                                                *)
LEMMA InterruptIInv ==
  ASSUME IInv, Tick \/ OtherInterrupt
  PROVE  IInv'
<1>1. /\ UNCHANGED <<stack, intr, idt, timer, current, list, currentthread, seed,
                     frame, mainContext, starts>>
      /\ intr /\ needResched' \in BOOLEAN
  <2>1. UNCHANGED <<stack, intr, idt, timer, current, list, currentthread, seed,
                     frame, mainContext, starts>> /\ intr
    BY DEF Tick, OtherInterrupt, boot, chosen
  <2>2. needResched' = needResched \/ needResched' = (needResched \/ ticks' = 0)
    BY DEF Tick, OtherInterrupt
  <2> QED
    BY <2>1, <2>2, Zenon DEF IInv, TypeOK
<1>2. \/ pc' = pc
      \/ pc = "halted" /\ pc' = "halt"
      \/ current = "none" /\ pc' = "fault"
  BY DEF Tick, OtherInterrupt, Woken
<1>3. TypeOK'
  BY <1>1, <1>2 DEF IInv, TypeOK, Places
<1>4. Booting'
  BY <1>1, <1>2 DEF IInv, Booting, Starting
<1>5. ListSound'
  BY <1>1, <1>2, Booted DEF IInv, ListSound
<1>6. Called' /\ Chosen' /\ ExitsItself' /\ Remembered'
  BY <1>1, <1>2 DEF IInv, Called, Chosen, ExitsItself, Remembered, Scheduling, Listed
<1> QED
  BY <1>3, <1>4, <1>5, <1>6 DEF IInv

LEMMA NextIInv == IInv /\ [Next]_vars => IInv'
<1> SUFFICES ASSUME IInv, [Next]_vars
             PROVE  IInv'
  OBVIOUS
<1>1. CASE CpuStep
  BY <1>1, KernInitIInv, ProcInitIInv, CpuIdleIInv, ScheduleEnterIInv,
     ScheduleWalkIInv, SwitchSaveIInv, SwitchLoadIInv, ScheduleReturnIInv,
     BodyReturnIInv, ThreadExitIInv, HaltLoopIInv DEF CpuStep
<1>2. CASE Tick \/ OtherInterrupt
  BY <1>2, InterruptIInv
<1>3. CASE \E t \in Threads : thread_join(t)
  BY <1>3, ThreadJoinIInv
<1>4. CASE UNCHANGED vars
  BY <1>4
  DEF vars, IInv, TypeOK, Booting, Remembered, Called, Chosen, Listed, ListSound, ExitsItself
<1> QED
  BY <1>1, <1>2, <1>3, <1>4 DEF Next

LEMMA InvariantHolds == Spec => []IInv
  BY InitIInv, NextIInv, PTL DEF Spec
-----------------------------------------------------------------------------
(* cpu_idle waits for a tick to set need_resched, and schedule, called with    *)
(* interrupts on, restores the flag it saved in the frame it returns from: the *)
(* idle loop always runs with interrupts on, whatever threads ran in between.  *)
THEOREM IdleStaysInterruptible == Spec => []IdleInterruptible
<1>1. IInv => IdleInterruptible
  BY Booted DEF IInv, Remembered, IdleInterruptible
<1> QED
  BY <1>1, InvariantHolds, PTL

(* switch_to saves every caller into the main thread's context; what it loads  *)
(* can be run all the same: the main thread waits in the call of schedule the  *)
(* context describes, any other thread has its first frame still.              *)
THEOREM SwitchResumable == Spec => []Resumable
<1>1. IInv => Resumable
  <2> SUFFICES ASSUME IInv, pc = "load"
               PROVE  IF frame[stack].to = Main
                        THEN /\ mainContext.frame = frame[mainContext.of]
                             /\ mainContext.frame # NoFrame
                        ELSE starts[frame[stack].to] = 0
    BY DEF Resumable
  <2>1. /\ mainContext = [of |-> stack, frame |-> frame[stack]]
        /\ frame[stack] \in Frames /\ frame[stack].to \in Listed
    BY DEF IInv, Chosen, Called, Scheduling
  <2>2. frame[stack] # NoFrame
    BY <2>1 DEF Frames, NoFrame, Returns
  <2>3. starts[frame[stack].to] = 0
    BY <2>1, Fresh DEF Listed, Scheduling
  <2> QED
    BY <2>1, <2>2, <2>3
<1> QED
  BY <1>1, InvariantHolds, PTL

(* thread_exit takes currentthread for the thread it runs on: while a function *)
(* runs and when it has returned, the global names the stack in use.           *)
THEOREM ThreadExitsItself == Spec => []ExitsItself
<1>1. IInv => ExitsItself
  BY DEF IInv
<1> QED
  BY <1>1, InvariantHolds, PTL

(* thread_join puts a thread at the head of the list and thread_exit takes it  *)
(* out: from proc_init on the list ends with the main thread, names nobody     *)
(* twice and, but for the running one, nobody who has been started.            *)
THEOREM ThreadListSound == Spec => []ListSound
<1>1. IInv => ListSound
  BY DEF IInv
<1> QED
  BY <1>1, InvariantHolds, PTL
=============================================================================
