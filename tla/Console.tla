------------------------------- MODULE Console -------------------------------
(***************************************************************************)
(* The keyboard driver of kern/driver/console.c from scan code to reader:  *)
(* the decoder kbd_proc_data with its shift state, the ring that cons_intr *)
(* fills and cons_getc empties, and the keyboard interrupt                 *)
(* (kern/trap/trap.c), which hands one character on to the key buffer.     *)
(* KeyBuf shows that buffer to be a bounded queue; here it is one.         *)
(*                                                                         *)
(* The interrupt gate clears the interrupt flag, so a handler is one step  *)
(* for the CPU, but the keyboard sends while it runs: it drains what has   *)
(* arrived, which may end between the two bytes of a key.  The map tables  *)
(* are cut down to keys that tell their columns apart; Ctrl-Alt-Del, which *)
(* restarts the machine, is not among them.                                *)
(***************************************************************************)
EXTENDS Integers, Sequences, SequencesExt, FiniteSets

CONSTANTS ConsBufSize,  \* 512
          KbSize,       \* 32
          Keys,         \* the keys of the keyboard
          MaxHeld,      \* bound: keys held down together
          MaxWire       \* bound: bytes the keyboard has sent and nobody read

ASSUME ConsoleAssumption ==
  /\ ConsBufSize \in Nat /\ KbSize \in Nat /\ ConsBufSize > 1 /\ KbSize > 1
  /\ Keys \subseteq {"lshift", "rshift", "lctl", "rctl", "caps", "a", "enter", "left"}

VARIABLES wire,          \* the keyboard's bytes, first to last
          latched,       \* an interrupt is pending for bytes already read
          mode,          \* "boot" until cons_init, "run", "panic": interrupts are off
          shift,         \* the static of kbd_proc_data, as the set of its bits
          buf, rpos, wpos,
          kb,            \* the characters in the key buffer
          held, on, typed \* what the user did: keys down, modifiers, characters due

driver == <<shift, buf, rpos, wpos>>
user == <<held, on, typed>>
consoleVars == <<wire, latched, mode, driver, kb, user>>

-----------------------------------------------------------------------------
(* The tables.                                                               *)
E0 == 224
KEY_LF == 228

shiftcode(b) ==
  CASE b \in {29, 157} -> {"CTL"}        \* 0x1D, 0x9D
    [] b \in {42, 54} -> {"SHIFT"}       \* 0x2A, 0x36
    [] b \in {56, 184} -> {"ALT"}        \* 0x38, 0xB8
    [] OTHER -> {}

togglecode(b) ==
  CASE b = 58 -> {"CAPSLOCK"} [] b = 69 -> {"NUMLOCK"} [] b = 70 -> {"SCROLLLOCK"}
    [] OTHER -> {}

(* normalmap, shiftmap, ctlmap, ctlmap at: a key with three characters, one  *)
(* with two, one that exists only behind E0, and all the empty entries.      *)
charcode(mods, b) ==
  LET column(normal, shifted, ctl) ==
        IF "CTL" \in mods THEN ctl ELSE IF "SHIFT" \in mods THEN shifted ELSE normal
  IN  CASE b = 30 -> column(97, 65, 1)       \* a A ^A
        [] b = 28 -> column(10, 10, 13)      \* Enter
        [] b = 203 -> KEY_LF
        [] OTHER -> 0

Capitalised(c) ==
  IF c \in 97 .. 122 THEN c - 32 ELSE IF c \in 65 .. 90 THEN c + 32 ELSE c

Toggled(s, t) == (s \ t) \cup (t \ s)

(* Mistake: the release of a key behind E0 leaves the prefix in force.       *)
Released_Prefix(s, byte) ==
  s \ shiftcode(IF "E0ESC" \in s THEN byte ELSE byte - 128)

(* kbd_proc_data: the bits after a release.                                  *)
Released(s, byte) ==
  s \ (shiftcode(IF "E0ESC" \in s THEN byte ELSE byte - 128) \cup {"E0ESC"})

(* kbd_proc_data: the bits and the character of a press.                     *)
Pressed(s, byte) ==
  LET data == IF "E0ESC" \in s THEN byte + 128 ELSE byte
      mods == Toggled((s \ {"E0ESC"}) \cup shiftcode(data), togglecode(data))
      c == charcode(mods, data)
  IN  [shift |-> mods, c |-> IF "CAPSLOCK" \in mods THEN Capitalised(c) ELSE c]

kbd_proc_data(s, byte) ==
  CASE byte = E0 -> [shift |-> s \cup {"E0ESC"}, c |-> 0]
    [] byte # E0 /\ byte >= 128 -> [shift |-> Released(s, byte), c |-> 0]
    [] OTHER -> Pressed(s, byte)

Advanced(pos) == IF pos + 1 = ConsBufSize THEN 0 ELSE pos + 1

(* cons_intr: one turn of its loop on the driver's state d; d.n counts the   *)
(* characters stored.                                                        *)
Turn(d, byte) ==
  LET p == kbd_proc_data(d.shift, byte)
  IN  IF p.c = 0
        THEN [d EXCEPT !.shift = p.shift]
        ELSE [shift |-> p.shift, buf |-> [d.buf EXCEPT ![d.wpos] = p.c],
              wpos |-> Advanced(d.wpos), n |-> d.n + 1]

cons_intr(bytes) ==
  FoldLeft(Turn, [shift |-> shift, buf |-> buf, wpos |-> wpos, n |-> 0], bytes)

(* Mistake: the test looks at the ring as it was before the drain.           *)
Got_Stale(d) ==
  IF rpos = wpos THEN [c |-> 0, rpos |-> rpos]
  ELSE [c |-> d.buf[rpos], rpos |-> Advanced(rpos)]

(* cons_getc: the driver's state d after the drain, the character and rpos.  *)
Got(d) ==
  IF rpos = d.wpos THEN [c |-> 0, rpos |-> rpos]
  ELSE [c |-> d.buf[rpos], rpos |-> Advanced(rpos)]

(* trap_dispatch keeps the character in a signed char.                       *)
Signed(c) == IF c >= 128 THEN c - 256 ELSE c

(* keybuf_push.                                                              *)
Pushed(c) == IF Len(kb) < KbSize - 1 THEN Append(kb, c) ELSE kb

-----------------------------------------------------------------------------
(* The user and the keyboard.                                                *)
Make(k) ==
  CASE k = "lshift" -> <<42>> [] k = "rshift" -> <<54>>
    [] k = "lctl" -> <<29>> [] k = "rctl" -> <<E0, 29>>
    [] k = "caps" -> <<58>> [] k = "a" -> <<30>> [] k = "enter" -> <<28>>
    [] k = "left" -> <<E0, 75>>

Break(k) ==
  CASE k = "lshift" -> <<170>> [] k = "rshift" -> <<182>>
    [] k = "lctl" -> <<157>> [] k = "rctl" -> <<E0, 157>>
    [] k = "caps" -> <<186>> [] k = "a" -> <<158>> [] k = "enter" -> <<156>>
    [] k = "left" -> <<E0, 203>>

Modifier(k) ==
  CASE k \in {"lshift", "rshift"} -> {"SHIFT"} [] k \in {"lctl", "rctl"} -> {"CTL"}
    [] OTHER -> {}

(* What is printed on the keys.                                              *)
Meaning(k, mods) ==
  CASE k = "a" -> IF "CTL" \in mods THEN <<1>>
                  ELSE IF ("SHIFT" \in mods) # ("CAPSLOCK" \in mods) THEN <<65>> ELSE <<97>>
    [] k = "enter" -> IF "CTL" \in mods THEN <<13>> ELSE <<10>>
    [] k = "left" -> <<KEY_LF>>
    [] OTHER -> <<>>

Send(s) == Len(wire) + Len(s) <= MaxWire /\ wire' = wire \o s

(* A key held down may repeat.                                               *)
Press(k) ==
  LET mods == Toggled(on \cup Modifier(k), IF k = "caps" THEN {"CAPSLOCK"} ELSE {})
  IN  /\ Cardinality(held \cup {k}) <= MaxHeld
      /\ Send(Make(k))
      /\ held' = held \cup {k} /\ on' = mods
      /\ typed' = typed \o Meaning(k, mods)
      /\ UNCHANGED <<latched, mode, driver, kb>>

Release(k) ==
  /\ k \in held
  /\ Send(Break(k))
  /\ held' = held \ {k} /\ on' = on \ Modifier(k)
  /\ UNCHANGED <<latched, mode, driver, kb, typed>>

(* Before and after the codes of a cursor key, as the locks and shifts stand, *)
(* the keyboard fakes a press or release of a shift behind E0.               *)
FakeShift ==
  /\ \E code \in {42, 170} : Send(<<E0, code>>)
  /\ UNCHANGED <<latched, mode, driver, kb, user>>

-----------------------------------------------------------------------------
(* The loop of cons_intr reads the n bytes that have come.                   *)
Drain(n, d, newRpos) ==
  /\ wire' = SubSeq(wire, n + 1, Len(wire))
  /\ shift' = d.shift /\ buf' = d.buf /\ wpos' = d.wpos /\ rpos' = newRpos
  /\ typed' = SubSeq(typed, d.n + 1, Len(typed))
  /\ UNCHANGED <<held, on>>

(* The controller latches one request for any number of bytes; the one that  *)
(* started a handler is taken back when it starts.                           *)
Latch(requests) == latched' \in IF requests > 0 THEN BOOLEAN ELSE {FALSE}

(* kbd_init: drain the keyboard, then enable its line.                       *)
cons_init ==
  /\ mode = "boot"
  /\ Drain(Len(wire), cons_intr(wire), rpos)
  /\ Latch(Len(wire))
  /\ mode' = "run"
  /\ UNCHANGED kb

(* trap_dispatch, case IRQ_KBD.                                              *)
KbdInterrupt ==
  /\ mode = "run"
  /\ \E n \in 0 .. Len(wire) :
       /\ n > 0 \/ latched
       /\ LET d == cons_intr(SubSeq(wire, 1, n))
          IN  Drain(n, d, Got(d).rpos) /\ kb' = Pushed(Signed(Got(d).c))
       /\ Latch(n + (IF latched THEN 1 ELSE 0) - 1)
  /\ UNCHANGED mode

(* The line editor takes a character from the key buffer.                    *)
keybuf_pop ==
  /\ mode = "run" /\ kb # <<>>
  /\ kb' = Tail(kb)
  /\ UNCHANGED <<wire, latched, mode, driver, user>>

(* __panic, reached from the page fault's interrupt gate, never returns.     *)
panic ==
  /\ mode = "run" /\ mode' = "panic"
  /\ UNCHANGED <<wire, latched, driver, kb, user>>

(* getchar of the monitor's readline polls, with interrupts off.             *)
getchar ==
  /\ mode = "panic"
  /\ \E n \in 0 .. Len(wire) :
       LET d == cons_intr(SubSeq(wire, 1, n)) IN Drain(n, d, Got(d).rpos)
  /\ UNCHANGED <<latched, mode, kb>>

ConsoleInit ==
  /\ wire = <<>> /\ latched = FALSE /\ mode = "boot"
  /\ shift = {} /\ buf = [p \in 0 .. ConsBufSize - 1 |-> 0] /\ rpos = 0 /\ wpos = 0
  /\ kb = <<>>
  /\ held = {} /\ on = {} /\ typed = <<>>

ConsoleNext ==
  \/ \E k \in Keys : Press(k) \/ Release(k)
  \/ FakeShift
  \/ cons_init \/ KbdInterrupt \/ keybuf_pop \/ panic \/ getchar

ConsoleSpec == ConsoleInit /\ [][ConsoleNext]_consoleVars

-----------------------------------------------------------------------------
(* What is in the ring, oldest first.                                        *)
Unread == [i \in 1 .. (wpos - rpos) % ConsBufSize |-> buf[(rpos + i - 1) % ConsBufSize]]

Path == INSTANCE KeyPath WITH
          Chars <- {97, 65, 1, 10, 13, KEY_LF},
          ConsCapacity <- ConsBufSize - 1, KbCapacity <- KbSize - 1,
          coming <- typed, cons <- Unread, kb <- [i \in DOMAIN kb |-> kb[i] % 256]

(* Decoder, ring, interrupt and key buffer are three queues in a row, however *)
(* many bytes one interrupt finds, also with the monitor polling instead: no  *)
(* character is lost, repeated or overtaken but by a ring that laps           *)
(* (console.c:64) or a key buffer that refuses.                               *)
ImplementsKeyPath == Path!Spec

(* The bytes still to be read will be decoded as the keys meant when they     *)
(* were pressed, although prefixes, faked shifts and drains that stop between *)
(* two bytes come in between; and no modifier stays on after its keys are up. *)
KeysDecoded ==
  LET Step(d, byte) == LET p == kbd_proc_data(d.shift, byte)
                       IN  [shift |-> p.shift,
                            chars |-> IF p.c = 0 THEN d.chars ELSE Append(d.chars, p.c)]
      rest == FoldLeft(Step, [shift |-> shift, chars |-> <<>>], wire)
  IN  /\ rest.chars = typed /\ rest.shift = on
      /\ \A m \in {"SHIFT", "CTL", "ALT"} \cap rest.shift : \E k \in held : m \in Modifier(k)
=============================================================================
