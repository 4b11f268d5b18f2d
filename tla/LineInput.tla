------------------------------ MODULE LineInput ------------------------------
(***************************************************************************)
(* What the readers do with the characters they are given: edit_readline   *)
(* of kern/component/editbox.c, which the key buffer feeds, readline of    *)
(* kern/libs/readline.c, which polls for the monitor, and the monitor's    *)
(* parse (kern/debug/monitor.c).  A character is its code; the editor's    *)
(* are signed.  0, no character, is not given.                             *)
(***************************************************************************)
EXTENDS Integers, Sequences, SequencesExt, FiniteSets

CONSTANTS EditMax, ReadMax   \* 800 - 1, BUFSIZE - 1

Backspace == 8
LineEnds == {10, 13}
Blank == 32
Blanks == {32, 9, 10, 13}

(* Mistake: a backspace goes before the start of the line.                   *)
Erased_Always(r) == [r EXCEPT !.i = @ - 1]

(* A backspace takes the index back; the character stays in the buffer.      *)
Erased(r) == [r EXCEPT !.i = IF @ > 0 THEN @ - 1 ELSE 0]

Stored(r, c) == [r EXCEPT !.i = @ + 1, !.buf[r.i] = c]
Ended(r) == [r EXCEPT !.buf[r.i] = 0, !.ended = TRUE]

(* edit_readline: one turn of its loop.  A negative character, a special     *)
(* key, returns with the line as it stands.                                  *)
EditTurn(r, c) ==
  CASE r.ended -> r
    [] ~r.ended /\ c < 0 -> [r EXCEPT !.ended = TRUE]
    [] ~r.ended /\ c >= Blank /\ r.i < EditMax -> Stored(r, c)
    [] ~r.ended /\ c = Backspace -> Erased(r)
    [] ~r.ended /\ c \in LineEnds -> Ended(r)
    [] OTHER -> r

edit_readline(chars) ==
  FoldLeft(EditTurn, [buf |-> [p \in 0 .. EditMax |-> 0], i |-> 0, ended |-> FALSE], chars)

(* readline: the same without special keys; its buffer keeps the last line.  *)
ReadTurn(r, c) ==
  CASE r.ended -> r
    [] ~r.ended /\ c >= Blank /\ r.i < ReadMax -> Stored(r, c)
    [] ~r.ended /\ c = Backspace -> Erased(r)
    [] ~r.ended /\ c \in LineEnds -> Ended(r)
    [] OTHER -> r

readline(old, chars) == FoldLeft(ReadTurn, [buf |-> old, i |-> 0, ended |-> FALSE], chars)

(* The string in a buffer.                                                   *)
String(buf) ==
  LET From[p \in Int] == IF p \notin DOMAIN buf THEN <<>>
                         ELSE IF buf[p] = 0 THEN <<>> ELSE <<buf[p]>> \o From[p + 1]
  IN  From[0]

-----------------------------------------------------------------------------
(* parse: blanks become the ends of the arguments.  Argument 16 and later    *)
(* ones are reported and stored all the same, past the caller's argv.        *)
ParseTurn(p, c) ==
  CASE c \in Blanks -> [p EXCEPT !.inWord = FALSE]
    [] c \notin Blanks /\ p.inWord ->
         [p EXCEPT !.argv[Len(p.argv)] = Append(@, c)]
    [] OTHER -> [argv |-> Append(p.argv, <<c>>), inWord |-> TRUE]
parse(line) == FoldLeft(ParseTurn, [argv |-> <<>>, inWord |-> FALSE], line).argv

-----------------------------------------------------------------------------
(* The line meant by a text: its printing characters up to max of them, each  *)
(* backspace taking back the last.                                            *)
Meant(chars, max) ==
  FoldLeft(LAMBDA line, c : IF c = Backspace THEN (IF line = <<>> THEN line ELSE Front(line))
                            ELSE IF c >= Blank /\ Len(line) < max THEN Append(line, c) ELSE line,
           <<>>, chars)

Before(chars, Stops(_)) ==
  LET k == SelectInSeq(chars, Stops) IN IF k = 0 THEN chars ELSE SubSeq(chars, 1, k - 1)

(* The line handed back is the line meant, whatever the buffer held before;   *)
(* but a special key ends it where characters taken back still stand behind   *)
(* it.                                                                        *)
LinesMeant(old, chars) ==
  LET Special(c) == c < 0
      Ending(c) == c \in LineEnds
      edited == edit_readline(chars)
      polled == readline(old, SelectSeq(chars, LAMBDA c : c >= 0))
      text == Before(chars, LAMBDA c : Special(c) \/ Ending(c))
      meant == Meant(text, EditMax)
  IN  /\ edited.ended =>
           IF Len(text) < Len(chars) /\ Special(chars[Len(text) + 1])
             THEN IsPrefix(meant, String(edited.buf)) ELSE String(edited.buf) = meant
      /\ polled.ended => String(polled.buf) =
           Meant(Before(SelectSeq(chars, LAMBDA c : c >= 0), Ending), ReadMax)

(* The words are the line without its blanks, cut exactly there.              *)
WordsOf(line, words) ==
  LET Solid(c) == c \notin Blanks
  IN  /\ FlattenSeq(words) = SelectSeq(line, Solid)
      /\ Len(words) = Cardinality({k \in DOMAIN line :
                          Solid(line[k]) /\ (k = 1 \/ ~Solid(line[k - 1]))})
=============================================================================
