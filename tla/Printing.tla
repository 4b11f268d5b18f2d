------------------------------ MODULE Printing -------------------------------
(***************************************************************************)
(* The conversions of libs/printfmt.c, which every cprintf of the kernel   *)
(* goes through, and strtol of libs/string.c, which reads numbers back.    *)
(* Text is a sequence of one-character strings; the characters between "%" *)
(* and the conversion are tokens, a run of digits or a "*" being one.  An  *)
(* int has 2 ^ Bits values, a long long 2 ^ LongBits.  The conversions c   *)
(* and e, which print a character or the name of an error, are left out.   *)
(***************************************************************************)
EXTENDS Integers, Sequences, SequencesExt, FiniteSets

CONSTANTS Bits, LongBits,   \* 32, 64
          BadArg            \* -E_INVAL

digits == <<"0", "1", "2", "3", "4", "5", "6", "7", "8", "9",
            "a", "b", "c", "d", "e", "f">>
Digit(d) == digits[d + 1]
Padding(padc, n) == IF n > 0 THEN [i \in 1 .. n |-> padc] ELSE <<>>

Unsigned(n, bits) == n % 2 ^ bits
Signed(n, bits) ==
  LET u == Unsigned(n, bits) IN IF u >= 2 ^ (bits - 1) THEN u - 2 ^ bits ELSE u

(* va_arg: a long is as wide as an int.                                      *)
Width(lflag) == IF lflag >= 2 THEN LongBits ELSE Bits
getuint(arg, lflag) == Unsigned(arg, Width(lflag))
getint(arg, lflag) == Signed(arg, Width(lflag))

(* Mistake: the width is not lowered for the digits printed before.          *)
printnum_FullWidth(number, base, fieldwidth, padc) ==
  LET Out[num \in Nat, width \in Int] ==
        (IF num >= base THEN Out[num \div base, width] ELSE Padding(padc, width - 1))
          \o <<Digit(num % base)>>
  IN  Out[number, fieldwidth]

(* printnum: the leading digits first; padding before the first of them.     *)
printnum(number, base, fieldwidth, padc) ==
  LET Out[num \in Nat, width \in Int] ==
        (IF num >= base THEN Out[num \div base, width - 1] ELSE Padding(padc, width - 1))
          \o <<Digit(num % base)>>
  IN  Out[number, fieldwidth]

(* %s: padded on the left unless the flag is "-", cut at the precision, and  *)
(* what is left of the width filled behind it.                               *)
Printable(ch) == ch # "ctl"
PrintString(s, f) ==
  LET shown == IF f.precision < 0 \/ Len(s) < f.precision THEN s ELSE SubSeq(s, 1, f.precision)
      left == IF f.width > 0 /\ f.padc # "-" THEN f.width - Len(shown) ELSE 0
      right == f.width - (IF left > 0 THEN left ELSE 0) - Len(shown)
  IN  Padding(f.padc, left)
        \o [i \in DOMAIN shown |-> IF f.altflag /\ ~Printable(shown[i]) THEN "?" ELSE shown[i]]
        \o Padding(" ", right)

(* vprintfmt: a token after "%" changes what is known of the conversion.     *)
NoFlags == [padc |-> " ", width |-> -1, precision |-> -1, lflag |-> 0, altflag |-> FALSE]
Flag(f, token) ==
  CASE token.is \in {"-", "0"} -> [f EXCEPT !.padc = token.is]
    [] token.is = "number" ->
         IF f.width < 0 THEN [f EXCEPT !.width = token.n] ELSE [f EXCEPT !.precision = token.n]
    [] token.is = "." -> IF f.width < 0 THEN [f EXCEPT !.width = 0] ELSE f
    [] token.is = "l" -> [f EXCEPT !.lflag = @ + 1]
    [] token.is = "#" -> [f EXCEPT !.altflag = TRUE]

(* vprintfmt: the conversion of one argument.                                *)
vprintfmt(tokens, conv, arg) ==
  LET f == FoldLeft(Flag, NoFlags, tokens)
      Number(num, base) == printnum(num, base, f.width, f.padc)
  IN  CASE conv = "d" -> LET num == getint(arg, f.lflag)
                         IN  IF num < 0 THEN <<"-">> \o Number(-num, 10) ELSE Number(num, 10)
        [] conv = "u" -> Number(getuint(arg, f.lflag), 10)
        [] conv = "o" -> Number(getuint(arg, f.lflag), 8)
        [] conv = "x" -> Number(getuint(arg, f.lflag), 16)
        [] conv = "p" -> <<"0", "x">> \o Number(Unsigned(arg, Bits), 16)
        [] conv = "s" -> PrintString(arg, f)

(* vsnprintf with sprintputch: the buffer and the count returned.            *)
Put(b, ch) ==
  [cnt |-> b.cnt + 1, buf |-> IF Len(b.buf) < b.room THEN Append(b.buf, ch) ELSE b.buf,
   room |-> b.room]
vsnprintf(size, tokens, conv, arg) ==
  LET b == FoldLeft(Put, [buf |-> <<>>, cnt |-> 0, room |-> size - 1],
                    vprintfmt(tokens, conv, arg))
  IN  IF size = 0 THEN [buf |-> <<>>, cnt |-> BadArg]
      ELSE [buf |-> Append(b.buf, "nul"), cnt |-> b.cnt]

-----------------------------------------------------------------------------
(* What a character counts as a digit; 36 if it is none.                     *)
DigitValue(ch) == IF \E i \in 1 .. 16 : digits[i] = ch
                    THEN (CHOOSE i \in 1 .. 16 : digits[i] = ch) - 1 ELSE 36

(* strtol: blanks, a sign, a prefix, digits; the value wraps like a long.    *)
strtol(s, b) ==
  LET At(k) == IF k <= Len(s) THEN s[k] ELSE "nul"
      AfterBlanks == SelectInSeq(s \o <<"nul">>, LAMBDA ch : ch \notin {" ", "tab"})
      neg == At(AfterBlanks) = "-"
      start == IF At(AfterBlanks) \in {"+", "-"} THEN AfterBlanks + 1 ELSE AfterBlanks
      hex == b \in {0, 16} /\ At(start) = "0" /\ At(start + 1) = "x"
      octal == ~hex /\ b = 0 /\ At(start) = "0"
      base == IF hex THEN 16 ELSE IF octal THEN 8 ELSE IF b = 0 THEN 10 ELSE b
      first == IF hex THEN start + 2 ELSE IF octal THEN start + 1 ELSE start
      Value[k \in Nat, val \in Int] ==
        IF DigitValue(At(k)) >= base THEN [val |-> val, endptr |-> k]
        ELSE Value[k + 1, Signed(val * base + DigitValue(At(k)), Bits)]
      read == Value[first, 0]
  IN  [read EXCEPT !.val = IF neg THEN Signed(-@, Bits) ELSE @]
-----------------------------------------------------------------------------
(* A conversion as a programmer means it, and the tokens that write it.      *)
Written(f) ==
  LET One(condition, token) == IF condition THEN <<token>> ELSE <<>>
  IN  One(f.altflag, [is |-> "#"]) \o One(f.padc # " ", [is |-> f.padc])
        \o One(f.width > 0, [is |-> "number", n |-> f.width])
        \o (IF f.precision < 0 THEN <<>> ELSE <<[is |-> "."], [is |-> "number", n |-> f.precision]>>)
        \o [i \in 1 .. f.lflag |-> [is |-> "l"]]

(* A number printed without the flag "-" reads back as the same number, takes *)
(* its width or what it needs, whichever is more, and a buffer too small gets *)
(* the start of the text and the count of all of it.  So has it the code; the *)
(* comment of printnum calls the width the "maximum number of digits"         *)
(* (printfmt.c:33).                                                           *)
Greater(a, b) == IF a > b THEN a ELSE b
Significant(n, base) ==
  Cardinality({k \in 0 .. LongBits : k = 0 \/ base ^ k <= n})
ReadsBack(f, arg, size, put) ==
  LET base == CASE f.conv \in {"d", "u"} -> 10 [] f.conv = "o" -> 8 [] OTHER -> 16
      text == vprintfmt(Written(f), f.conv, arg)
      num == IF f.conv = "d" THEN getint(arg, f.lflag)
             ELSE getuint(arg, IF f.conv = "p" THEN 0 ELSE f.lflag)
      extra == IF f.conv = "p" THEN 2 ELSE IF num < 0 THEN 1 ELSE 0
      need == Significant(IF num < 0 THEN -num ELSE num, base)
  IN  /\ f.padc = "0" \/ need >= f.width \/ extra = 0 =>
           strtol(text, base) = [val |-> Signed(num, Bits), endptr |-> Len(text) + 1]
      /\ Len(text) = extra + Greater(need, f.width)
      /\ size > 0 => /\ put.cnt = Len(text) /\ Len(put.buf) <= size
                     /\ Last(put.buf) = "nul" /\ IsPrefix(Front(put.buf), text)
                     /\ Len(put.buf) = size \/ Front(put.buf) = text

(* A string, or as much of it as the precision allows, stands at the end of   *)
(* its field, or at the start with the flag "-"; it is never cut by the width.*)
(* So has it the code; printfmt.c:8 keeps padding and widths to "the numeric  *)
(* formats only".                                                             *)
Placed(f, s, text) ==
  LET n == IF f.precision < 0 \/ Len(s) < f.precision THEN Len(s) ELSE f.precision
      shown == [i \in 1 .. n |-> IF f.altflag /\ ~Printable(s[i]) THEN "?" ELSE s[i]]
  IN  /\ Len(text) = Greater(n, f.width)
      /\ IF f.padc = "-" THEN IsPrefix(shown, text) ELSE IsSuffix(shown, text)
=============================================================================
