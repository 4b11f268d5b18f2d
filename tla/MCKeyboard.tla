----------------------------- MODULE MCKeyboard -----------------------------
(* The way of a key, in its two modules: the driver, whose key buffer is a    *)
(* queue, and that key buffer access by access.  They share no variable, so   *)
(* one of them moves in a behaviour and the other stays where it begins.      *)
(*                                                                            *)
(* The driver: a shift, a control key behind E0, a letter with its three      *)
(* characters and a cursor key with faked shifts.  Its ring laps at the third *)
(* character, the key buffer refuses the second; the two bytes of one key fit *)
(* on the wire, or those of two keys.                                         *)
(*                                                                            *)
(* The key buffer: a ring of four slots: both indices wrap at different times,*)
(* and front can stand one past the array with the ring empty, partly filled  *)
(* or full.                                                                   *)
EXTENDS KeyBuf, Console

CONSTANTS a, b, nul
MCSize == 4
MCChars == {a, b, nul}

MCConsBufSize == 3
MCKbSize == 2
MCKeys == {"lshift", "rctl", "a", "left"}
MCMaxHeld == 2
MCMaxWire == 2

VARIABLE part   \* which of the two moves
KeyboardInit == KeyBufInit /\ ConsoleInit /\ part \in {"buffer", "driver"}
KeyBufMoves == part = "buffer" /\ KeyBufNext /\ UNCHANGED <<consoleVars, part>>
ConsoleMoves == part = "driver" /\ ConsoleNext /\ UNCHANGED <<keybufVars, part>>
KeyboardNext == KeyBufMoves \/ ConsoleMoves
KeyboardSpec == KeyboardInit /\ [][KeyboardNext]_<<keybufVars, consoleVars, part>>
=============================================================================
