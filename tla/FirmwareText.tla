---------------------------- MODULE FirmwareText ----------------------------
(***************************************************************************)
(* What the firmware prints: the number formatting of firmware.c and the   *)
(* lines of the register dump of main.c.                                   *)
(*                                                                         *)
(* A text is the sequence of the characters given to putchar; a digit is   *)
(* the number it stands for, a string constant a single symbol.  The 32    *)
(* bits of a number printed in hexadecimal are eight nibbles.              *)
(***************************************************************************)
EXTENDS Integers, Sequences

Nibbles == 0 .. 15
Longs == [0 .. 7 -> Nibbles]

(* One turn of the loop of print_hex: s holds the text so far and the      *)
(* number of digits that must appear.                                      *)
HexTurn(v, i, s) ==
  IF v[i] = 0 /\ i >= s.digits THEN s
  ELSE [text |-> Append(s.text, v[i]), digits |-> i]

(* print_hex: eight turns, from the highest nibble down. *)
HighTurns(v, s) == HexTurn(v, 4, HexTurn(v, 5, HexTurn(v, 6, HexTurn(v, 7, s))))
LowTurns(v, s) == HexTurn(v, 0, HexTurn(v, 1, HexTurn(v, 2, HexTurn(v, 3, s))))
print_hex(v, digits) ==
  LowTurns(v, HighTurns(v, [text |-> <<>>, digits |-> digits])).text

(* One chain of comparisons of print_dec: the largest digit whose multiple *)
(* of the unit is in v, or 0 if there is none.                             *)
DecChain(v, unit) ==
  IF v >= 9 * unit THEN 9 ELSE IF v >= 8 * unit THEN 8
  ELSE IF v >= 7 * unit THEN 7 ELSE IF v >= 6 * unit THEN 6
  ELSE IF v >= 5 * unit THEN 5 ELSE IF v >= 4 * unit THEN 4
  ELSE IF v >= 3 * unit THEN 3 ELSE IF v >= 2 * unit THEN 2
  ELSE IF v >= unit THEN 1 ELSE 0

(* The first two chains print nothing where they find no digit. *)
Shown(digit) == IF digit = 0 THEN <<>> ELSE <<digit>>

print_dec(v) ==
  IF v >= 1000 THEN <<">=1000">>
  ELSE LET hundreds == DecChain(v, 100)
           rest == v - 100 * hundreds
           tens == DecChain(rest, 10)
           ones == DecChain(rest - 10 * tens, 1)
       IN  Shown(hundreds) \o Shown(tens) \o <<ones>>

(* main: the registers it dumps, and the line for one of them.  Values are *)
(* 16 bits wide, extended with zeros.                                      *)
DumpedRegs == 0 .. 8 \cup {13, 14} \cup 16 .. 18 \cup {26, 27, 29}
Halves == {v \in Longs : \A i \in 4 .. 7 : v[i] = 0}
Verdict(val, expected) == IF val = expected THEN ") OK" ELSE ") MISMATCH"
Line(reg, name, val, expected) ==
  <<"Reg[">> \o print_dec(reg) \o <<"] ", name, ": 0x">> \o print_hex(val, 4)
    \o <<" (expected: 0x">> \o print_hex(expected, 4)
    \o <<Verdict(val, expected)>>

-----------------------------------------------------------------------------
(* What a reader expects: the usual digits, without leading zeros. *)
Decimal(v) == IF v < 10 THEN <<v>>
              ELSE IF v < 100 THEN <<v \div 10, v % 10>>
              ELSE <<v \div 100, (v \div 10) % 10, v % 10>>
=============================================================================
