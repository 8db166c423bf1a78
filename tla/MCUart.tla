------------------------------- MODULE MCUart -------------------------------
(* Small instances of Uart for TLC: two-bit words.                         *)
EXTENDS Uart

AlternatingWords == {<<0, 1>>, <<1, 0>>}
TwoWords == {[b \in 0 .. 1 |-> w[b + 1]] : w \in AlternatingWords}
=============================================================================
