----------------------------- MODULE MCQspiNor -----------------------------
(* Small instances of NorBench, and with it QspiNor, for TLC.              *)
EXTENDS NorBench

OneSector == [p \in Pages |-> CHOOSE q \in Pages : TRUE]

(* Three words of two bytes of two bits, no two words alike. *)
SomeByte(k) == [b \in 0 .. 1 |-> IF b = 0 THEN k % 2 ELSE k \div 2]
Number == <<0, 2, 1>>
Counting == [w \in 1 .. 3 |-> [i \in 0 .. 1 |-> SomeByte(Number[w] + i)]]
OneBuffer == {Counting}
=============================================================================
