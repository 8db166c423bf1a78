------------------------ MODULE FirmwareText_proofs ------------------------
(* Proofs about FirmwareText.                                              *)
EXTENDS FirmwareText, SequenceTheorems, TLAPS

(* A chain of print_dec is the division by its unit. *)
LEMMA ChainDivides ==
  ASSUME NEW v \in Nat, NEW unit \in {1, 10, 100}, v < 10 * unit
  PROVE  /\ DecChain(v, unit) \in 0 .. 9
         /\ DecChain(v, unit) = v \div unit
         /\ v - unit * DecChain(v, unit) \in 0 .. unit - 1
<1>1. CASE unit = 1
  BY <1>1 DEF DecChain
<1>2. CASE unit = 10
  BY <1>2 DEF DecChain
<1>3. CASE unit = 100
  BY <1>3 DEF DecChain
<1> QED BY <1>1, <1>2, <1>3

(* Joining the pieces of a printed number. *)
LEMMA JoinTwo ==
  ASSUME NEW a, NEW b
  PROVE  <<a>> \o <<b>> = <<a, b>>
<1>1. <<a>> \in Seq({a, b}) /\ <<b>> \in Seq({a, b}) /\ <<a, b>> \in Seq({a, b})
  OBVIOUS
<1>2. /\ <<a>> \o <<b>> \in Seq({a, b})
      /\ Len(<<a>> \o <<b>>) = 2
      /\ \A i \in 1 .. 2 : (<<a>> \o <<b>>)[i] = <<a, b>>[i]
  BY <1>1, ConcatProperties
<1> QED BY <1>1, <1>2, SeqEqual

LEMMA JoinThree ==
  ASSUME NEW a, NEW b, NEW c
  PROVE  (<<a>> \o <<b>>) \o <<c>> = <<a, b, c>>
<1>1. <<a, b>> \in Seq({a, b, c}) /\ <<c>> \in Seq({a, b, c})
  OBVIOUS
<1>2. /\ <<a, b>> \o <<c>> \in Seq({a, b, c})
      /\ Len(<<a, b>> \o <<c>>) = 3
      /\ \A i \in 1 .. 3 : (<<a, b>> \o <<c>>)[i] = <<a, b, c>>[i]
  BY <1>1, ConcatProperties
<1>3. <<a, b, c>> \in Seq({a, b, c}) /\ Len(<<a, b, c>>) = 3
  OBVIOUS
<1>4. <<a, b>> \o <<c>> = <<a, b, c>>
  BY <1>2, <1>3, SeqEqual
<1> QED BY <1>4, JoinTwo

LEMMA JoinNone ==
  ASSUME NEW a
  PROVE  <<>> \o <<a>> = <<a>> /\ <<a>> \o <<>> = <<a>>
<1>1. <<a>> \in Seq({a})
  OBVIOUS
<1> QED BY <1>1, ConcatEmptySeq

(* print_dec of firmware.c prints the digits of a number below 1000 just   *)
(* when the number is below 100 or has a tens digit that is not zero: of   *)
(* 105 it prints 15.                                                       *)
THEOREM DecimalShown ==
  ASSUME NEW v \in 0 .. 999
  PROVE  print_dec(v) = Decimal(v) <=> v < 100 \/ (v \div 10) % 10 # 0
<1>1. PICK h : h = DecChain(v, 100)
  OBVIOUS
<1>2. PICK r : r = v - 100 * h
  OBVIOUS
<1>3. PICK t : t = DecChain(r, 10)
  OBVIOUS
<1>4. PICK o : o = DecChain(r - 10 * t, 1)
  OBVIOUS
<1>5. h \in 0 .. 9 /\ r \in 0 .. 99
  <2>1. v \in Nat /\ v < 10 * 100
    OBVIOUS
  <2> QED BY <2>1, <1>1, <1>2, ChainDivides
<1>6. t \in 0 .. 9 /\ r - 10 * t \in 0 .. 9
  <2>1. r \in Nat /\ r < 10 * 10
    BY <1>5
  <2> QED BY <2>1, <1>3, ChainDivides
<1>7. o \in 0 .. 9 /\ o = r - 10 * t
  <2>1. r - 10 * t \in Nat /\ r - 10 * t < 10 * 1
    BY <1>6
  <2>2. /\ o \in 0 .. 9
        /\ (r - 10 * t) - 1 * o \in 0 .. 1 - 1
    BY <2>1, <1>4, ChainDivides
  <2> QED BY <2>1, <2>2, <1>5, <1>6
<1>8. v = 100 * h + 10 * t + o
  BY <1>2, <1>5, <1>6, <1>7
<1>9. print_dec(v) = Shown(h) \o Shown(t) \o <<o>>
  <2>1. ~(v >= 1000)
    OBVIOUS
  <2> QED BY <2>1, <1>1, <1>2, <1>3, <1>4 DEF print_dec
<1>10. v % 10 = o
  BY <1>5, <1>6, <1>7, <1>8
<1>11. v \div 10 = 10 * h + t
  BY <1>5, <1>6, <1>7, <1>8
<1>12. (v \div 10) % 10 = t
  BY <1>5, <1>6, <1>11
<1>13. v \div 100 = h
  BY <1>5, <1>6, <1>7, <1>8
<1>14. CASE h = 0 /\ t = 0
  <2>1. print_dec(v) = <<o>>
    BY <1>9, <1>14 DEF Shown
  <2>2. v = o /\ v < 10
    BY <1>7, <1>8, <1>14
  <2> QED BY <2>1, <2>2 DEF Decimal
<1>15. CASE h = 0 /\ t # 0
  <2>1. print_dec(v) = <<t, o>>
    <3>1. Shown(h) = <<>> /\ Shown(t) = <<t>>
      BY <1>15 DEF Shown
    <3>2. <<>> \o <<t>> = <<t>>
      BY JoinNone
    <3>3. <<t>> \o <<o>> = <<t, o>>
      BY JoinTwo
    <3> QED BY <1>9, <3>1, <3>2, <3>3
  <2>2. ~(v < 10) /\ v < 100
    BY <1>6, <1>7, <1>8, <1>15
  <2>3. v \div 10 = t
    BY <1>5, <1>6, <1>11, <1>15
  <2> QED BY <2>1, <2>2, <2>3, <1>10 DEF Decimal
<1>16. CASE h # 0
  <2>1. ~(v < 10) /\ ~(v < 100)
    BY <1>5, <1>6, <1>7, <1>8, <1>16
  <2>2. Decimal(v) = <<h, t, o>>
    BY <2>1, <1>10, <1>12, <1>13 DEF Decimal
  <2>3. CASE t = 0
    <3>1. print_dec(v) = <<h, o>>
      <4>1. Shown(h) = <<h>> /\ Shown(t) = <<>>
        BY <1>16, <2>3 DEF Shown
      <4>2. <<h>> \o <<>> = <<h>>
        BY JoinNone
      <4>3. <<h>> \o <<o>> = <<h, o>>
        BY JoinTwo
      <4> QED BY <1>9, <4>1, <4>2, <4>3
    <3>2. Len(<<h, o>>) = 2 /\ Len(<<h, t, o>>) = 3
      OBVIOUS
    <3>3. print_dec(v) # Decimal(v)
      BY <3>1, <3>2, <2>2
    <3> QED BY <3>3, <2>1, <2>3, <1>12
  <2>4. CASE t # 0
    <3>1. print_dec(v) = <<h, t, o>>
      <4>1. Shown(h) = <<h>> /\ Shown(t) = <<t>>
        BY <1>16, <2>4 DEF Shown
      <4>2. (<<h>> \o <<t>>) \o <<o>> = <<h, t, o>>
        BY JoinThree
      <4> QED BY <1>9, <4>1, <4>2
    <3> QED BY <3>1, <2>2, <2>4, <1>12
  <2> QED BY <2>3, <2>4
<1> QED BY <1>14, <1>15, <1>16

(* print_hex with four digits prints a 16-bit value in exactly four, the   *)
(* highest first.                                                          *)
THEOREM FourDigits ==
  ASSUME NEW v \in Halves
  PROVE  print_hex(v, 4) = <<v[3], v[2], v[1], v[0]>>
<1> DEFINE s == [text |-> <<>>, digits |-> 4]
<1>1. \A i \in 4 .. 7 : v[i] = 0
  BY DEF Halves
<1>2. HighTurns(v, s) = s
  BY <1>1 DEF HighTurns, HexTurn
<1>3. LowTurns(v, s).text = <<v[3], v[2], v[1], v[0]>>
  <2>1. HexTurn(v, 3, s) = [text |-> <<v[3]>>, digits |-> 3]
    BY DEF HexTurn
  <2>2. HexTurn(v, 2, HexTurn(v, 3, s)) = [text |-> <<v[3], v[2]>>, digits |-> 2]
    BY <2>1 DEF HexTurn
  <2>3. HexTurn(v, 1, HexTurn(v, 2, HexTurn(v, 3, s)))
          = [text |-> <<v[3], v[2], v[1]>>, digits |-> 1]
    BY <2>2 DEF HexTurn
  <2>4. HexTurn(v, 0, HexTurn(v, 1, HexTurn(v, 2, HexTurn(v, 3, s))))
          = [text |-> <<v[3], v[2], v[1], v[0]>>, digits |-> 0]
    BY <2>3 DEF HexTurn
  <2> QED BY <2>4 DEF LowTurns
<1> QED BY <1>2, <1>3 DEF print_hex

(* Every line of the register dump of main.c shows the register's number   *)
(* in decimal, the value read and the value expected in four hexadecimal   *)
(* digits, and OK just when these four digits agree.                       *)
THEOREM DumpIsFaithful ==
  ASSUME NEW reg \in DumpedRegs, NEW name, NEW val \in Halves,
         NEW expected \in Halves
  PROVE  Line(reg, name, val, expected)
           = <<"Reg[">> \o Decimal(reg) \o <<"] ", name, ": 0x">>
               \o <<val[3], val[2], val[1], val[0]>> \o <<" (expected: 0x">>
               \o <<expected[3], expected[2], expected[1], expected[0]>>
               \o <<IF \A i \in 0 .. 3 : val[i] = expected[i]
                    THEN ") OK" ELSE ") MISMATCH">>
<1>1. print_dec(reg) = Decimal(reg)
  <2>1. reg \in 0 .. 999 /\ reg < 100
    BY DEF DumpedRegs
  <2> QED BY <2>1, DecimalShown
<1>2. print_hex(val, 4) = <<val[3], val[2], val[1], val[0]>>
  BY FourDigits
<1>3. print_hex(expected, 4)
        = <<expected[3], expected[2], expected[1], expected[0]>>
  BY FourDigits
<1>4. val = expected <=> \A i \in 0 .. 3 : val[i] = expected[i]
  <2>1. SUFFICES ASSUME \A i \in 0 .. 3 : val[i] = expected[i]
                 PROVE  val = expected
    OBVIOUS
  <2>2. /\ val \in [0 .. 7 -> Nibbles] /\ expected \in [0 .. 7 -> Nibbles]
        /\ \A i \in 4 .. 7 : val[i] = 0 /\ expected[i] = 0
    BY DEF Halves, Longs
  <2>3. \A i \in 0 .. 7 : val[i] = expected[i]
    BY <2>1, <2>2
  <2> QED BY <2>2, <2>3
<1>5. Verdict(val, expected)
        = IF \A i \in 0 .. 3 : val[i] = expected[i]
          THEN ") OK" ELSE ") MISMATCH"
  BY <1>4 DEF Verdict
<1> QED BY <1>1, <1>2, <1>3, <1>5 DEF Line
=============================================================================
