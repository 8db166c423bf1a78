------------------------- MODULE AddressMap_proofs -------------------------
(* Proofs about AddressMap.                                                *)
EXTENDS AddressMap, TLAPS

Peripheral == [name : STRING, kind : {"mem"}, base : Addresses, size : Nat]
                \cup [name : STRING, kind : {"io"}, base : Addresses,
                      size : {64}]
                \cup [name : STRING, kind : {"io4k"}, base : Addresses,
                      size : {1024}]

(* A memory ends before the end of the address space, a window is aligned. *)
WellPlaced(p) == IF p.kind = "mem" THEN p.base + p.size < Space
                 ELSE p.base % p.size = 0
RangeOf(p) == p.base .. p.base + p.size - 1

LEMMA MatchesItsRange ==
  ASSUME NEW p \in Peripheral, WellPlaced(p), NEW a \in Addresses
  PROVE  Matches(p, a) <=> a \in RangeOf(p)
<1>1. CASE p.kind = "mem"
  BY <1>1, AddressMapAssumption
  DEF Peripheral, WellPlaced, Addresses, Matches, RangeOf, Sum32
<1>2. CASE p.kind = "io"
  <2>1. p.size = 64 /\ p.base \in Nat /\ p.base % 64 = 0 /\ a \in Nat
    BY <1>2 DEF Peripheral, WellPlaced, Addresses
  <2> QED BY <1>2, <2>1 DEF Matches, RangeOf
<1>3. CASE p.kind = "io4k"
  <2>1. p.size = 1024 /\ p.base \in Nat /\ p.base % 1024 = 0 /\ a \in Nat
    BY <1>3 DEF Peripheral, WellPlaced, Addresses
  <2> QED BY <1>3, <2>1 DEF Matches, RangeOf
<1> QED BY <1>1, <1>2, <1>3 DEF Peripheral

(* For every list of peripherals that are well placed and do not overlap,  *)
(* the decoder generated by axi_gen.c selects, for every address, the      *)
(* peripheral whose range holds it and no other: the order of the list,    *)
(* which decides in the if ... else if chain, does not matter.             *)
THEOREM DecodeExact ==
  ASSUME NEW map \in Seq(Peripheral),
         \A i \in DOMAIN map : WellPlaced(map[i]),
         \A i, j \in DOMAIN map :
           i # j => RangeOf(map[i]) \cap RangeOf(map[j]) = {},
         NEW a \in Addresses
  PROVE  Decode(map, a) = {i \in DOMAIN map : a \in RangeOf(map[i])}
<1>1. ASSUME NEW i \in DOMAIN map
      PROVE  Matches(map[i], a) <=> a \in RangeOf(map[i])
  <2>1. map[i] \in Peripheral
    OBVIOUS
  <2> QED BY <2>1, MatchesItsRange
<1>2. ASSUME NEW i \in DOMAIN map, a \in RangeOf(map[i]), NEW j \in 1 .. i - 1
      PROVE  ~Matches(map[j], a)
  <2>1. j \in DOMAIN map /\ i # j
    OBVIOUS
  <2> QED BY <1>1, <1>2, <2>1
<1> QED BY <1>1, <1>2 DEF Decode

(* The decoder in axi_interconnect.v is the one axi_gen.c generates for    *)
(* the list in its main.                                                   *)
THEOREM GeneratedIsCurrent ==
  ASSUME NEW a \in Addresses
  PROVE  decode_addr(a) = Decode(Peripherals, a)
<1> DEFINE m(i) == Matches(Peripherals[i], a)
<1>1. DOMAIN Peripherals = 1 .. 7
  BY DEF Peripherals
<1>2. /\ m(1) <=> a >= InstrMem /\ a < Sum32(InstrMem, MemWords)
      /\ m(2) <=> a >= DataMem /\ a < Sum32(DataMem, MemWords)
  BY DEF Peripherals, Matches, Mem
<1>3. /\ m(3) <=> Window(a) = IoBase
      /\ m(4) <=> Window(a) = IoBase + 64
      /\ m(5) <=> Window(a) = IoBase + 128
      /\ m(6) <=> Window(a) = IoBase + 192
      /\ m(7) <=> Window(a) = IoBase + 256
  BY DEF Peripherals, Matches, Io, Window
<1> HIDE DEF m
<1>4. Decode(Peripherals, a)
        = {i \in 1 .. 7 : m(i) /\ \A j \in 1 .. i - 1 : ~m(j)}
  BY <1>1 DEF Decode, m
<1>5. Decode(Peripherals, a)
        = IF m(1) THEN {1} ELSE IF m(2) THEN {2} ELSE IF m(3) THEN {3}
          ELSE IF m(4) THEN {4} ELSE IF m(5) THEN {5} ELSE IF m(6) THEN {6}
          ELSE IF m(7) THEN {7} ELSE {}
  BY <1>4
<1> QED BY <1>2, <1>3, <1>5 DEF decode_addr

(* Every register the drivers in uart, qspi and mdio name is decoded to    *)
(* the peripheral it is meant for, which tells it from the driver's other  *)
(* registers by the address bits it sees.                                  *)
THEOREM DriversReachTheirSlave ==
  ASSUME NEW d \in Drivers, NEW r \in 0 .. d.count - 1
  PROVE  /\ Decode(Peripherals, d.base + r) = {d.slave}
         /\ SlavePlace(d.slave, d.base + r) = r
<1>1. d.base + r \in Addresses
  BY AddressMapAssumption DEF Drivers, Addresses
<1>2. decode_addr(d.base + r) = {d.slave}
  <2>1. d.base + r >= IoBase /\ Window(d.base + r) = d.base
    BY AddressMapAssumption DEF Drivers, Window
  <2>2. /\ Sum32(InstrMem, MemWords) <= IoBase
        /\ Sum32(DataMem, MemWords) <= IoBase
    BY AddressMapAssumption DEF Sum32
  <2>3. ~(d.base + r < Sum32(InstrMem, MemWords))
        /\ ~(d.base + r < Sum32(DataMem, MemWords))
    BY <2>1, <2>2, <1>1, AddressMapAssumption DEF Sum32, Addresses
  <2>4. decode_addr(d.base + r)
          = IF d.base = IoBase THEN {3} ELSE IF d.base = IoBase + 64 THEN {4}
            ELSE IF d.base = IoBase + 128 THEN {5}
            ELSE IF d.base = IoBase + 192 THEN {6}
            ELSE IF d.base = IoBase + 256 THEN {7} ELSE {}
    BY <2>1, <2>3 DEF decode_addr
  <2> QED BY <2>4, AddressMapAssumption DEF Drivers
<1>3. SlavePlace(d.slave, d.base + r) = r
  <2>1. /\ SlaveWords[4] = 8 /\ SlaveWords[6] = 16 /\ SlaveWords[7] = 4
    BY DEF SlaveWords
  <2>2. d.base \in Nat /\ d.base % 64 = 0 /\ r \in Nat
    BY AddressMapAssumption DEF Drivers
  <2>3. CASE d.slave = 4
    <3>1. r < 8
      BY <2>3 DEF Drivers
    <3>2. (d.base + r) % 8 = r
      BY <2>2, <3>1
    <3> QED BY <2>1, <2>3, <3>2 DEF SlavePlace
  <2>4. CASE d.slave = 6
    <3>1. r < 16
      BY <2>4 DEF Drivers
    <3>2. (d.base + r) % 16 = r
      BY <2>2, <3>1
    <3> QED BY <2>1, <2>4, <3>2 DEF SlavePlace
  <2>5. CASE d.slave = 7
    <3>1. r < 4
      BY <2>5 DEF Drivers
    <3>2. (d.base + r) % 4 = r
      BY <2>2, <3>1
    <3> QED BY <2>1, <2>5, <3>2 DEF SlavePlace
  <2> QED BY <2>3, <2>4, <2>5 DEF Drivers
<1> QED BY <1>1, <1>2, <1>3, GeneratedIsCurrent

(* A program the linker accepts fetches and loads its image from the       *)
(* instruction memory, and start.s, its variables and its stack touch the  *)
(* data memory only; no two of their words fall on one place of a memory.  *)
(* In particular it stores to no unmapped address.                         *)
THEOREM ImageInMemory ==
  ASSUME NEW s \in Sections, Accepted(s)
  PROVE  /\ \A a \in Loads(s) : Decode(Peripherals, a) = {1}
         /\ \A a \in Stores(s) : Decode(Peripherals, a) = {2}
         /\ \A a, b \in Loads(s) : SlavePlace(1, a) = SlavePlace(1, b) => a = b
         /\ \A a, b \in Stores(s) :
              SlavePlace(2, a) = SlavePlace(2, b) => a = b
<1>1. Loads(s) \subseteq InstrMem .. InstrMem + MemWords - 1
  BY AddressMapAssumption
  DEF Loads, ImageAt, TextAt, Sections, Accepted, StackWords
<1>2. Stores(s) \subseteq DataMem .. DataMem + MemWords - 1
  BY AddressMapAssumption
  DEF Stores, DataAt, BssAt, StackAt, Sections, Accepted, StackWords
<1>3. \A a \in InstrMem .. InstrMem + MemWords - 1 :
        /\ a \in Addresses /\ decode_addr(a) = {1}
        /\ SlavePlace(1, a) = a - InstrMem
  BY AddressMapAssumption
  DEF Addresses, decode_addr, SlavePlace, SlaveWords, Sum32
<1>4. \A a \in DataMem .. DataMem + MemWords - 1 :
        /\ a \in Addresses /\ decode_addr(a) = {2}
        /\ SlavePlace(2, a) = a - DataMem
  BY AddressMapAssumption
  DEF Addresses, decode_addr, SlavePlace, SlaveWords, Sum32
<1>5. \A a \in Loads(s) : Decode(Peripherals, a) = {1}
  BY <1>1, <1>3, GeneratedIsCurrent
<1>6. \A a \in Stores(s) : Decode(Peripherals, a) = {2}
  BY <1>2, <1>4, GeneratedIsCurrent
<1>7. \A a, b \in Loads(s) : SlavePlace(1, a) = SlavePlace(1, b) => a = b
  <2> SUFFICES ASSUME NEW a \in Loads(s), NEW b \in Loads(s),
                      SlavePlace(1, a) = SlavePlace(1, b)
               PROVE  a = b
    OBVIOUS
  <2>1. a - InstrMem = b - InstrMem /\ a \in Int /\ b \in Int
    BY <1>1, <1>3
  <2> QED BY <2>1, AddressMapAssumption
<1>8. \A a, b \in Stores(s) : SlavePlace(2, a) = SlavePlace(2, b) => a = b
  <2> SUFFICES ASSUME NEW a \in Stores(s), NEW b \in Stores(s),
                      SlavePlace(2, a) = SlavePlace(2, b)
               PROVE  a = b
    OBVIOUS
  <2>1. a - DataMem = b - DataMem /\ a \in Int /\ b \in Int
    BY <1>2, <1>4
  <2> QED BY <2>1, AddressMapAssumption
<1> QED BY <1>5, <1>6, <1>7, <1>8
=============================================================================
