----------------------------- MODULE AddressMap -----------------------------
(***************************************************************************)
(* The address map: the list of peripherals given to axi_gen.c, the        *)
(* decoder that it generates for a list, the decoder that stands in        *)
(* axi_interconnect.v, and the addresses the software uses.                *)
(*                                                                         *)
(* An address is that of a 32-bit word: the processor only ever puts       *)
(* multiples of four on the bus.                                           *)
(***************************************************************************)
EXTENDS Integers, Sequences

CONSTANTS Space,      \* words of the address space (2^30)
          InstrMem,   \* first word of each region: 0x10000000 / 4,
          DataMem,    \* 0x20000000 / 4
          IoBase,     \* and 0x80000000 / 4
          MemWords    \* words of either memory (0x8000 / 4)

ASSUME AddressMapAssumption ==
  /\ {Space, InstrMem, DataMem, IoBase} \subseteq Nat
  /\ MemWords = 8192
  /\ InstrMem % MemWords = 0 /\ DataMem % MemWords = 0 /\ IoBase % 64 = 0
  /\ InstrMem + MemWords <= DataMem /\ DataMem + MemWords <= IoBase
  /\ IoBase + 5 * 64 <= Space

Addresses == 0 .. Space - 1

(* add_peripheral_mem, _io and _io_4k. *)
Mem(name, base, size) ==
  [name |-> name, kind |-> "mem", base |-> base, size |-> size]
Io(name, base) == [name |-> name, kind |-> "io", base |-> base, size |-> 64]
Io4k(name, base) ==
  [name |-> name, kind |-> "io4k", base |-> base, size |-> 1024]

(* main: the peripherals of this system, in order. *)
Peripherals ==
  << Mem("INSTR_MEM", InstrMem, MemWords), Mem("DATA_MEM", DataMem, MemWords),
     Io("GPIO", IoBase), Io("UART0", IoBase + 64), Io("FIFO", IoBase + 128),
     Io("QSPI", IoBase + 192), Io("MDIO", IoBase + 256) >>

(* The condition generated for a peripheral.  The end of a memory is a sum *)
(* of 32 bits; a window is found by masking the low bits of the address.   *)
Sum32(x, y) == IF x + y < Space THEN x + y ELSE x + y - Space
Matches(p, a) ==
  IF p.kind = "mem" THEN a >= p.base /\ a < Sum32(p.base, p.size)
  ELSE a - (a % p.size) = p.base

(* The select bits set by the generated if ... else if. *)
Decode(map, a) ==
  {i \in DOMAIN map : /\ Matches(map[i], a)
                      /\ \A j \in 1 .. i - 1 : ~Matches(map[j], a)}

(* decode_addr as it stands in axi_interconnect.v. *)
Window(a) == a - (a % 64)
decode_addr(a) ==
  IF a >= InstrMem /\ a < Sum32(InstrMem, MemWords) THEN {1}
  ELSE IF a >= DataMem /\ a < Sum32(DataMem, MemWords) THEN {2}
  ELSE IF Window(a) = IoBase THEN {3}
  ELSE IF Window(a) = IoBase + 64 THEN {4}
  ELSE IF Window(a) = IoBase + 128 THEN {5}
  ELSE IF Window(a) = IoBase + 192 THEN {6}
  ELSE IF Window(a) = IoBase + 256 THEN {7}
  ELSE {}

(* A slave sees the low bits of an address only: this many words.          *)
SlaveWords == <<MemWords, MemWords, 4, 8, 4, 16, 4>>
SlavePlace(i, a) == a % SlaveWords[i]

(* The register blocks of the software, by the select bit they are meant   *)
(* for: first word and number of registers.                                *)
Drivers == {[slave |-> 4, base |-> IoBase + 64, count |-> 5],   \* uart
            [slave |-> 6, base |-> IoBase + 192, count |-> 6],  \* qspi
            [slave |-> 7, base |-> IoBase + 256, count |-> 3]}  \* mdio

(* sections.lds: what the linker accepts, in words, and where it puts it.  *)
(* .data is linked to run in RAM and stored in FLASH behind .text.         *)
Sections == [text : Nat, data : Nat, bss : Nat]
StackWords == 1024
Accepted(s) == /\ s.text + s.data <= MemWords
               /\ s.data + s.bss + StackWords <= MemWords
TextAt(s) == InstrMem .. InstrMem + s.text - 1
ImageAt(s) == InstrMem + s.text .. InstrMem + s.text + s.data - 1
DataAt(s) == DataMem .. DataMem + s.data - 1
BssAt(s) == DataMem + s.data .. DataMem + s.data + s.bss - 1
StackAt(s) == DataMem + s.data + s.bss
                .. DataMem + s.data + s.bss + StackWords - 1

(* What start.s and a program built by this script load and store.         *)
Loads(s) == ImageAt(s) \cup TextAt(s)
Stores(s) == DataAt(s) \cup BssAt(s) \cup StackAt(s)
=============================================================================
