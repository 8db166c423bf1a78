----------------------------- MODULE BusAccess -----------------------------
(***************************************************************************)
(* The accesses a program makes through the processor's memory port, and   *)
(* the words they carry: the vocabulary shared by MemPort (what an access  *)
(* means) and AxiBus (how the hardware carries it out).                    *)
(***************************************************************************)
EXTENDS Naturals, Sequences

CONSTANTS JointSlaves, SplitSlaves, FifoSlaves,
          NoSlave,       \* the all-zero slave select: an unmapped address
          Lanes, Bytes,  \* byte lanes of a word and what a lane can hold
          Nil,           \* "nothing here", not a word
          Depth,         \* capacity of the FIFO behind a data port
          Filler,        \* the word an empty FIFO returns (32'h88888888)
          WriteTargets   \* the slaves (or NoSlave) the program stores to

Slaves == JointSlaves \cup SplitSlaves \cup FifoSlaves
LatchedSlaves == SplitSlaves \cup FifoSlaves
Words == [Lanes -> Bytes]
Zero == [l \in Lanes |-> 0]

ASSUME SlavesAssumption ==
  /\ JointSlaves \cap SplitSlaves = {}
  /\ JointSlaves \cap FifoSlaves = {}
  /\ SplitSlaves \cap FifoSlaves = {}
  /\ NoSlave \notin Slaves
  /\ WriteTargets \subseteq Slaves \cup {NoSlave}
ASSUME WordsAssumption ==
  /\ 0 \in Bytes
  /\ Nil \notin Words
  /\ Nil \notin BOOLEAN
  /\ Nil \notin [data: Words, strb: SUBSET Lanes]
  /\ Filler \in Words
  /\ Depth \in Nat \ {0}

(* mem_addr (tgt, port), mem_wdata and mem_wstrb.  A read is an access     *)
(* with no strobe; its data lines are never used.                          *)
Reads == [tgt: Slaves \cup {NoSlave}, port: BOOLEAN, data: {Zero}, strb: {{}}]
Writes == [tgt: WriteTargets, port: BOOLEAN, data: Words,
           strb: SUBSET Lanes \ {{}}]
Accesses == {a \in Reads \cup Writes : a.port => a.tgt \in FifoSlaves}

ASSUME NilAssumption == Nil \notin Accesses

ApplyStrb(old, new, strb) ==
  [l \in Lanes |-> IF l \in strb THEN new[l] ELSE old[l]]

(* Contents of the registers when reset ends: memories hold anything, the  *)
(* other slaves' registers are cleared.                                    *)
ResetRegs == {r \in [Slaves -> Words] : \A s \in LatchedSlaves : r[s] = Zero}
=============================================================================
