------------------------------- MODULE AxiBus -------------------------------
(***************************************************************************)
(* The memory path of the SoC, one step per rising edge of clk_i: the      *)
(* PicoRV32 memory port, picorv32_axi_adapter, axi_interconnect and the    *)
(* AXI4-Lite side of every slave.  All registers of the path change        *)
(* together; operators without a prime are the wires of the current cycle. *)
(*                                                                         *)
(* The slaves come in three shapes.                                        *)
(*   JointSlaves   axil_ram, axil_rom, axi_uart: address and data of a     *)
(*                 write are accepted in the same cycle (axi_uart ignores  *)
(*                 the byte strobes, so it counts as one with one lane).   *)
(*   SplitSlaves   axi_gpio, axi_mdio (and the write side of               *)
(*                 axi_qspi_nor): address and data are latched apart.      *)
(*   FifoSlaves    axi_fifo: the split write side, plus a data port        *)
(*                 whose read pops a FIFO and takes three cycles.          *)
(* Data: each slave has one plain register, a word of byte lanes; an       *)
(* address is a slave (or no slave) and whether it is the FIFO data port.  *)
(* A latched address or word is kept only while its "latched" flag is set; *)
(* the hardware never looks at it otherwise.                               *)
(***************************************************************************)
EXTENDS BusAccess

VARIABLES
  memValid, mem, memRdataQ,              \* picorv32 memory port
  ackAw, ackW, ackAr, xferDone,          \* picorv32_axi_adapter
  selQ, awSeen, wSeen, defB, defR,       \* axi_interconnect
  awready, wready, awLat, wLat, bvalid,  \* slave write channels
  arready, rdEn, rdPend, rdBusy, rbuf,   \* slave read channels
  regs, queue, push, dout                \* slave registers and FIFOs

cpuVars == <<memValid, mem, memRdataQ>>
adapterVars == <<ackAw, ackW, ackAr, xferDone>>
interconnectVars == <<selQ, awSeen, wSeen, defB, defR>>
slaveVars == <<awready, wready, awLat, wLat, bvalid, arready, rdEn, rdPend,
               rdBusy, rbuf, regs, queue, push, dout>>
vars == <<cpuVars, adapterVars, interconnectVars, slaveVars>>

-----------------------------------------------------------------------------
(* Wires out of the adapter. *)
IsWrite == memValid /\ mem.strb # {}
IsRead == memValid /\ mem.strb = {}
Awvalid == IsWrite /\ ~ackAw
Wvalid == IsWrite /\ ~ackW
(* Mutated form of Arvalid: the address is offered after it was accepted. *)
Arvalid_KeptUp == IsRead
Arvalid == IsRead /\ ~ackAr
(* Mutated form of Bready: ready for a response only with the address. *)
Bready_WithAddress == Awvalid
Bready == IsWrite
Rready == IsRead

(* Wires of the interconnect's routing. *)
AwSel == IF Awvalid THEN mem.tgt ELSE NoSlave
Captured == awSeen \/ wSeen
WSel == IF Captured THEN selQ ELSE AwSel
WriteDefault == IF Captured THEN WSel = NoSlave
                ELSE Awvalid /\ AwSel = NoSlave
ArSel(s) == Arvalid /\ mem.tgt = s

(* What the slaves offer.  A joint slave has one flop for both channels.   *)
Wready(s) == IF s \in JointSlaves THEN awready[s] ELSE wready[s]
Arready(s) == IF s \in FifoSlaves THEN arready[s] ELSE rbuf[s] = Nil

MAwready == /\ ~awSeen
            /\ \/ AwSel \in Slaves /\ awready[AwSel]
               \/ Awvalid /\ AwSel = NoSlave /\ ~defB
MWready == /\ ~wSeen
           /\ \/ WSel \in Slaves /\ Wready(WSel)
              \/ WriteDefault /\ ~defB
MArready == \/ \E s \in Slaves : ArSel(s) /\ Arready(s)
            \/ ArSel(NoSlave) /\ ~defR
Mbvalid == defB \/ \E s \in Slaves : bvalid[s]
Mrvalid == defR \/ \E s \in Slaves : rbuf[s] # Nil
MemReady == Mbvalid \/ Mrvalid

(* Mutated form of Rdata: the addressed slave's data, valid or not. *)
Rdata_Unqualified == IF mem.tgt \in Slaves THEN rbuf[mem.tgt] ELSE Zero

(* The read multiplexer; its priority order is immaterial as long as at    *)
(* most one slave answers (ResponseMatchesAccess).                         *)
Rdata == IF \E s \in Slaves : rbuf[s] # Nil
         THEN rbuf[CHOOSE s \in Slaves : rbuf[s] # Nil] ELSE Zero

(* Handshakes as each slave sees them: its own valid and its own ready.    *)
AwHand(s) == Awvalid /\ mem.tgt = s /\ awready[s]
WHand(s) == Wvalid /\ WSel = s /\ Wready(s)
ArHand(s) == ArSel(s) /\ Arready(s)
WriteReady(s) == IF s \in JointSlaves THEN awready[s]
                 ELSE awLat[s] # Nil /\ wLat[s] # Nil
(* Mutated form of RdEn: a read of any register of the slave pops. *)
RdEn_AnyRegister(s) == ArSel(s)
RdEn(s) == ArSel(s) /\ mem.port

-----------------------------------------------------------------------------
(* One clock edge, register by register.  At most one cycle after reset    *)
(* matters: the reset values below, with the flops reset does not drive    *)
(* (ackAr, ackW, xferDone of the adapter, dout of the FIFO) left free.     *)
Init ==
  /\ memValid = FALSE /\ mem \in Accesses /\ memRdataQ \in Words
  /\ ackAw = FALSE /\ ackW \in BOOLEAN /\ ackAr \in BOOLEAN
  /\ xferDone \in BOOLEAN
  /\ selQ = NoSlave
  /\ awSeen = FALSE /\ wSeen = FALSE /\ defB = FALSE /\ defR = FALSE
  /\ awready = [s \in Slaves |-> FALSE]
  /\ wready = [s \in LatchedSlaves |-> FALSE]
  /\ awLat = [s \in LatchedSlaves |-> Nil]
  /\ wLat = [s \in LatchedSlaves |-> Nil]
  /\ bvalid = [s \in Slaves |-> FALSE]
  /\ arready = [s \in FifoSlaves |-> FALSE]
  /\ rdEn = [s \in FifoSlaves |-> FALSE]
  /\ rdPend = [s \in FifoSlaves |-> FALSE]
  /\ rdBusy = [s \in FifoSlaves |-> FALSE]
  /\ rbuf = [s \in Slaves |-> Nil]
  /\ regs \in ResetRegs
  /\ queue = [s \in FifoSlaves |-> <<>>]
  /\ push = [s \in FifoSlaves |-> Nil]
  /\ dout \in [FifoSlaves -> Words]

(* Mutated form of AdapterEdge: the write address is never re-armed. *)
AdapterEdge_NoRearm ==
  LET clear == xferDone \/ ~memValid
  IN  /\ xferDone' = (memValid /\ MemReady)
      /\ ackAw' = (ackAw \/ (Awvalid /\ MAwready))
      /\ ackW' = (~clear /\ (ackW \/ (Wvalid /\ MWready)))
      /\ ackAr' = (~clear /\ (ackAr \/ (Arvalid /\ MArready)))

(* picorv32_axi_adapter: each channel's valid is dropped once accepted and *)
(* re-armed in the cycle after the transfer, when mem_valid is low.        *)
AdapterEdge ==
  LET clear == xferDone \/ ~memValid
  IN  /\ xferDone' = (memValid /\ MemReady)
      /\ ackAw' = (~clear /\ (ackAw \/ (Awvalid /\ MAwready)))
      /\ ackW' = (~clear /\ (ackW \/ (Wvalid /\ MWready)))
      /\ ackAr' = (~clear /\ (ackAr \/ (Arvalid /\ MArready)))

(* axi_interconnect: the write route is captured by the first of the two   *)
(* channels to be accepted and dropped with the response.                  *)
WriteRouteEdge ==
  LET awFire == Awvalid /\ MAwready
      wFire == Wvalid /\ MWready
  IN  IF Mbvalid /\ Bready
      THEN selQ' = NoSlave /\ awSeen' = FALSE /\ wSeen' = FALSE
      ELSE /\ selQ' = IF awFire \/ (wFire /\ ~Captured) THEN AwSel ELSE selQ
           /\ awSeen' = (awSeen \/ awFire)
           /\ wSeen' = (wSeen \/ wFire)

(* The default slave, which answers accesses to unmapped addresses.        *)
DefaultSlaveEdge ==
  /\ defB' = \/ awSeen /\ wSeen /\ WSel = NoSlave
             \/ defB /\ ~Bready
  /\ defR' = \/ ArSel(NoSlave) /\ MArready
             \/ defR /\ ~Rready

(* A joint slave offers ready for one cycle once both valids are up; a     *)
(* split slave offers each channel's ready every other cycle while nothing *)
(* is latched.                                                             *)
JointAwready(s) == /\ ~awready[s]
                   /\ Awvalid /\ mem.tgt = s /\ Wvalid /\ WSel = s
                   /\ ~bvalid[s] \/ Bready

WriteChannelsEdge ==
  /\ awready' = [s \in Slaves |->
       IF s \in JointSlaves THEN JointAwready(s)
       ELSE awLat[s] = Nil /\ ~awready[s]]
  /\ wready' = [s \in LatchedSlaves |-> wLat[s] = Nil /\ ~wready[s]]
  /\ awLat' = [s \in LatchedSlaves |->
       IF AwHand(s) THEN mem.port
       ELSE IF WriteReady(s) THEN Nil ELSE awLat[s]]
  /\ wLat' = [s \in LatchedSlaves |->
       IF WHand(s) THEN [data |-> mem.data, strb |-> mem.strb]
       ELSE IF WriteReady(s) THEN Nil ELSE wLat[s]]
  /\ bvalid' = [s \in Slaves |-> WriteReady(s) \/ (bvalid[s] /\ ~Bready)]

(* Read channels.  A read of the data port takes the path rdEn, rdPend,    *)
(* rbuf; every other read is answered in the next cycle.                   *)
ReadChannelsEdge ==
  /\ arready' = [s \in FifoSlaves |->
                   rbuf[s] = Nil /\ ~rdBusy[s] /\ ~ArHand(s)]
  /\ rdEn' = [s \in FifoSlaves |-> ArHand(s) /\ mem.port]
  /\ rdPend' = rdEn
  /\ rdBusy' = [s \in FifoSlaves |->
                  ~rdPend[s] /\ (rdBusy[s] \/ (ArHand(s) /\ mem.port))]
  /\ rbuf' = [s \in Slaves |->
       IF s \in FifoSlaves /\ rdPend[s] THEN dout[s]
       ELSE IF ArHand(s) /\ ~mem.port THEN regs[s]
       ELSE IF Rready THEN Nil ELSE rbuf[s]]

(* Mutated form of RegistersEdge: the byte strobes are ignored. *)
RegistersEdge_NoStrobes ==
  regs' = [s \in Slaves |->
    IF ~WriteReady(s) THEN regs[s]
    ELSE IF s \in JointSlaves THEN mem.data
    ELSE IF awLat[s] THEN regs[s] ELSE wLat[s].data]

(* The registers behind the slaves.  A joint slave writes from the bus, a  *)
(* split slave from its latches.                                           *)
RegistersEdge ==
  regs' = [s \in Slaves |->
    IF ~WriteReady(s) THEN regs[s]
    ELSE IF s \in JointSlaves THEN ApplyStrb(regs[s], mem.data, mem.strb)
    ELSE IF awLat[s] THEN regs[s]
    ELSE ApplyStrb(regs[s], wLat[s].data, wLat[s].strb)]

(* The FIFO behind a data port: a stored word is pushed one cycle after    *)
(* the write fires, and is dropped when the FIFO is full; a pop happens in *)
(* every cycle the port is addressed by ARVALID, accepted or not.          *)
FifoEdge ==
  /\ push' = [s \in FifoSlaves |->
       IF ~WriteReady(s) THEN Nil
       ELSE IF awLat[s] /\ Len(queue[s]) # Depth THEN wLat[s].data
       ELSE push[s]]
  /\ dout' = [s \in FifoSlaves |->
       IF ~RdEn(s) THEN dout[s]
       ELSE IF queue[s] = <<>> THEN Filler ELSE Head(queue[s])]
  /\ queue' = [s \in FifoSlaves |->
       LET rest == IF RdEn(s) /\ queue[s] # <<>> THEN Tail(queue[s])
                   ELSE queue[s]
       IN  IF push[s] # Nil /\ Len(queue[s]) # Depth
           THEN Append(rest, push[s]) ELSE rest]

Edge == /\ AdapterEdge /\ WriteRouteEdge /\ DefaultSlaveEdge
        /\ WriteChannelsEdge /\ ReadChannelsEdge /\ RegistersEdge /\ FifoEdge

-----------------------------------------------------------------------------
(* What the processor's memory state machine does at an edge.  It drops    *)
(* mem_valid for at least one cycle between two accesses.                  *)
Idle == ~memValid /\ UNCHANGED cpuVars /\ Edge
Issue(a) == ~memValid /\ memValid' = TRUE /\ mem' = a
            /\ UNCHANGED memRdataQ /\ Edge
Wait == memValid /\ ~MemReady /\ UNCHANGED cpuVars /\ Edge
Transfer == /\ memValid /\ MemReady
            /\ memValid' = FALSE /\ memRdataQ' = Rdata /\ UNCHANGED mem
            /\ Edge

Next == Idle \/ (\E a \in Accesses : Issue(a)) \/ Wait \/ Transfer

(* The clock runs for as long as an access is outstanding. *)
Fairness == WF_vars(Wait \/ Transfer)
Spec == Init /\ [][Next]_vars
FairSpec == Spec /\ Fairness

-----------------------------------------------------------------------------
(* Type invariant of the path's registers. *)
TypeOK ==
  /\ memValid \in BOOLEAN /\ mem \in Accesses /\ memRdataQ \in Words
  /\ ackAw \in BOOLEAN /\ ackW \in BOOLEAN /\ ackAr \in BOOLEAN
  /\ xferDone \in BOOLEAN
  /\ selQ \in Slaves \cup {NoSlave}
  /\ awSeen \in BOOLEAN /\ wSeen \in BOOLEAN
  /\ defB \in BOOLEAN /\ defR \in BOOLEAN
  /\ awready \in [Slaves -> BOOLEAN]
  /\ wready \in [LatchedSlaves -> BOOLEAN]
  /\ awLat \in [LatchedSlaves -> BOOLEAN \cup {Nil}]
  /\ wLat \in [LatchedSlaves -> [data: Words, strb: SUBSET Lanes] \cup {Nil}]
  /\ bvalid \in [Slaves -> BOOLEAN]
  /\ arready \in [FifoSlaves -> BOOLEAN]
  /\ rdEn \in [FifoSlaves -> BOOLEAN]
  /\ rdPend \in [FifoSlaves -> BOOLEAN]
  /\ rdBusy \in [FifoSlaves -> BOOLEAN]
  /\ rbuf \in [Slaves -> Words \cup {Nil}]
  /\ regs \in [Slaves -> Words]
  /\ queue \in [FifoSlaves -> Seq(Words)]
  /\ push \in [FifoSlaves -> Words \cup {Nil}]
  /\ dout \in [FifoSlaves -> Words]

(* Every response on the bus answers the access that is outstanding: it    *)
(* comes from the addressed slave, after that slave accepted the request.  *)
(* The adapter turns any response from any slave into mem_ready, so a      *)
(* response left over from an earlier access would complete the wrong one. *)
ResponseMatchesAccess ==
  /\ \A s \in Slaves :
       /\ bvalid[s] => IsWrite /\ mem.tgt = s /\ awSeen /\ wSeen
       /\ rbuf[s] # Nil => IsRead /\ mem.tgt = s /\ ackAr
  /\ defB => IsWrite /\ mem.tgt = NoSlave
  /\ defR => IsRead /\ mem.tgt = NoSlave /\ ackAr

(* An address or a data word is accepted only when none is pending: the    *)
(* registered readys of a split slave lag its latches by a cycle.          *)
LatchNotOverwritten ==
  \A s \in LatchedSlaves : /\ AwHand(s) => awLat[s] = Nil
                           /\ WHand(s) => wLat[s] = Nil

(* The FIFO is popped only by a read that is accepted in the same cycle:   *)
(* its read enable ignores ARREADY, so an ARVALID that had to wait would   *)
(* lose a word per cycle.                                                  *)
PopIsAccepted == \A s \in FifoSlaves : RdEn(s) => ArHand(s)

(* A default (DECERR) response is for an access to an unmapped address.    *)
DefaultOnlyUnmapped == memValid /\ (defB \/ defR) => mem.tgt = NoSlave

(* The path implements MemPort.  An access has taken effect once its       *)
(* response, or the FIFO word it popped, is on the way; a pushed word      *)
(* counts as stored while it waits in fifo_din for the next edge.          *)
Popped(s) == rdEn[s] \/ rdPend[s]
Performed == \/ MemReady
             \/ \E s \in FifoSlaves : Popped(s)
Answer == IF \E s \in FifoSlaves : Popped(s)
          THEN dout[CHOOSE s \in FifoSlaves : Popped(s)] ELSE Rdata
Stored == [s \in FifoSlaves |->
             IF push[s] = Nil THEN queue[s] ELSE Append(queue[s], push[s])]
Port == INSTANCE MemPort WITH req <- IF memValid THEN mem ELSE Nil,
          done <- Performed, word <- Answer, taken <- memRdataQ,
          store <- regs, fifo <- Stored

(* Safety part of the refinement: each access takes effect exactly once,   *)
(* atomically, and loads return what the register or FIFO then held.       *)
ImplementsMemPort == Port!Spec

(* The same with MemPort's fairness: every access takes effect and ends.   *)
ImplementsFairMemPort == Port!FairSpec

-----------------------------------------------------------------------------
(* The inductive invariant behind the properties above: a phase by phase   *)
(* account of the one access on the bus, valid when no store goes to an    *)
(* unmapped address (NoSlave \notin WriteTargets).                         *)

Active(s) == memValid /\ mem.tgt = s
WriteQuiet(s) == /\ ~bvalid[s]
                 /\ s \in JointSlaves => ~awready[s]
                 /\ s \in LatchedSlaves => awLat[s] = Nil /\ wLat[s] = Nil
                 /\ s \in FifoSlaves => push[s] = Nil
ReadQuiet(s) == /\ rbuf[s] = Nil
                /\ s \in FifoSlaves => ~rdEn[s] /\ ~rdPend[s] /\ ~rdBusy[s]

(* Nothing is in progress in a slave that is not being accessed, nor in    *)
(* the channels an access does not use.                                    *)
QuietElsewhere ==
  \A s \in Slaves : /\ ~(IsWrite /\ mem.tgt = s) => WriteQuiet(s)
                    /\ ~(IsRead /\ mem.tgt = s) => ReadQuiet(s)

(* The adapter's and the interconnect's memories of an accepted channel    *)
(* agree, and are clear whenever they are not about the current access.    *)
AcksAgree ==
  /\ memValid => ~xferDone
  /\ IsWrite => ackAw = awSeen /\ ackW = wSeen /\ awSeen = wSeen
  /\ ~IsWrite => ~awSeen /\ ~wSeen
  /\ awSeen => selQ = mem.tgt
  /\ ~defB
  /\ defR <=> IsRead /\ mem.tgt = NoSlave /\ ackAr

(* Address and data channel of a split slave move in lockstep. *)
ChannelsInStep ==
  \A s \in LatchedSlaves : /\ awready[s] = wready[s]
                           /\ awLat[s] = Nil <=> wLat[s] = Nil
                           /\ awready[s] => awLat[s] = Nil

(* Phases of a write: offered, latched (split slaves only), answered. *)
WritePhase(s) ==
  \/ /\ ~awSeen /\ ~bvalid[s]
     /\ s \in LatchedSlaves => awLat[s] = Nil
     /\ s \in FifoSlaves => push[s] = Nil
  \/ /\ awSeen /\ ~awready[s] /\ ~bvalid[s] /\ s \in LatchedSlaves
     /\ awLat[s] = mem.port
     /\ wLat[s] = [data |-> mem.data, strb |-> mem.strb]
     /\ s \in FifoSlaves => push[s] = Nil
  \/ /\ awSeen /\ ~awready[s] /\ bvalid[s]
     /\ s \in LatchedSlaves => awLat[s] = Nil

(* Phases of a read: offered, popping (data port only), answered. *)
ReadPhase(s) ==
  \/ ~ackAr /\ ReadQuiet(s)
  \/ /\ ackAr /\ s \in FifoSlaves /\ mem.port
     /\ rbuf[s] = Nil /\ rdBusy[s] /\ rdEn[s] = ~rdPend[s]
  \/ /\ ackAr /\ rbuf[s] # Nil
     /\ s \in FifoSlaves => ~rdEn[s] /\ ~rdPend[s] /\ ~rdBusy[s]

AccessPhase == \A s \in Slaves : /\ IsWrite /\ mem.tgt = s => WritePhase(s)
                                 /\ IsRead /\ mem.tgt = s => ReadPhase(s)

(* A FIFO slave is ready for a read before the read can arrive. *)
ReadyAhead ==
  \A s \in FifoSlaves :
    memValid /\ ~(IsRead /\ mem.tgt = s /\ ackAr) => arready[s]

(* A word is only on its way into a FIFO that has room for it. *)
QueueBounded ==
  \A s \in FifoSlaves : /\ Len(queue[s]) <= Depth
                        /\ push[s] # Nil => Len(queue[s]) < Depth

IInv == /\ TypeOK /\ QuietElsewhere /\ AcksAgree /\ ChannelsInStep
        /\ AccessPhase /\ ReadyAhead /\ QueueBounded
=============================================================================
