--------------------------- MODULE AxiBus_proofs ---------------------------
(***************************************************************************)
(* Proofs about AxiBus for every set of slaves of each shape, every word   *)
(* width and every FIFO depth.                                             *)
(***************************************************************************)
EXTENDS AxiBus, TLAPS

USE DEF Slaves, LatchedSlaves

(* Fields of an access. *)
LEMMA AccessType ==
  ASSUME NEW a \in Accesses
  PROVE  /\ a.tgt \in Slaves \cup {NoSlave}
         /\ a.port \in BOOLEAN
         /\ a.data \in Words
         /\ a.strb \in SUBSET Lanes
         /\ a.port => a.tgt \in FifoSlaves
         /\ a.strb # {} => a.tgt \in WriteTargets
<1>1. Zero \in Words
  BY WordsAssumption DEF Zero, Words
<1>2. CASE a \in Reads
  BY <1>1, <1>2 DEF Accesses, Reads
<1>3. CASE a \in Writes
  BY <1>3, SlavesAssumption DEF Accesses, Writes
<1> QED BY <1>2, <1>3 DEF Accesses

(* A strobed write leaves a word. *)
LEMMA ApplyStrbType ==
  ASSUME NEW old \in Words, NEW new \in Words, NEW strb
  PROVE  ApplyStrb(old, new, strb) \in Words
BY DEF ApplyStrb, Words

LEMMA ZeroType == Zero \in Words
BY WordsAssumption DEF Zero, Words

LEMMA InitTypeOK == Init => TypeOK
<1> SUFFICES ASSUME Init PROVE TypeOK
  OBVIOUS
<1>1. regs \in [Slaves -> Words]
  BY DEF Init, ResetRegs
<1>2. /\ awLat \in [LatchedSlaves -> BOOLEAN \cup {Nil}]
      /\ wLat \in [LatchedSlaves -> [data: Words, strb: SUBSET Lanes] \cup {Nil}]
      /\ rbuf \in [Slaves -> Words \cup {Nil}]
      /\ queue \in [FifoSlaves -> Seq(Words)]
      /\ push \in [FifoSlaves -> Words \cup {Nil}]
      /\ dout \in [FifoSlaves -> Words]
  BY DEF Init
<1> QED
  BY <1>1, <1>2 DEF Init, TypeOK

LEMMA RdataType == TypeOK => Rdata \in Words
BY ZeroType, WordsAssumption DEF TypeOK, Rdata

(* One clock edge keeps the registers of the path in their types. *)
LEMMA EdgeTypes ==
  ASSUME TypeOK, Edge
  PROVE  /\ ackAw' \in BOOLEAN /\ ackW' \in BOOLEAN /\ ackAr' \in BOOLEAN
         /\ xferDone' \in BOOLEAN
         /\ selQ' \in Slaves \cup {NoSlave}
         /\ awSeen' \in BOOLEAN /\ wSeen' \in BOOLEAN
         /\ defB' \in BOOLEAN /\ defR' \in BOOLEAN
         /\ awready' \in [Slaves -> BOOLEAN]
         /\ wready' \in [LatchedSlaves -> BOOLEAN]
         /\ awLat' \in [LatchedSlaves -> BOOLEAN \cup {Nil}]
         /\ wLat' \in [LatchedSlaves ->
                         [data: Words, strb: SUBSET Lanes] \cup {Nil}]
         /\ bvalid' \in [Slaves -> BOOLEAN]
         /\ arready' \in [FifoSlaves -> BOOLEAN]
         /\ rdEn' \in [FifoSlaves -> BOOLEAN]
         /\ rdPend' \in [FifoSlaves -> BOOLEAN]
         /\ rdBusy' \in [FifoSlaves -> BOOLEAN]
         /\ rbuf' \in [Slaves -> Words \cup {Nil}]
         /\ regs' \in [Slaves -> Words]
         /\ queue' \in [FifoSlaves -> Seq(Words)]
         /\ push' \in [FifoSlaves -> Words \cup {Nil}]
         /\ dout' \in [FifoSlaves -> Words]
<1> USE DEF TypeOK
<1>a. /\ mem.tgt \in Slaves \cup {NoSlave}
      /\ mem.port \in BOOLEAN
      /\ mem.data \in Words
      /\ mem.strb \in SUBSET Lanes
  BY AccessType
<1>1. /\ ackAw' \in BOOLEAN /\ ackW' \in BOOLEAN /\ ackAr' \in BOOLEAN
      /\ xferDone' \in BOOLEAN
  BY DEF Edge, AdapterEdge
<1>2. /\ selQ' \in Slaves \cup {NoSlave}
      /\ awSeen' \in BOOLEAN /\ wSeen' \in BOOLEAN
      /\ defB' \in BOOLEAN /\ defR' \in BOOLEAN
  BY <1>a DEF Edge, WriteRouteEdge, DefaultSlaveEdge, AwSel
<1>3. /\ awready' \in [Slaves -> BOOLEAN]
      /\ wready' \in [LatchedSlaves -> BOOLEAN]
      /\ bvalid' \in [Slaves -> BOOLEAN]
  BY DEF Edge, WriteChannelsEdge, JointAwready
<1>4. awLat' \in [LatchedSlaves -> BOOLEAN \cup {Nil}]
  BY <1>a DEF Edge, WriteChannelsEdge, JointAwready
<1>5. wLat' \in [LatchedSlaves -> [data: Words, strb: SUBSET Lanes] \cup {Nil}]
  BY <1>a DEF Edge, WriteChannelsEdge, JointAwready
<1>6. /\ arready' \in [FifoSlaves -> BOOLEAN]
      /\ rdEn' \in [FifoSlaves -> BOOLEAN]
      /\ rdPend' \in [FifoSlaves -> BOOLEAN]
      /\ rdBusy' \in [FifoSlaves -> BOOLEAN]
  BY DEF Edge, ReadChannelsEdge
<1>7. rbuf' \in [Slaves -> Words \cup {Nil}]
  BY DEF Edge, ReadChannelsEdge
<1>8. regs' \in [Slaves -> Words]
  BY <1>a, ApplyStrbType DEF Edge, RegistersEdge, WriteReady
<1>9. dout' \in [FifoSlaves -> Words]
  BY WordsAssumption DEF Edge, FifoEdge
<1>10. push' \in [FifoSlaves -> Words \cup {Nil}]
  BY SlavesAssumption DEF Edge, FifoEdge, WriteReady
<1>11. queue' \in [FifoSlaves -> Seq(Words)]
  BY DEF Edge, FifoEdge
<1> QED BY <1>1, <1>2, <1>3, <1>4, <1>5, <1>6, <1>7, <1>8, <1>9, <1>10, <1>11

LEMMA NextTypeOK == TypeOK /\ [Next]_vars => TypeOK'
<1> SUFFICES ASSUME TypeOK, [Next]_vars PROVE TypeOK'
  OBVIOUS
<1>1. CASE Edge
  <2>1. memValid' \in BOOLEAN /\ mem' \in Accesses /\ memRdataQ' \in Words
    BY <1>1, RdataType DEF TypeOK, Next, Idle, Issue, Wait, Transfer,
                           cpuVars, vars
  <2> QED BY <1>1, <2>1, EdgeTypes DEF TypeOK
<1>2. CASE UNCHANGED vars
  BY <1>2 DEF TypeOK, vars, cpuVars, adapterVars, interconnectVars, slaveVars
<1> QED BY <1>1, <1>2 DEF Next, Idle, Issue, Wait, Transfer

(* The registers of the memory path keep their types. *)
THEOREM TypeCorrect == Spec => []TypeOK
BY InitTypeOK, NextTypeOK, PTL DEF Spec

-----------------------------------------------------------------------------
(* What the wires are worth in a state of the inductive invariant.         *)
LEMMA WriteWires ==
  ASSUME NoSlave \notin WriteTargets, IInv
  PROVE  /\ IsWrite => mem.tgt \in Slaves
         /\ Awvalid = Wvalid
         /\ Awvalid => ~Captured /\ AwSel = mem.tgt /\ WSel = mem.tgt
         /\ Awvalid => (MAwready <=> awready[mem.tgt])
         /\ Awvalid => (MWready <=> awready[mem.tgt])
         /\ \A s \in Slaves : WHand(s) <=> AwHand(s)
         /\ Mbvalid <=> IsWrite /\ bvalid[mem.tgt]
<1> USE DEF IInv, TypeOK
<1>1. IsWrite => mem.tgt \in Slaves
  BY AccessType, SlavesAssumption DEF IsWrite
<1>2. Awvalid = Wvalid
  BY DEF Awvalid, Wvalid, AcksAgree
<1>3. Awvalid => ~Captured /\ AwSel = mem.tgt /\ WSel = mem.tgt
  BY <1>1 DEF Awvalid, AcksAgree, Captured, AwSel, WSel
<1>4. Awvalid => (MAwready <=> awready[mem.tgt])
  BY <1>1, <1>3, SlavesAssumption DEF Awvalid, MAwready, AcksAgree
<1>5. Awvalid => (MWready <=> awready[mem.tgt])
  BY <1>1, <1>2, <1>3, SlavesAssumption
  DEF Awvalid, MWready, Wready, AcksAgree, WriteDefault, ChannelsInStep
<1>6. \A s \in Slaves : WHand(s) <=> AwHand(s)
  BY <1>2, <1>3, SlavesAssumption
  DEF WHand, AwHand, Wready, ChannelsInStep
<1>7. Mbvalid <=> IsWrite /\ bvalid[mem.tgt]
  BY <1>1 DEF Mbvalid, AcksAgree, QuietElsewhere, WriteQuiet
<1> QED BY <1>1, <1>2, <1>3, <1>4, <1>5, <1>6, <1>7

LEMMA ReadWires ==
  ASSUME IInv
  PROVE  /\ Arvalid => MArready
         /\ \A s \in Slaves : ArHand(s) <=> Arvalid /\ mem.tgt = s
         /\ Mrvalid <=> /\ IsRead
                        /\ \/ defR
                           \/ mem.tgt \in Slaves /\ rbuf[mem.tgt] # Nil
<1> USE DEF IInv, TypeOK
<1>1. \A s \in Slaves : ArHand(s) <=> Arvalid /\ mem.tgt = s
  <2> SUFFICES ASSUME NEW s \in Slaves, Arvalid, mem.tgt = s
               PROVE  Arready(s)
    BY DEF ArHand, ArSel
  <2>1. CASE s \in FifoSlaves
    BY <2>1 DEF Arready, ReadyAhead, Arvalid, IsRead
  <2>2. CASE s \notin FifoSlaves
    BY <2>2 DEF Arready, AccessPhase, ReadPhase, ReadQuiet, Arvalid
  <2> QED BY <2>1, <2>2
<1>2. Arvalid => MArready
  BY <1>1, AccessType DEF MArready, ArHand, ArSel, AcksAgree, Arvalid
<1>3. Mrvalid <=> /\ IsRead
                  /\ defR \/ (mem.tgt \in Slaves /\ rbuf[mem.tgt] # Nil)
  BY DEF Mrvalid, AcksAgree, QuietElsewhere, ReadQuiet
<1> QED BY <1>1, <1>2, <1>3

-----------------------------------------------------------------------------
LEMMA InitIInv == Init => IInv
<1> SUFFICES ASSUME Init PROVE IInv
  OBVIOUS
<1>1. QuietElsewhere
  BY DEF Init, QuietElsewhere, WriteQuiet, ReadQuiet
<1>2. AcksAgree
  BY DEF Init, AcksAgree, IsWrite, IsRead
<1>3. ChannelsInStep
  BY DEF Init, ChannelsInStep
<1>4. AccessPhase /\ ReadyAhead
  BY DEF Init, AccessPhase, ReadyAhead, IsWrite, IsRead
<1>5. QueueBounded
  BY WordsAssumption DEF Init, QueueBounded
<1> QED BY <1>1, <1>2, <1>3, <1>4, <1>5, InitTypeOK DEF IInv

(* The two facts about slaves that any edge keeps, whatever the processor  *)
(* does at it.                                                             *)
LEMMA EdgeChannels ==
  ASSUME NoSlave \notin WriteTargets, IInv, Edge
  PROVE  ChannelsInStep'
<1> SUFFICES ASSUME NEW s \in LatchedSlaves
             PROVE  /\ awready'[s] = wready'[s]
                    /\ awLat'[s] = Nil <=> wLat'[s] = Nil
                    /\ awready'[s] => awLat'[s] = Nil
  BY DEF ChannelsInStep
<1> USE DEF IInv, TypeOK
<1>1. s \in Slaves /\ s \notin JointSlaves
  BY SlavesAssumption
<1>2. WHand(s) <=> AwHand(s)
  BY <1>1, WriteWires
<1>3. AwHand(s) => awready[s]
  BY DEF AwHand
<1>4. mem.port # Nil
  BY AccessType, WordsAssumption
<1>5. [data |-> mem.data, strb |-> mem.strb] # Nil
  BY AccessType, WordsAssumption
<1>6. awready'[s] = wready'[s]
  BY <1>1 DEF Edge, WriteChannelsEdge, JointAwready, ChannelsInStep
<1>7. awLat'[s] = Nil <=> wLat'[s] = Nil
  BY <1>1, <1>2, <1>4, <1>5 DEF Edge, WriteChannelsEdge, JointAwready, ChannelsInStep
<1>8. awready'[s] => awLat'[s] = Nil
  BY <1>1, <1>3 DEF Edge, WriteChannelsEdge, JointAwready
<1> QED BY <1>6, <1>7, <1>8

LEMMA EdgeQueue ==
  ASSUME NoSlave \notin WriteTargets, IInv, Edge
  PROVE  QueueBounded'
<1> SUFFICES ASSUME NEW s \in FifoSlaves
             PROVE  /\ Len(queue'[s]) <= Depth
                    /\ push'[s] # Nil => Len(queue'[s]) < Depth
  BY DEF QueueBounded
<1> USE DEF IInv, TypeOK
<1>1. s \in Slaves /\ s \notin JointSlaves
  BY SlavesAssumption
<1>2. queue[s] \in Seq(Words) /\ Len(queue[s]) <= Depth /\ Depth \in Nat
  BY WordsAssumption DEF QueueBounded
<1>3. push[s] # Nil => Len(queue[s]) < Depth
  BY DEF QueueBounded
<1>4. Len(queue'[s]) <= Depth
  BY <1>2, <1>3 DEF Edge, FifoEdge
<1>5. ASSUME push'[s] # Nil PROVE Len(queue'[s]) < Depth
  <2>1. WriteReady(s)
    BY <1>5 DEF Edge, FifoEdge
  <2>2. awLat[s] # Nil
    BY <1>1, <2>1 DEF WriteReady
  <2>3. push[s] = Nil
    BY <1>1, <2>2 DEF QuietElsewhere, WriteQuiet, AccessPhase, WritePhase
  <2>4. Len(queue[s]) # Depth
    BY <1>5, <2>1, <2>3 DEF Edge, FifoEdge
  <2> QED BY <1>2, <2>3, <2>4 DEF Edge, FifoEdge
<1> QED BY <1>4, <1>5

-----------------------------------------------------------------------------
(* A slave whose write side (read side) is not being used stays quiet.     *)
LEMMA EdgeWriteQuiet ==
  ASSUME NoSlave \notin WriteTargets, IInv, Edge,
         NEW s \in Slaves, ~(IsWrite /\ mem.tgt = s)
  PROVE  WriteQuiet(s)'
<1> USE DEF IInv, TypeOK
<1>1. WriteQuiet(s)
  BY DEF QuietElsewhere
<1>2. ~AwHand(s) /\ ~WHand(s) /\ ~(Awvalid /\ mem.tgt = s)
  BY WriteWires DEF AwHand, Awvalid
<1>3. ~WriteReady(s)
  BY <1>1 DEF WriteReady, WriteQuiet
<1>4. /\ ~bvalid'[s]
      /\ s \in JointSlaves => ~awready'[s]
      /\ s \in LatchedSlaves => awLat'[s] = Nil /\ wLat'[s] = Nil
  BY <1>1, <1>2, <1>3 DEF WriteQuiet, Edge, WriteChannelsEdge, JointAwready
<1>5. s \in FifoSlaves => push'[s] = Nil
  BY <1>3 DEF Edge, FifoEdge
<1> QED BY <1>4, <1>5 DEF WriteQuiet

LEMMA EdgeReadQuiet ==
  ASSUME IInv, Edge, NEW s \in Slaves, ~(IsRead /\ mem.tgt = s)
  PROVE  ReadQuiet(s)'
<1> USE DEF IInv, TypeOK
<1>1. ReadQuiet(s)
  BY DEF QuietElsewhere
<1>2. ~ArHand(s)
  BY DEF ArHand, ArSel, Arvalid
<1> QED BY <1>1, <1>2 DEF ReadQuiet, Edge, ReadChannelsEdge

(* With the response taken at this edge, the addressed slave goes quiet.   *)
LEMMA TransferWriteQuiet ==
  ASSUME NoSlave \notin WriteTargets, IInv, Edge, MemReady, IsWrite,
         NEW s \in Slaves, mem.tgt = s
  PROVE  WriteQuiet(s)'
<1> USE DEF IInv, TypeOK
<1>1. bvalid[s]
  BY WriteWires, ReadWires DEF MemReady, IsRead, IsWrite
<1>2. /\ awSeen /\ ~awready[s]
      /\ s \in LatchedSlaves => awLat[s] = Nil /\ wLat[s] = Nil
  BY <1>1 DEF AccessPhase, WritePhase, ChannelsInStep
<1>3. ~Awvalid /\ ~AwHand(s) /\ ~WHand(s)
  BY <1>2, WriteWires DEF Awvalid, AwHand, AcksAgree
<1>4. ~WriteReady(s)
  BY <1>2 DEF WriteReady
<1>5. /\ ~bvalid'[s]
      /\ s \in JointSlaves => ~awready'[s]
      /\ s \in LatchedSlaves => awLat'[s] = Nil /\ wLat'[s] = Nil
  BY <1>2, <1>3, <1>4 DEF Edge, WriteChannelsEdge, JointAwready, Bready
<1>6. s \in FifoSlaves => push'[s] = Nil
  BY <1>4 DEF Edge, FifoEdge
<1> QED BY <1>5, <1>6 DEF WriteQuiet

LEMMA TransferReadQuiet ==
  ASSUME NoSlave \notin WriteTargets, IInv, Edge, MemReady, IsRead,
         NEW s \in Slaves, mem.tgt = s
  PROVE  ReadQuiet(s)'
<1> USE DEF IInv, TypeOK
<1>1. rbuf[s] # Nil
  BY WriteWires, ReadWires, SlavesAssumption
  DEF MemReady, IsRead, IsWrite, AcksAgree
<1>2. /\ ackAr
      /\ s \in FifoSlaves => ~rdEn[s] /\ ~rdPend[s] /\ ~rdBusy[s]
  BY <1>1 DEF AccessPhase, ReadPhase, ReadQuiet
<1>3. ~ArHand(s)
  BY <1>2 DEF ArHand, ArSel, Arvalid
<1> QED BY <1>2, <1>3 DEF ReadQuiet, Edge, ReadChannelsEdge, Rready

(* With no response yet, the access moves on to its next phase.            *)
LEMMA WaitWritePhase ==
  ASSUME NoSlave \notin WriteTargets, IInv, Edge, ~MemReady, IsWrite,
         mem' = mem, NEW s \in Slaves, mem.tgt = s
  PROVE  WritePhase(s)'
<1> USE DEF IInv, TypeOK
<1>1. ~Mbvalid /\ ~bvalid[s]
  BY WriteWires DEF MemReady
<1>2. awSeen' = (awSeen \/ AwHand(s))
  BY <1>1, WriteWires DEF Edge, WriteRouteEdge, AwHand
<1>3. CASE awSeen
  <2>1. /\ ~awready[s] /\ s \in LatchedSlaves
        /\ awLat[s] = mem.port
        /\ wLat[s] = [data |-> mem.data, strb |-> mem.strb]
    BY <1>1, <1>3 DEF AccessPhase, WritePhase
  <2>2. s \notin JointSlaves /\ ~AwHand(s) /\ ~WHand(s) /\ WriteReady(s)
    BY <2>1, WriteWires, SlavesAssumption, AccessType, WordsAssumption
    DEF AwHand, WriteReady
  <2>3. awSeen' /\ ~awready'[s] /\ bvalid'[s] /\ awLat'[s] = Nil
    BY <1>2, <1>3, <2>1, <2>2, AccessType, WordsAssumption
    DEF Edge, WriteChannelsEdge, JointAwready
  <2> QED BY <2>3 DEF WritePhase
<1>4. CASE ~awSeen
  <2>1. /\ s \in LatchedSlaves => awLat[s] = Nil /\ wLat[s] = Nil
        /\ s \in FifoSlaves => push[s] = Nil
    BY <1>4 DEF AccessPhase, WritePhase, ChannelsInStep
  <2>2. Awvalid /\ (AwHand(s) <=> awready[s]) /\ (WHand(s) <=> awready[s])
    BY <1>4, WriteWires DEF Awvalid, AwHand, AcksAgree
  <2>3. CASE s \in JointSlaves
    <3>1. s \notin LatchedSlaves /\ s \notin FifoSlaves
      BY <2>3, SlavesAssumption
    <3>2. CASE awready[s]
      BY <1>2, <2>2, <2>3, <3>1, <3>2
      DEF Edge, WriteChannelsEdge, JointAwready, WriteReady, WritePhase
    <3>3. CASE ~awready[s]
      BY <1>1, <1>2, <1>4, <2>2, <2>3, <3>1, <3>3
      DEF Edge, WriteChannelsEdge, JointAwready, WriteReady, WritePhase
    <3> QED BY <3>2, <3>3
  <2>4. CASE s \in LatchedSlaves
    <3>1. s \notin JointSlaves /\ ~WriteReady(s)
      BY <2>1, <2>4, SlavesAssumption DEF WriteReady
    <3>2. ~bvalid'[s] /\ (s \in FifoSlaves => push'[s] = Nil)
      BY <1>1, <3>1 DEF Edge, WriteChannelsEdge, JointAwready, FifoEdge
    <3>3. CASE awready[s]
      BY <1>2, <2>2, <2>4, <3>1, <3>2, <3>3
      DEF Edge, WriteChannelsEdge, JointAwready, WritePhase
    <3>4. CASE ~awready[s]
      BY <1>2, <1>4, <2>1, <2>2, <2>4, <3>1, <3>2, <3>4
      DEF Edge, WriteChannelsEdge, JointAwready, WritePhase
    <3> QED BY <3>3, <3>4
  <2> QED BY <2>3, <2>4
<1> QED BY <1>3, <1>4

LEMMA WaitReadPhase ==
  ASSUME IInv, Edge, ~MemReady, IsRead,
         mem' = mem, NEW s \in Slaves, mem.tgt = s
  PROVE  ReadPhase(s)'
<1> USE DEF IInv, TypeOK
<1>1. rbuf[s] = Nil
  BY DEF MemReady, Mrvalid
<1>2. ackAr' = (ackAr \/ Arvalid)
  BY ReadWires DEF Edge, AdapterEdge, AcksAgree, IsRead
<1>3. ArHand(s) <=> ~ackAr
  BY ReadWires DEF Arvalid
<1>4. CASE ackAr
  BY <1>1, <1>2, <1>3, <1>4, WordsAssumption
  DEF AccessPhase, ReadPhase, Edge, ReadChannelsEdge
<1>5. CASE ~ackAr
  <2>1. ReadQuiet(s) /\ ArHand(s) /\ ackAr' /\ mem.port \in BOOLEAN
    BY <1>2, <1>3, <1>5, AccessType
    DEF AccessPhase, ReadPhase, Arvalid
  <2>2. CASE mem.port
    BY <2>1, <2>2, AccessType
    DEF ReadQuiet, ReadPhase, Edge, ReadChannelsEdge
  <2>3. CASE ~mem.port
    BY <2>1, <2>3, WordsAssumption
    DEF ReadQuiet, ReadPhase, Edge, ReadChannelsEdge
  <2> QED BY <2>1, <2>2, <2>3
<1> QED BY <1>4, <1>5

(* The registers of adapter and interconnect at an edge of each kind.      *)
LEMMA IdleAcks ==
  ASSUME NoSlave \notin WriteTargets, IInv, Edge, ~memValid
  PROVE  /\ ~ackAw' /\ ~ackW' /\ ~ackAr' /\ ~xferDone'
         /\ ~awSeen' /\ ~wSeen' /\ ~defB' /\ ~defR'
         /\ \A s \in FifoSlaves : arready'[s]
<1> USE DEF IInv, TypeOK
<1>1. ~IsWrite /\ ~IsRead /\ ~Awvalid /\ ~Wvalid /\ ~Arvalid
  BY DEF IsWrite, IsRead, Awvalid, Wvalid, Arvalid
<1>2. ~ackAw' /\ ~ackW' /\ ~ackAr' /\ ~xferDone'
  BY DEF Edge, AdapterEdge
<1>3. ~awSeen' /\ ~wSeen' /\ ~defB' /\ ~defR'
  BY <1>1 DEF Edge, WriteRouteEdge, DefaultSlaveEdge, AcksAgree, ArSel
<1>4. ASSUME NEW s \in FifoSlaves PROVE arready'[s]
  BY <1>1 DEF Edge, ReadChannelsEdge, QuietElsewhere, ReadQuiet,
              ArHand, ArSel
<1> QED BY <1>2, <1>3, <1>4

LEMMA WaitAcks ==
  ASSUME NoSlave \notin WriteTargets, IInv, Wait
  PROVE  AcksAgree'
<1> USE DEF IInv, TypeOK, Wait, cpuVars
<1>1. /\ ~xferDone'
      /\ IsWrite' = IsWrite /\ IsRead' = IsRead
      /\ ackAw' = (ackAw \/ (Awvalid /\ MAwready))
      /\ ackW' = (ackW \/ (Wvalid /\ MWready))
      /\ ackAr' = (ackAr \/ (Arvalid /\ MArready))
  BY DEF Edge, AdapterEdge, AcksAgree, IsWrite, IsRead
<1>2. ~Mbvalid /\ ~defR
  BY DEF MemReady, Mrvalid
<1>3. /\ awSeen' = (awSeen \/ (Awvalid /\ MAwready))
      /\ wSeen' = (wSeen \/ (Wvalid /\ MWready))
      /\ Awvalid /\ MAwready => selQ' = mem.tgt
      /\ ~(Awvalid /\ MAwready) => selQ' = selQ
  BY <1>2, WriteWires DEF Edge, WriteRouteEdge
<1>4. IsWrite => ackAw' = awSeen' /\ ackW' = wSeen' /\ awSeen' = wSeen'
  BY <1>1, <1>3, WriteWires DEF AcksAgree
<1>5. ~IsWrite => ~awSeen' /\ ~wSeen'
  BY <1>3 DEF AcksAgree, Awvalid, Wvalid
<1>6. awSeen' => selQ' = mem.tgt
  BY <1>3 DEF AcksAgree
<1>7. ~defB'
  <2>1. CASE IsWrite
    BY <2>1, WriteWires, SlavesAssumption
    DEF Edge, DefaultSlaveEdge, AcksAgree, WSel, Captured
  <2>2. CASE ~IsWrite
    BY <2>2 DEF Edge, DefaultSlaveEdge, AcksAgree
  <2> QED BY <2>1, <2>2
<1>8. defR' <=> IsRead /\ mem.tgt = NoSlave /\ ackAr'
  BY <1>1, <1>2, ReadWires
  DEF Edge, DefaultSlaveEdge, AcksAgree, ArSel, Arvalid
<1> QED BY <1>1, <1>4, <1>5, <1>6, <1>7, <1>8 DEF AcksAgree

LEMMA TransferAcks ==
  ASSUME NoSlave \notin WriteTargets, IInv, Transfer
  PROVE  AcksAgree'
<1> USE DEF IInv, TypeOK, Transfer
<1>1. ~IsWrite' /\ ~IsRead'
  BY DEF IsWrite, IsRead
<1>2. CASE IsWrite
  <2>1. Mbvalid /\ Bready /\ ~IsRead
    BY <1>2, ReadWires DEF MemReady, Bready, IsRead, IsWrite
  <2>2. ~awSeen' /\ ~wSeen'
    BY <2>1 DEF Edge, WriteRouteEdge
  <2>3. ~defB' /\ ~defR'
    BY <1>2, <2>1, WriteWires, SlavesAssumption
    DEF Edge, DefaultSlaveEdge, AcksAgree, WSel, Captured, ArSel, Arvalid
  <2> QED BY <1>1, <2>2, <2>3 DEF AcksAgree
<1>3. CASE ~IsWrite
  <2>1. IsRead /\ ~Awvalid /\ ~Wvalid /\ ~Mbvalid
    BY <1>3, WriteWires DEF IsRead, IsWrite, Awvalid, Wvalid
  <2>2. ~awSeen' /\ ~wSeen' /\ ~defB'
    BY <1>3, <2>1 DEF Edge, WriteRouteEdge, DefaultSlaveEdge, AcksAgree
  <2>3. ackAr
    BY <2>1, ReadWires
    DEF MemReady, AcksAgree, AccessPhase, ReadPhase, ReadQuiet
  <2>4. ~defR'
    BY <2>1, <2>3 DEF Edge, DefaultSlaveEdge, ArSel, Arvalid, Rready
  <2> QED BY <1>1, <2>2, <2>4 DEF AcksAgree
<1> QED BY <1>2, <1>3

LEMMA WaitReadyAhead ==
  ASSUME NoSlave \notin WriteTargets, IInv, Wait
  PROVE  ReadyAhead'
<1> USE DEF IInv, TypeOK, Wait, cpuVars
<1> SUFFICES ASSUME NEW s \in FifoSlaves, ~(IsRead /\ mem.tgt = s /\ ackAr')
             PROVE  arready'[s]
  BY DEF ReadyAhead, IsRead
<1>1. ackAr' = (ackAr \/ Arvalid)
  BY ReadWires DEF Edge, AdapterEdge, AcksAgree
<1>2. ~ArHand(s) /\ ~(IsRead /\ mem.tgt = s)
  BY <1>1, ReadWires DEF Arvalid
<1>3. rbuf[s] = Nil /\ ~rdBusy[s]
  BY <1>2 DEF QuietElsewhere, ReadQuiet
<1> QED BY <1>2, <1>3 DEF Edge, ReadChannelsEdge

(* Every kind of step preserves the inductive invariant.                   *)
LEMMA NextIInv ==
  ASSUME NoSlave \notin WriteTargets, IInv, [Next]_vars
  PROVE  IInv'
<1>t. TypeOK'
  BY NextTypeOK DEF IInv
<1>e. ASSUME Edge PROVE ChannelsInStep' /\ QueueBounded'
  BY <1>e, EdgeChannels, EdgeQueue
<1>1. CASE Idle
  <2>1. Edge /\ ~memValid /\ ~memValid'
    BY <1>1 DEF Idle, cpuVars
  <2>2. QuietElsewhere'
    BY <2>1, EdgeWriteQuiet, EdgeReadQuiet
    DEF QuietElsewhere, IsWrite, IsRead
  <2>3. AcksAgree'
    BY <1>t, <2>1, IdleAcks DEF AcksAgree, IsWrite, IsRead, TypeOK
  <2>4. AccessPhase' /\ ReadyAhead'
    BY <2>1 DEF AccessPhase, ReadyAhead, IsWrite, IsRead
  <2> QED BY <1>t, <1>e, <2>1, <2>2, <2>3, <2>4 DEF IInv
<1>2. ASSUME NEW a \in Accesses, Issue(a) PROVE IInv'
  <2>1. Edge /\ ~memValid /\ memValid'
    BY <1>2 DEF Issue
  <2>2. \A s \in Slaves : WriteQuiet(s)' /\ ReadQuiet(s)'
    BY <2>1, EdgeWriteQuiet, EdgeReadQuiet DEF IsWrite, IsRead
  <2>3. AcksAgree'
    BY <1>t, <2>1, IdleAcks DEF AcksAgree, IsWrite, IsRead, TypeOK
  <2>4. AccessPhase' /\ ReadyAhead'
    BY <2>1, <2>2, IdleAcks
    DEF AccessPhase, ReadyAhead, WritePhase, ReadPhase, WriteQuiet
  <2> QED BY <1>t, <1>e, <2>1, <2>2, <2>3, <2>4 DEF IInv, QuietElsewhere
<1>3. CASE Wait
  <2>1. Edge /\ ~MemReady /\ mem' = mem
        /\ IsWrite' = IsWrite /\ IsRead' = IsRead
    BY <1>3 DEF Wait, cpuVars, IsWrite, IsRead
  <2>2. QuietElsewhere'
    BY <2>1, EdgeWriteQuiet, EdgeReadQuiet DEF QuietElsewhere
  <2>3. AccessPhase'
    BY <2>1, WaitWritePhase, WaitReadPhase DEF AccessPhase
  <2> QED BY <1>3, <1>t, <1>e, <2>1, <2>2, <2>3, WaitAcks, WaitReadyAhead
          DEF IInv
<1>4. CASE Transfer
  <2>1. Edge /\ MemReady /\ ~memValid'
    BY <1>4 DEF Transfer
  <2>2. QuietElsewhere'
    <3> SUFFICES ASSUME NEW s \in Slaves
                 PROVE  WriteQuiet(s)' /\ ReadQuiet(s)'
      BY DEF QuietElsewhere
    <3>1. WriteQuiet(s)'
      BY <2>1, EdgeWriteQuiet, TransferWriteQuiet
    <3>2. ReadQuiet(s)'
      BY <2>1, EdgeReadQuiet, TransferReadQuiet
    <3> QED BY <3>1, <3>2
  <2>3. AccessPhase' /\ ReadyAhead'
    BY <2>1 DEF AccessPhase, ReadyAhead, IsWrite, IsRead
  <2> QED BY <1>4, <1>t, <1>e, <2>1, <2>2, <2>3, TransferAcks DEF IInv
<1>5. CASE UNCHANGED vars
  <2>1. UNCHANGED <<memValid, mem, memRdataQ, ackAw, ackW, ackAr, xferDone,
                    selQ, awSeen, wSeen, defB, defR, awready, wready, awLat,
                    wLat, bvalid, arready, rdEn, rdPend, rdBusy, rbuf, regs,
                    queue, push, dout>>
    BY <1>5 DEF vars, cpuVars, adapterVars, interconnectVars, slaveVars
  <2> QED BY <2>1, <1>t
          DEF IInv, QuietElsewhere, WriteQuiet, ReadQuiet, AcksAgree,
              ChannelsInStep, AccessPhase, WritePhase, ReadPhase,
              ReadyAhead, QueueBounded, IsWrite, IsRead
<1> QED BY <1>1, <1>2, <1>3, <1>4, <1>5 DEF Next

-----------------------------------------------------------------------------
(* The account of the bus phase by phase holds in every reachable state,   *)
(* provided the program stores to mapped addresses only.                   *)
THEOREM BusInvariant ==
  ASSUME NoSlave \notin WriteTargets
  PROVE  Spec => []IInv
<1>1. Init => IInv
  BY InitIInv
<1>2. IInv /\ [Next]_vars => IInv'
  BY NextIInv
<1> QED BY <1>1, <1>2, PTL DEF Spec

(* Every response the adapter sees belongs to the outstanding access: no   *)
(* access is completed by a left-over response or by another slave.        *)
THEOREM ResponsesMatch ==
  ASSUME NoSlave \notin WriteTargets
  PROVE  Spec => []ResponseMatchesAccess
<1>1. IInv => ResponseMatchesAccess
  <2> SUFFICES ASSUME IInv PROVE ResponseMatchesAccess
    OBVIOUS
  <2> USE DEF IInv, TypeOK
  <2>1. ASSUME NEW s \in Slaves, bvalid[s]
        PROVE  IsWrite /\ mem.tgt = s /\ awSeen /\ wSeen
    BY <2>1 DEF QuietElsewhere, WriteQuiet, AccessPhase, WritePhase, AcksAgree
  <2>2. ASSUME NEW s \in Slaves, rbuf[s] # Nil
        PROVE  IsRead /\ mem.tgt = s /\ ackAr
    BY <2>2 DEF QuietElsewhere, ReadQuiet, AccessPhase, ReadPhase
  <2> QED BY <2>1, <2>2 DEF ResponseMatchesAccess, AcksAgree
<1> QED BY <1>1, BusInvariant, PTL

(* No slave overwrites an address or a data word it has latched.           *)
THEOREM LatchesSafe ==
  ASSUME NoSlave \notin WriteTargets
  PROVE  Spec => []LatchNotOverwritten
<1>1. IInv => LatchNotOverwritten
  <2> SUFFICES ASSUME IInv, NEW s \in LatchedSlaves, AwHand(s) \/ WHand(s)
               PROVE  awLat[s] = Nil /\ wLat[s] = Nil
    BY DEF LatchNotOverwritten
  <2>1. awready[s]
    BY SlavesAssumption DEF AwHand, WHand, Wready, IInv, ChannelsInStep
  <2> QED BY <2>1 DEF IInv, ChannelsInStep
<1> QED BY <1>1, BusInvariant, PTL

(* A pop of a FIFO behind the bus is always one half of an accepted read.  *)
THEOREM PopsAccepted ==
  ASSUME NoSlave \notin WriteTargets
  PROVE  Spec => []PopIsAccepted
<1>1. IInv => PopIsAccepted
  BY ReadWires DEF PopIsAccepted, RdEn, ArSel
<1> QED BY <1>1, BusInvariant, PTL

-----------------------------------------------------------------------------
(* The refinement of MemPort, one lemma for each kind of step.             *)
AnswerFacts ==
  /\ ~(IsRead /\ ackAr) => Answer = Zero
  /\ IsRead /\ mem.tgt = NoSlave => Answer = Zero
  /\ \A s \in Slaves : IsRead /\ mem.tgt = s /\ rbuf[s] # Nil
                         => Answer = rbuf[s]
  /\ \A s \in FifoSlaves : Popped(s) => Answer = dout[s]
  /\ Performed <=> (IsWrite /\ bvalid[mem.tgt]) \/ (IsRead /\ ackAr)

(* What the processor would be given, and whether the access has taken     *)
(* effect, in a state of the invariant.                                    *)
LEMMA AnswerLemma ==
  ASSUME NoSlave \notin WriteTargets
  PROVE  IInv => AnswerFacts
<1> SUFFICES ASSUME IInv PROVE AnswerFacts
  OBVIOUS
<1> USE DEF IInv, TypeOK
<1>1. ASSUME NEW s \in FifoSlaves, Popped(s)
      PROVE  IsRead /\ mem.tgt = s /\ ackAr /\ rbuf[s] = Nil
  BY <1>1 DEF Popped, QuietElsewhere, AccessPhase, ReadPhase, ReadQuiet
<1>2. ASSUME NEW s \in Slaves, rbuf[s] # Nil
      PROVE  IsRead /\ mem.tgt = s /\ ackAr
  BY <1>2 DEF QuietElsewhere, AccessPhase, ReadPhase, ReadQuiet
<1>3. ASSUME NEW s \in Slaves, rbuf[s] # Nil PROVE Answer = rbuf[s]
  <2>1. \A r \in FifoSlaves : ~Popped(r)
    BY <1>1, <1>2, <1>3
  <2>2. \A r \in Slaves : rbuf[r] # Nil <=> r = s
    BY <1>2, <1>3
  <2> QED BY <2>1, <2>2 DEF Answer, Rdata
<1>4. ASSUME NEW s \in FifoSlaves, Popped(s) PROVE Answer = dout[s]
  <2>1. \A r \in FifoSlaves : Popped(r) <=> r = s
    BY <1>1, <1>4
  <2> QED BY <2>1 DEF Answer
<1>5. ~(IsRead /\ ackAr) => Answer = Zero
  BY <1>1, <1>2 DEF Answer, Rdata
<1>6. IsRead /\ mem.tgt = NoSlave => Answer = Zero
  BY <1>1, <1>2, SlavesAssumption DEF Answer, Rdata
<1>7. Performed <=> (IsWrite /\ bvalid[mem.tgt]) \/ (IsRead /\ ackAr)
  <2>1. CASE IsRead /\ ackAr
    <3>1. CASE mem.tgt \in Slaves
      BY <2>1, <3>1 DEF AccessPhase, ReadPhase, Performed, Popped,
                        MemReady, Mrvalid
    <3>2. CASE mem.tgt = NoSlave
      BY <2>1, <3>2 DEF AcksAgree, Performed, MemReady, Mrvalid
    <3> QED BY <2>1, <3>1, <3>2, AccessType
  <2>2. CASE ~(IsRead /\ ackAr)
    BY <2>2, <1>1, <1>2, WriteWires DEF Performed, MemReady, Mrvalid, AcksAgree
  <2> QED BY <2>1, <2>2
<1> QED BY <1>3, <1>4, <1>5, <1>6, <1>7 DEF AnswerFacts

(* How the contents of a FIFO, with the word on its way into it, change.   *)
LEMMA StoredStep ==
  ASSUME NoSlave \notin WriteTargets, IInv, Edge, NEW s \in FifoSlaves
  PROVE  /\ ~RdEn(s) /\ ~WriteReady(s) => Stored'[s] = Stored[s]
         /\ RdEn(s) =>
              /\ Stored[s] = queue[s]
              /\ Stored'[s] = IF queue[s] = <<>> THEN <<>> ELSE Tail(queue[s])
              /\ dout'[s] = IF queue[s] = <<>> THEN Filler ELSE Head(queue[s])
         /\ WriteReady(s) =>
              /\ Stored[s] = queue[s]
              /\ Stored'[s] = IF mem.port /\ Len(queue[s]) # Depth
                              THEN Append(queue[s], mem.data) ELSE queue[s]
<1> USE DEF IInv, TypeOK
<1>1. s \in Slaves /\ s \notin JointSlaves
  BY SlavesAssumption
<1>2. /\ queue[s] \in Seq(Words) /\ Depth \in Nat
      /\ push[s] # Nil => Len(queue[s]) # Depth
  BY WordsAssumption DEF QueueBounded
<1>3. ASSUME push[s] # Nil PROVE ~RdEn(s) /\ ~WriteReady(s)
  <2>1. IsWrite /\ mem.tgt = s
    BY <1>1, <1>3 DEF QuietElsewhere, WriteQuiet
  <2>2. awLat[s] = Nil
    BY <1>1, <1>3, <2>1 DEF AccessPhase, WritePhase
  <2> QED BY <1>1, <2>1, <2>2 DEF WriteReady, RdEn, ArSel, Arvalid,
                                  IsRead, IsWrite
<1>4. ASSUME WriteReady(s)
      PROVE  /\ awLat[s] = mem.port /\ mem.port \in BOOLEAN /\ ~RdEn(s)
             /\ wLat[s].data = mem.data /\ mem.data # Nil
  <2>1. awLat[s] # Nil
    BY <1>1, <1>4 DEF WriteReady
  <2>2. IsWrite /\ mem.tgt = s
    BY <1>1, <2>1 DEF QuietElsewhere, WriteQuiet
  <2> QED BY <1>1, <2>1, <2>2, AccessType, WordsAssumption
          DEF AccessPhase, WritePhase, RdEn, ArSel, Arvalid, IsRead, IsWrite
<1>5. ~RdEn(s) /\ ~WriteReady(s) => Stored'[s] = Stored[s]
  BY <1>2 DEF Stored, Edge, FifoEdge
<1>6. ASSUME RdEn(s)
      PROVE  /\ Stored[s] = queue[s]
             /\ Stored'[s] = IF queue[s] = <<>> THEN <<>> ELSE Tail(queue[s])
             /\ dout'[s] = IF queue[s] = <<>> THEN Filler ELSE Head(queue[s])
  <2>1. push[s] = Nil /\ ~WriteReady(s)
    BY <1>3, <1>4, <1>6
  <2> QED BY <1>2, <1>6, <2>1 DEF Stored, Edge, FifoEdge
<1>7. ASSUME WriteReady(s)
      PROVE  /\ Stored[s] = queue[s]
             /\ Stored'[s] = IF mem.port /\ Len(queue[s]) # Depth
                             THEN Append(queue[s], mem.data) ELSE queue[s]
  <2>1. push[s] = Nil /\ ~RdEn(s)
    BY <1>3, <1>4, <1>7
  <2>2. queue'[s] = queue[s]
    BY <2>1 DEF Edge, FifoEdge
  <2>3. push'[s] = IF mem.port /\ Len(queue[s]) # Depth
                   THEN mem.data ELSE Nil
    BY <1>4, <1>7, <2>1 DEF Edge, FifoEdge
  <2> QED BY <1>4, <1>7, <2>1, <2>2, <2>3 DEF Stored
<1> QED BY <1>5, <1>6, <1>7

(* A write fires in one slave at most, the addressed one, and is answered  *)
(* in the next cycle; its effect on the registers is that of a strobed     *)
(* store.                                                                  *)
LEMMA WriteFires ==
  ASSUME NoSlave \notin WriteTargets, IInv, Edge,
         NEW s \in Slaves, WriteReady(s)
  PROVE  /\ IsWrite /\ mem.tgt = s /\ ~bvalid[s] /\ bvalid'[s]
         /\ regs' = IF mem.port THEN regs
                    ELSE [regs EXCEPT ![s] = ApplyStrb(@, mem.data, mem.strb)]
<1> USE DEF IInv, TypeOK
<1>1. IsWrite /\ mem.tgt = s
  BY DEF QuietElsewhere, WriteQuiet, WriteReady
<1>2. ~bvalid[s]
  BY <1>1, SlavesAssumption DEF AccessPhase, WritePhase, WriteReady
<1>3. bvalid'[s]
  BY DEF Edge, WriteChannelsEdge, JointAwready
<1>4. \A r \in Slaves : WriteReady(r) <=> r = s
  BY <1>1 DEF QuietElsewhere, WriteQuiet, WriteReady
<1>5. CASE s \in JointSlaves
  <2>1. ~mem.port
    BY <1>1, <1>5, AccessType, SlavesAssumption
  <2>2. regs' = [r \in Slaves |->
                   IF r = s THEN ApplyStrb(regs[s], mem.data, mem.strb)
                   ELSE regs[r]]
    BY <1>4, <1>5 DEF Edge, RegistersEdge
  <2> QED BY <1>1, <1>2, <1>3, <2>1, <2>2
<1>6. CASE s \notin JointSlaves
  <2>1. /\ awLat[s] = mem.port /\ mem.port \in BOOLEAN
        /\ wLat[s].data = mem.data /\ wLat[s].strb = mem.strb
    BY <1>1, <1>2, <1>6, AccessType DEF WriteReady, AccessPhase, WritePhase
  <2>2. regs' = [r \in Slaves |->
                   IF r = s /\ ~mem.port
                   THEN ApplyStrb(regs[s], mem.data, mem.strb)
                   ELSE regs[r]]
    BY <1>4, <1>6, <2>1 DEF Edge, RegistersEdge
  <2> QED BY <1>1, <1>2, <1>3, <2>1, <2>2
<1> QED BY <1>5, <1>6

LEMMA NoWriteFires ==
  ASSUME NoSlave \notin WriteTargets, IInv, Edge,
         \A s \in Slaves : ~WriteReady(s)
  PROVE  /\ regs' = regs
         /\ \A s \in Slaves : bvalid'[s] => bvalid[s]
BY DEF IInv, TypeOK, Edge, RegistersEdge, WriteChannelsEdge, JointAwready

(* The port as MemPort sees it.                                            *)
AbsReq == IF memValid THEN mem ELSE Nil
AbsUnchanged == /\ AbsReq' = AbsReq /\ Performed' = Performed
                /\ Answer' = Answer /\ memRdataQ' = memRdataQ
                /\ regs' = regs /\ Stored' = Stored

(* MemPort's copies of the shared vocabulary are the vocabulary.           *)
LEMMA PortVocabulary ==
  /\ Port!Slaves = Slaves /\ Port!LatchedSlaves = LatchedSlaves
  /\ Port!Zero = Zero /\ Port!Words = Words
  /\ Port!Accesses = Accesses /\ Port!ResetRegs = ResetRegs
  /\ \A old, new, strb : Port!ApplyStrb(old, new, strb)
                             = ApplyStrb(old, new, strb)
BY DEF Port!Slaves, Port!LatchedSlaves, Zero, Port!Zero, Words, Port!Words,
       Reads, Port!Reads, Writes, Port!Writes, Accesses, Port!Accesses,
       ResetRegs, Port!ResetRegs, ApplyStrb, Port!ApplyStrb

LEMMA RefineInit == Init => Port!Init
<1> SUFFICES ASSUME Init PROVE Port!Init
  OBVIOUS
<1>1. ~Performed
  BY DEF Init, Performed, MemReady, Mbvalid, Mrvalid, Popped
<1>2. Answer = Zero
  BY DEF Init, Answer, Rdata, Popped
<1>3. Stored = [s \in FifoSlaves |-> <<>>]
  BY DEF Init, Stored
<1> QED BY <1>1, <1>2, <1>3, PortVocabulary DEF Init, Port!Init

LEMMA RefineIdle ==
  ASSUME NoSlave \notin WriteTargets, IInv, Idle, AnswerFacts, AnswerFacts'
  PROVE  AbsUnchanged
<1> USE DEF IInv, TypeOK
<1>1. ~memValid /\ ~memValid' /\ memRdataQ' = memRdataQ /\ mem' = mem /\ Edge
  BY DEF Idle, cpuVars
<1>2. \A s \in Slaves : ~WriteReady(s) /\ ~RdEn(s)
  BY <1>1, WriteFires DEF IsWrite, RdEn, ArSel, Arvalid, IsRead
<1>3. regs' = regs
  BY <1>1, <1>2, NoWriteFires
<1>4. Stored' = Stored
  BY <1>1, <1>2, StoredStep DEF Stored
<1>5. Performed' = Performed /\ Answer' = Answer
  BY <1>1 DEF AnswerFacts, IsWrite, IsRead, Performed
<1> QED BY <1>1, <1>3, <1>4, <1>5 DEF AbsUnchanged, AbsReq

LEMMA RefineIssue ==
  ASSUME NoSlave \notin WriteTargets, IInv, NEW a \in Accesses, Issue(a),
         IInv', AnswerFacts, AnswerFacts'
  PROVE  Port!Start
<1> USE DEF IInv, TypeOK
<1>1. /\ ~memValid /\ memValid' /\ mem' = a
      /\ memRdataQ' = memRdataQ /\ Edge
  BY DEF Issue
<1>2. \A s \in Slaves : ~WriteReady(s) /\ ~RdEn(s)
  BY <1>1, WriteFires DEF IsWrite, RdEn, ArSel, Arvalid, IsRead
<1>3. regs' = regs
  BY <1>1, <1>2, NoWriteFires
<1>4. Stored' = Stored
  BY <1>1, <1>2, StoredStep DEF Stored
<1>5. ~ackAr' /\ \A s \in Slaves : ~bvalid'[s]
  BY <1>1, IdleAcks, EdgeWriteQuiet DEF IsWrite, WriteQuiet
<1>6. IsWrite' => mem'.tgt \in Slaves
  BY <1>1, AccessType, SlavesAssumption DEF IsWrite
<1>7. ~Performed /\ ~Performed' /\ Answer = Zero /\ Answer' = Zero
  BY <1>1, <1>5, <1>6 DEF AnswerFacts, IsWrite, IsRead
<1>8. Performed' = Performed
  BY <1>7 DEF Performed
<1> QED BY <1>1, <1>3, <1>4, <1>7, <1>8, PortVocabulary DEF Port!Start

LEMMA RefineTransfer ==
  ASSUME NoSlave \notin WriteTargets, IInv, Transfer,
         AnswerFacts, AnswerFacts'
  PROVE  Port!Complete
<1> USE DEF IInv, TypeOK
<1>1. /\ memValid /\ ~memValid' /\ memRdataQ' = Rdata /\ Edge /\ MemReady
      /\ mem \in Accesses
  BY DEF Transfer
<1>2. IsWrite => bvalid[mem.tgt] /\ mem.tgt \in Slaves
  BY <1>1, WriteWires, ReadWires DEF MemReady, IsRead, IsWrite
<1>3. IsRead => ackAr
  BY <1>1, WriteWires, ReadWires
  DEF MemReady, IsRead, IsWrite, AcksAgree, AccessPhase, ReadPhase, ReadQuiet
<1>4. \A s \in Slaves : ~WriteReady(s) /\ ~RdEn(s)
  BY <1>1, <1>2, <1>3, WriteFires DEF RdEn, ArSel, Arvalid
<1>5. regs' = regs
  BY <1>1, <1>4, NoWriteFires
<1>6. Stored' = Stored
  BY <1>1, <1>4, StoredStep DEF Stored
<1>7. \A s \in FifoSlaves : ~Popped(s)
  BY <1>1, WriteWires, ReadWires, SlavesAssumption
  DEF MemReady, QuietElsewhere, ReadQuiet, AccessPhase, ReadPhase, Popped,
      AcksAgree, IsRead, IsWrite
<1>8. Answer = Rdata
  BY <1>7 DEF Answer
<1>9. Performed /\ Performed' = FALSE /\ Answer' = Zero
  BY <1>1 DEF AnswerFacts, IsWrite, IsRead, Performed
<1>10. mem # Nil
  BY <1>1, NilAssumption
<1> QED BY <1>1, <1>5, <1>6, <1>8, <1>9, <1>10, PortVocabulary
        DEF Port!Complete

(* A store takes effect when it fires in its slave.                        *)
LEMMA RefineStore ==
  ASSUME NoSlave \notin WriteTargets, IInv, Wait, AnswerFacts, AnswerFacts',
         NEW s \in Slaves, WriteReady(s)
  PROVE  Port!Perform
<1> USE DEF IInv, TypeOK
<1>1. /\ memValid /\ memValid' = memValid /\ mem' = mem
      /\ memRdataQ' = memRdataQ /\ Edge /\ mem \in Accesses
  BY DEF Wait, cpuVars
<1>2. /\ IsWrite /\ mem.tgt = s /\ ~bvalid[s] /\ bvalid'[s]
      /\ regs' = IF mem.port THEN regs
                 ELSE [regs EXCEPT ![s] = ApplyStrb(@, mem.data, mem.strb)]
  BY <1>1, WriteFires
<1>3. /\ IsWrite' /\ ~IsRead /\ ~IsRead' /\ mem.strb # {}
      /\ s # NoSlave /\ mem # Nil /\ mem.port \in BOOLEAN
      /\ mem.port => s \in FifoSlaves
  BY <1>1, <1>2, SlavesAssumption, NilAssumption, AccessType
  DEF IsWrite, IsRead
<1>4. ~Performed /\ Answer = Zero /\ Answer' = Zero
  BY <1>1, <1>2, <1>3 DEF AnswerFacts
<1>5. Performed' = TRUE
  BY <1>1, <1>2, <1>3 DEF AnswerFacts, Performed
<1>6. \A r \in FifoSlaves : /\ ~RdEn(r)
                            /\ WriteReady(r) <=> r = s
  BY <1>1, <1>2, <1>3, WriteFires DEF RdEn, ArSel, Arvalid
<1>7. CASE mem.port
  <2>1. /\ s \in FifoSlaves /\ Stored[s] = queue[s]
        /\ Stored'[s] = IF Len(queue[s]) # Depth
                        THEN Append(queue[s], mem.data) ELSE queue[s]
    BY <1>1, <1>3, <1>6, <1>7, StoredStep
  <2>2. \A r \in FifoSlaves : r # s => Stored'[r] = Stored[r]
    BY <1>1, <1>6, StoredStep
  <2>3. Stored' = IF Len(Stored[s]) = Depth THEN Stored
                  ELSE [Stored EXCEPT ![s] = Append(@, mem.data)]
    BY <2>1, <2>2 DEF Stored
  <2>4. Port!Store
    BY <1>1, <1>2, <1>4, <1>7, <2>3 DEF Port!Store
  <2> QED BY <1>1, <1>3, <1>4, <1>5, <2>4 DEF Port!Perform
<1>8. CASE ~mem.port
  <2>1. \A r \in FifoSlaves : Stored'[r] = Stored[r]
    BY <1>1, <1>6, <1>8, StoredStep
  <2>2. Stored' = Stored
    BY <2>1 DEF Stored
  <2>3. Port!Store
    BY <1>1, <1>2, <1>3, <1>4, <1>8, <2>2, PortVocabulary DEF Port!Store
  <2> QED BY <1>1, <1>3, <1>4, <1>5, <2>3 DEF Port!Perform
<1> QED BY <1>3, <1>7, <1>8

(* A load takes effect when its address is accepted.                       *)
LEMMA RefineLoad ==
  ASSUME NoSlave \notin WriteTargets, IInv, Wait, IInv',
         AnswerFacts, AnswerFacts', Arvalid
  PROVE  Port!Perform
<1> USE DEF IInv, TypeOK
<1>1. /\ memValid /\ memValid' = memValid /\ mem' = mem
      /\ memRdataQ' = memRdataQ /\ Edge /\ mem \in Accesses
      /\ IsRead /\ ~IsWrite /\ IsRead' /\ ~IsWrite' /\ ~ackAr
      /\ mem.strb = {} /\ mem # Nil
  BY NilAssumption DEF Wait, cpuVars, Arvalid, IsRead, IsWrite
<1>2. ackAr'
  BY <1>1, ReadWires DEF Edge, AdapterEdge, AcksAgree
<1>3. ~Performed /\ Answer = Zero
  BY <1>1 DEF AnswerFacts
<1>4. Performed' = TRUE
  BY <1>1, <1>2 DEF AnswerFacts, Performed
<1>5. \A s \in Slaves : ~WriteReady(s)
  BY <1>1, WriteFires
<1>6. regs' = regs
  BY <1>1, <1>5, NoWriteFires
<1>7. \A s \in FifoSlaves : RdEn(s) <=> mem.port /\ mem.tgt = s
  BY DEF RdEn, ArSel
<1>8. \A s \in FifoSlaves : ~RdEn(s) => Stored'[s] = Stored[s]
  BY <1>1, <1>5, StoredStep
<1>9. CASE mem.port
  <2>1. PICK s \in FifoSlaves : mem.tgt = s /\ RdEn(s)
    BY <1>1, <1>7, <1>9, AccessType
  <2>2. /\ Stored[s] = queue[s]
        /\ Stored'[s] = IF queue[s] = <<>> THEN <<>> ELSE Tail(queue[s])
        /\ dout'[s] = IF queue[s] = <<>> THEN Filler ELSE Head(queue[s])
    BY <1>1, <2>1, StoredStep
  <2>3. \A r \in FifoSlaves : r # s => Stored'[r] = Stored[r]
    BY <1>7, <1>8, <2>1
  <2>4. Popped(s)'
    BY <1>1, <1>9, <2>1, ReadWires DEF Popped, Edge, ReadChannelsEdge
  <2>5. Answer' = dout'[s]
    BY <2>4 DEF AnswerFacts
  <2>6. IF Stored[s] = <<>> THEN Answer' = Filler /\ Stored' = Stored
        ELSE /\ Answer' = Head(Stored[s])
             /\ Stored' = [Stored EXCEPT ![s] = Tail(@)]
    <3>1. CASE queue[s] = <<>>
      <4>1. \A r \in FifoSlaves : Stored'[r] = Stored[r]
        BY <2>2, <2>3, <3>1
      <4>2. Stored' = Stored
        BY <4>1 DEF Stored
      <4> QED BY <2>2, <2>5, <3>1, <4>2
    <3>2. CASE queue[s] # <<>>
      <4>1. Stored'[s] = Tail(Stored[s])
        BY <2>2, <3>2
      <4>2. Stored' = [Stored EXCEPT ![s] = Tail(@)]
        BY <2>3, <4>1 DEF Stored
      <4> QED BY <2>2, <2>5, <3>2, <4>2
    <3> QED BY <3>1, <3>2
  <2>7. Port!Load
    BY <1>1, <1>6, <1>9, <2>1, <2>6 DEF Port!Load
  <2> QED BY <1>1, <1>3, <1>4, <2>7 DEF Port!Perform
<1>10. CASE ~mem.port
  <2>1. Stored' = Stored
    BY <1>7, <1>8, <1>10 DEF Stored
  <2>2. CASE mem.tgt = NoSlave
    <3>1. Answer' = Zero
      BY <1>1, <2>2 DEF AnswerFacts
    <3>2. Port!Load
      BY <1>1, <1>6, <1>10, <2>1, <2>2, <3>1, PortVocabulary DEF Port!Load
    <3> QED BY <1>1, <1>3, <1>4, <3>2 DEF Port!Perform
  <2>3. CASE mem.tgt \in Slaves
    <3>1. rbuf'[mem.tgt] = regs[mem.tgt]
      BY <1>1, <1>10, <2>3, ReadWires
      DEF Edge, ReadChannelsEdge, AccessPhase, ReadPhase, ReadQuiet
    <3>2. regs[mem.tgt] # Nil
      BY <2>3, WordsAssumption
    <3>3. Answer' = regs[mem.tgt]
      BY <1>1, <2>3, <3>1, <3>2 DEF AnswerFacts
    <3>4. Port!Load
      BY <1>1, <1>6, <1>10, <2>1, <2>3, <3>3, SlavesAssumption,
         PortVocabulary DEF Port!Load
    <3> QED BY <1>1, <1>3, <1>4, <3>4 DEF Port!Perform
  <2> QED BY <1>1, <2>2, <2>3, AccessType
<1> QED BY <1>9, <1>10, <1>1, AccessType

(* Every other cycle of waiting is invisible at the port.                  *)
LEMMA RefineWait ==
  ASSUME NoSlave \notin WriteTargets, IInv, Wait, AnswerFacts, AnswerFacts',
         ~Arvalid, \A s \in Slaves : ~WriteReady(s)
  PROVE  AbsUnchanged
<1> USE DEF IInv, TypeOK
<1>1. /\ memValid /\ memValid' = memValid /\ mem' = mem
      /\ memRdataQ' = memRdataQ /\ Edge /\ mem \in Accesses /\ ~MemReady
      /\ IsRead' = IsRead /\ IsWrite' = IsWrite
  BY DEF Wait, cpuVars, IsRead, IsWrite
<1>2. \A s \in Slaves : ~RdEn(s)
  BY DEF RdEn, ArSel
<1>3. regs' = regs /\ \A s \in Slaves : bvalid'[s] => bvalid[s]
  BY <1>1, NoWriteFires
<1>4. Stored' = Stored
  BY <1>1, <1>2, StoredStep DEF Stored
<1>5. CASE IsWrite
  <2>1. ~IsRead /\ mem.tgt \in Slaves /\ ~bvalid[mem.tgt]
    BY <1>1, <1>5, WriteWires DEF IsRead, IsWrite, MemReady
  <2>2. ~bvalid'[mem.tgt]
    BY <1>3, <2>1
  <2>3. ~Performed /\ ~Performed' /\ Answer = Zero /\ Answer' = Zero
    BY <1>1, <1>5, <2>1, <2>2 DEF AnswerFacts
  <2>4. Performed' = Performed
    BY <2>3 DEF Performed
  <2> QED BY <1>1, <1>3, <1>4, <2>3, <2>4 DEF AbsUnchanged, AbsReq
<1>6. CASE IsRead
  <2>1. ~IsWrite /\ ackAr /\ ackAr'
    BY <1>1, <1>6 DEF IsRead, IsWrite, Arvalid, Edge, AdapterEdge, AcksAgree
  <2>2. PICK s \in FifoSlaves : mem.tgt = s /\ mem.port /\ Popped(s)
    BY <1>1, <1>6, <2>1, AccessType
    DEF MemReady, Mrvalid, AcksAgree, AccessPhase, ReadPhase, Popped
  <2>3. Answer = dout[s] /\ dout'[s] = dout[s]
    BY <1>1, <1>2, <2>2 DEF AnswerFacts, Edge, FifoEdge
  <2>4. CASE rdEn[s]
    <3>1. Popped(s)'
      BY <1>1, <2>4 DEF Popped, Edge, ReadChannelsEdge
    <3> QED BY <2>3, <3>1, <1>1, <1>3, <1>4, <1>6, <2>1
            DEF AnswerFacts, AbsUnchanged, AbsReq, Performed
  <2>5. CASE rdPend[s]
    <3>1. rbuf'[s] = dout[s] /\ dout[s] # Nil
      BY <1>1, <2>5, WordsAssumption DEF Edge, ReadChannelsEdge
    <3>2. Answer' = dout[s]
      BY <1>1, <1>6, <2>2, <3>1 DEF AnswerFacts
    <3> QED BY <2>3, <3>2, <1>1, <1>3, <1>4, <1>6, <2>1
            DEF AnswerFacts, AbsUnchanged, AbsReq, Performed
  <2> QED BY <2>2, <2>4, <2>5 DEF Popped
<1> QED BY <1>1, <1>5, <1>6 DEF IsRead, IsWrite

LEMMA RefineNext ==
  ASSUME NoSlave \notin WriteTargets, IInv, IInv', [Next]_vars,
         AnswerFacts, AnswerFacts'
  PROVE  AbsUnchanged \/ Port!Next
<1>1. CASE Idle
  BY <1>1, RefineIdle
<1>2. ASSUME NEW a \in Accesses, Issue(a) PROVE Port!Next
  BY <1>2, RefineIssue DEF Port!Next
<1>3. CASE Wait
  BY <1>3, RefineStore, RefineLoad, RefineWait DEF Port!Next
<1>4. CASE Transfer
  BY <1>4, RefineTransfer DEF Port!Next
<1>5. CASE UNCHANGED vars
  BY <1>5
  DEF vars, cpuVars, adapterVars, interconnectVars, slaveVars, AbsUnchanged,
      AbsReq, Performed, MemReady, Mbvalid, Mrvalid, Answer, Rdata, Popped,
      Stored
<1> QED BY <1>1, <1>2, <1>3, <1>4, <1>5 DEF Next

(* The memory path implements MemPort: each access takes effect exactly    *)
(* once and atomically, and loads return what the register or FIFO held.   *)
THEOREM Implements ==
  ASSUME NoSlave \notin WriteTargets
  PROVE  Spec => ImplementsMemPort
<1>1. Init => Port!Init
  BY RefineInit
<1>2. IInv => AnswerFacts
  BY AnswerLemma
<1>3. /\ IInv /\ IInv' /\ AnswerFacts /\ AnswerFacts' /\ [Next]_vars
      => [Port!Next]_(Port!portVars)
  BY RefineNext DEF AbsUnchanged, AbsReq, Port!portVars
<1> QED BY <1>1, <1>2, <1>3, BusInvariant, PTL
        DEF Spec, ImplementsMemPort, Port!Spec

-----------------------------------------------------------------------------
(* The bus uses the FIFO behind a data port only as FifoQueue describes    *)
(* it, and Fifo_proofs shows that the ring of fifo.v is such a queue.      *)
Behind(s) == INSTANCE FifoQueue WITH Data <- Words, queue <- queue[s],
                                     out <- dout[s]

(* In every clock cycle the FIFO of a data port does one cycle of the      *)
(* abstract queue: it takes the waiting word and pops if it is addressed.  *)
THEOREM FifoEdgeIsCycle ==
  ASSUME NEW s \in FifoSlaves, queue \in [FifoSlaves -> Seq(Words)],
         dout \in [FifoSlaves -> Words], FifoEdge
  PROVE  Behind(s)!Cycle(push[s] # Nil, push[s], RdEn(s), FALSE)
BY DEF FifoEdge, Behind!Cycle, Behind!AfterPop
=============================================================================
