------------------------------ MODULE QspiNor ------------------------------
(***************************************************************************)
(* The QSPI NOR controller, one step per clock edge: the registers of      *)
(* axi_qspi_nor.v, the transaction machine of qspi_nor_master.v with its   *)
(* two FIFOs, the flash chip on the wires (external) and a program that    *)
(* makes the calls of qspi_nor.c.                                          *)
(*                                                                         *)
(* Data: on MOSI a bit is named by its field, the value of the field and   *)
(* its number; on MISO it is a bit.  A byte is a function from bit numbers *)
(* to bits, a word a function from byte numbers to bytes, the contents of  *)
(* a page a sequence of words, and an address names a page.  The FIFOs are *)
(* the queues of FifoQueue, which Fifo implements.                         *)
(***************************************************************************)
EXTENDS Naturals, Sequences

CONSTANTS Div,        \* clock cycles per half period of the serial clock (2)
          CmdBits,    \* bits of a command (8)
          AddrBits,   \* bits of an address (24)
          DummyBits,  \* idle bits of a fast read (8)
          ByteBits,   \* bits of a byte (8)
          WordBytes,  \* bytes of a word (4)
          PageWords,  \* words of a page (64), which is the depth of a FIFO
          Pages,      \* page addresses
          SectorOf,   \* the sector each page lies in
          Buffers,    \* what the program writes to a page
          Nil,        \* "not known"
          MinGap      \* clock edges between two accesses of the program

PageBytes == PageWords * WordBytes
Bytes == [0 .. ByteBits - 1 -> {0, 1}]
Words == [0 .. WordBytes - 1 -> Bytes]
Commands == {"RSTEN", "RST", "JEDEC", "WREN", "RDSR", "WRSR", "SE", "PP",
             "READ", "FAST"}

ASSUME QspiAssumption ==
  /\ Div \in Nat /\ Div >= 2
  /\ {CmdBits, AddrBits, DummyBits, WordBytes, PageWords} \subseteq Nat \ {0}
  /\ ByteBits \in Nat /\ ByteBits >= 2
  /\ SectorOf \in [Pages -> Pages] /\ Nil \notin Pages \cup Commands
  /\ MinGap \in Nat /\ 4 * Div <= 3 * MinGap
  /\ Buffers \subseteq [1 .. PageWords -> Words]

VARIABLES
  div, clk, rise, fall,                   \* serial clock generator
  ctrl, instr, addr, cnt, flush,          \* registers of axi_qspi_nor
  rxWr, rxDin, rdEn,                      \* its FIFO requests
  rxQ, rxOut, txQ, txOut,                 \* the FIFOs (rx: to the flash)
  fetchState, rdReq, reqSet, dataToWrite, \* the word fetched ahead
  state, csN, mosi, outEn, cntRise, cntFall, flow, done,
  doWrite, readReg, wrData,               \* the transaction machine
  frame, miso, pages, busy, wel,          \* the chip
  call, blk, pc, moved, buf, gap,          \* the program
  runs, times                             \* history (see below)

clockVars == <<div, clk, rise, fall>>
regVars == <<ctrl, instr, addr, cnt, flush, rxWr, rxDin, rdEn>>
queueVars == <<rxQ, rxOut, txQ, txOut>>
fetchVars == <<fetchState, rdReq, dataToWrite>>
fsmVars == <<reqSet, state, csN, mosi, outEn, cntRise, cntFall, flow, done,
             doWrite, readReg, wrData>>
chipVars == <<frame, miso, pages, busy, wel>>
progVars == <<call, blk, pc, moved, buf>>
vars == <<clockVars, regVars, queueVars, fetchVars, fsmVars, chipVars,
          progVars, gap, runs, times>>

ByteOf(bit) == [b \in 0 .. ByteBits - 1 |-> bit]
WordOf(byte) == [i \in 0 .. WordBytes - 1 |-> byte]
ZeroWord == WordOf(ByteOf(0))
Erased == [w \in 1 .. PageWords |-> WordOf(ByteOf(1))]
Filler == WordOf([b \in 0 .. ByteBits - 1 |->
                    IF b = ByteBits - 1 THEN 1 ELSE 0])
Identity == <<[i \in 0 .. WordBytes - 1 |->
                 [b \in 0 .. ByteBits - 1 |-> (i + b) % 2]]>>

RxFifo == INSTANCE FifoQueue
  WITH Data <- Words, Depth <- PageWords, queue <- rxQ, out <- rxOut
TxFifo == INSTANCE FifoQueue
  WITH Data <- Words, Depth <- PageWords, queue <- txQ, out <- txOut

CtrlOff == [start |-> FALSE, dir |-> "read", addr |-> FALSE, mode |-> 0,
            dummy |-> 0, flush |-> {}]
NoFrame == [bits |-> 0, ok |-> TRUE, cmd |-> Nil, addr |-> Nil,
            data |-> <<>>]
NoCall == [op |-> "none"]

(* fifo_rd_req_set and data_to_write are not reset; the FPGA and the       *)
(* simulator start the former at zero.                                     *)
ControllerInit ==
  /\ div = 0 /\ clk = FALSE /\ rise = FALSE /\ fall = FALSE
  /\ ctrl = CtrlOff /\ instr = Nil /\ addr = Nil /\ cnt = 0 /\ flush = {}
  /\ rxWr = FALSE /\ rxDin = ZeroWord /\ rdEn = FALSE
  /\ rxQ = <<>> /\ rxOut = ZeroWord /\ txQ = <<>> /\ txOut = ZeroWord
  /\ fetchState = "IDLE" /\ rdReq = FALSE /\ dataToWrite = ZeroWord
  /\ reqSet = FALSE /\ state = "IDLE" /\ csN = TRUE
  /\ mosi = [field |-> "none"] /\ outEn = FALSE
  /\ cntRise = 0 /\ cntFall = 0 /\ flow = 0 /\ done = FALSE
  /\ doWrite = FALSE /\ readReg = ZeroWord /\ wrData = ZeroWord

Init ==
  /\ ControllerInit
  /\ frame = NoFrame /\ miso = 0 /\ busy = FALSE /\ wel = FALSE
  /\ pages \in [Pages -> Buffers \cup {Erased}]
  /\ call = NoCall /\ blk = 0 /\ pc = "idle" /\ moved = 0 /\ buf = <<>>
  /\ gap = 0
  /\ runs = 0 /\ times = 0

-----------------------------------------------------------------------------
(* The serial clock runs always; spi_clk is gated by outEn.                *)
Tick == div = Div - 1
ClockEdge == /\ div' = IF Tick THEN 0 ELSE div + 1
             /\ clk' = IF Tick THEN ~clk ELSE clk
             /\ rise' = (Tick /\ ~clk)
             /\ fall' = (Tick /\ clk)
SpiClk == clk /\ outEn

(* The registers, given the store that takes effect at this edge.          *)
RegsEdge(store) ==
  /\ ctrl' = IF store.reg = "CTRL" THEN store.val ELSE ctrl
  /\ flush' = IF store.reg = "CTRL" THEN store.val.flush ELSE {}
  /\ instr' = IF store.reg = "INSTR" THEN store.val ELSE instr
  /\ addr' = IF store.reg = "ADDR" THEN store.val ELSE addr
  /\ cnt' = IF store.reg = "DATA_CNT" THEN store.val ELSE cnt
  /\ LET accepted == store.reg = "DATA" /\ Len(rxQ) < PageWords
     IN  rxWr' = accepted /\ rxDin' = IF accepted THEN store.val ELSE rxDin
  /\ rdEn' = (store.reg = "POP")

WriteEnabled == doWrite /\ fall /\ Len(txQ) < PageWords
(* Mutated form of QueueEdge: the words for the chip are not flushed. *)
QueueEdge_KeepsRx ==
  /\ RxFifo!Cycle(rxWr, rxDin, rdReq, FALSE)
  /\ TxFifo!Cycle(WriteEnabled, wrData, rdEn, "tx" \in flush)

QueueEdge ==
  /\ RxFifo!Cycle(rxWr, rxDin, rdReq, "rx" \in flush)
  /\ TxFifo!Cycle(WriteEnabled, wrData, rdEn, "tx" \in flush)

(* The word fetched ahead: once for each request. *)
(* Mutated form of FetchEdge: again while the request stands. *)
FetchEdge_Rearms ==
  \/ /\ fetchState = "IDLE"
     /\ IF reqSet THEN rdReq' = TRUE /\ fetchState' = "DEASSERT"
        ELSE UNCHANGED <<rdReq, fetchState>>
     /\ UNCHANGED dataToWrite
  \/ /\ fetchState = "DEASSERT" /\ rdReq' = FALSE /\ fetchState' = "LATCH"
     /\ UNCHANGED dataToWrite
  \/ /\ fetchState = "LATCH" /\ dataToWrite' = rxOut /\ fetchState' = "DONE"
     /\ UNCHANGED rdReq
  \/ /\ fetchState = "DONE"
     /\ fetchState' = "IDLE"
     /\ UNCHANGED <<rdReq, dataToWrite>>

FetchEdge ==
  \/ /\ fetchState = "IDLE"
     /\ IF reqSet THEN rdReq' = TRUE /\ fetchState' = "DEASSERT"
        ELSE UNCHANGED <<rdReq, fetchState>>
     /\ UNCHANGED dataToWrite
  \/ /\ fetchState = "DEASSERT" /\ rdReq' = FALSE /\ fetchState' = "LATCH"
     /\ UNCHANGED dataToWrite
  \/ /\ fetchState = "LATCH" /\ dataToWrite' = rxOut /\ fetchState' = "DONE"
     /\ UNCHANGED rdReq
  \/ /\ fetchState = "DONE"
     /\ fetchState' = IF reqSet THEN "DONE" ELSE "IDLE"
     /\ UNCHANGED <<rdReq, dataToWrite>>

-----------------------------------------------------------------------------
(* The transaction machine: states that act when the serial clock has      *)
(* risen ...                                                               *)
(* Mutated form of Idle: DONE is not taken back. *)
Idle_KeepsDone ==
  /\ state = "IDLE" /\ rise
  /\ outEn' = FALSE /\ csN' = TRUE /\ done' = done
  /\ cntRise' = 0 /\ readReg' = ZeroWord
  /\ state' = IF ctrl.start THEN "CS" ELSE "IDLE"
  /\ reqSet' = (reqSet \/ (ctrl.start /\ ctrl.mode = 1 /\ ctrl.dir = "write"))
  /\ UNCHANGED <<mosi, cntFall, flow, doWrite, wrData>>

Idle ==
  /\ state = "IDLE" /\ rise
  /\ outEn' = FALSE /\ csN' = TRUE /\ done' = FALSE
  /\ cntRise' = 0 /\ readReg' = ZeroWord
  /\ state' = IF ctrl.start THEN "CS" ELSE "IDLE"
  /\ reqSet' = (reqSet \/ (ctrl.start /\ ctrl.mode = 1 /\ ctrl.dir = "write"))
  /\ UNCHANGED <<mosi, cntFall, flow, doWrite, wrData>>

Select ==
  /\ state = "CS" /\ rise /\ csN' = FALSE
  /\ IF cntRise = 0
     THEN /\ state' = "CMD" /\ flow' = 0
          /\ cntRise' = ByteBits - 1 /\ cntFall' = CmdBits - 1
     ELSE cntRise' = cntRise - 1 /\ UNCHANGED <<state, flow, cntFall>>
  /\ UNCHANGED <<reqSet, mosi, outEn, done, doWrite, readReg, wrData>>

Sample ==
  /\ state = "READ" /\ rise
  /\ readReg' = [readReg EXCEPT ![flow % WordBytes][cntRise] = miso]
  /\ cntRise' = IF cntRise = 0 THEN ByteBits - 1 ELSE cntRise - 1
  /\ UNCHANGED <<reqSet, state, csN, mosi, outEn, cntFall, flow, done,
                 doWrite, wrData>>

Complete ==
  /\ state = "DONE" /\ rise /\ csN' = TRUE /\ done' = TRUE
  /\ state' = IF ctrl.start THEN "DONE" ELSE "IDLE"
  /\ UNCHANGED <<reqSet, mosi, outEn, cntRise, cntFall, flow, doWrite,
                 readReg, wrData>>

(* ... and states that act when it has fallen.                             *)
Bit(field, value) == [field |-> field, value |-> value, bit |-> cntFall]
DataPhase == IF ctrl.dir = "write" THEN "SEND" ELSE "PRE"

SendCmd ==
  /\ state = "CMD" /\ fall /\ outEn' = TRUE /\ mosi' = Bit("instr", instr)
  /\ IF cntFall # 0 THEN cntFall' = cntFall - 1 /\ UNCHANGED <<state, flow>>
     ELSE IF ctrl.addr
     THEN state' = "ADDR" /\ cntFall' = AddrBits - 1 /\ flow' = flow
     ELSE IF ctrl.mode = 1
     THEN state' = DataPhase /\ cntFall' = ByteBits - 1 /\ flow' = 0
     ELSE state' = "END" /\ UNCHANGED <<cntFall, flow>>
  /\ UNCHANGED <<reqSet, csN, cntRise, done, doWrite, readReg, wrData>>

SendAddress ==
  /\ state = "ADDR" /\ fall /\ mosi' = Bit("addr", addr)
  /\ IF cntFall # 0 THEN cntFall' = cntFall - 1 /\ UNCHANGED <<state, flow>>
     ELSE IF ctrl.mode = 1
     THEN IF ctrl.dummy = 0
          THEN state' = DataPhase /\ cntFall' = ByteBits - 1 /\ flow' = 0
          ELSE state' = "DUMMY" /\ cntFall' = ctrl.dummy - 1 /\ flow' = flow
     ELSE /\ state' = IF ctrl.mode = 0 THEN "END" ELSE "ADDR"
          /\ UNCHANGED <<cntFall, flow>>
  /\ UNCHANGED <<reqSet, csN, outEn, cntRise, done, doWrite, readReg, wrData>>

SendDummy ==
  /\ state = "DUMMY" /\ fall
  /\ IF cntFall = 0 THEN state' = "PRE" /\ cntFall' = ByteBits - 1
     ELSE cntFall' = cntFall - 1 /\ state' = state
  /\ UNCHANGED <<reqSet, csN, mosi, outEn, cntRise, flow, done, doWrite,
                 readReg, wrData>>

ReadPre ==
  /\ state = "PRE" /\ fall /\ state' = "READ"
  /\ UNCHANGED <<reqSet, csN, mosi, outEn, cntRise, cntFall, flow, done,
                 doWrite, readReg, wrData>>

(* The byte counter has 8 bits: it wraps at the size of a page.            *)
(* Mutated form of NextByte: no wrap. *)
NextByte_NoWrap == cntFall' = ByteBits - 1 /\ flow' = flow + 1
NextByte == cntFall' = ByteBits - 1 /\ flow' = (flow + 1) % PageBytes
LastOfWord == flow % WordBytes = WordBytes - 1

(* Mutated form of SendData: the clock goes on while words are missing. *)
SendData_ClockRuns ==
  /\ state = "SEND" /\ fall
  /\ mosi' = Bit("data", dataToWrite[flow % WordBytes])
  /\ IF cntFall # 0
     THEN /\ reqSet' = FALSE /\ cntFall' = cntFall - 1
          /\ UNCHANGED <<state, flow, outEn>>
     ELSE IF flow = cnt
     THEN /\ reqSet' = FALSE /\ state' = "END"
          /\ UNCHANGED <<cntFall, flow, outEn>>
     ELSE IF ~LastOfWord
     THEN reqSet' = FALSE /\ NextByte /\ UNCHANGED <<state, outEn>>
     ELSE IF rxQ # <<>>
     THEN reqSet' = TRUE /\ NextByte /\ outEn' = TRUE /\ state' = state
     ELSE /\ reqSet' = FALSE /\ outEn' = TRUE
          /\ UNCHANGED <<state, cntFall, flow>>
  /\ UNCHANGED <<csN, cntRise, done, doWrite, readReg, wrData>>

(* Mutated form of SendData: it looks for the next word before it looks    *)
(* whether this was the last.                                              *)
SendData_WordFirst ==
  /\ state = "SEND" /\ fall
  /\ mosi' = Bit("data", dataToWrite[flow % WordBytes])
  /\ IF cntFall # 0
     THEN /\ reqSet' = FALSE /\ cntFall' = cntFall - 1
          /\ UNCHANGED <<state, flow, outEn>>
     ELSE IF LastOfWord /\ rxQ = <<>>
     THEN /\ reqSet' = FALSE /\ outEn' = FALSE
          /\ UNCHANGED <<state, cntFall, flow>>
     ELSE IF flow = cnt
     THEN /\ reqSet' = FALSE /\ state' = "END"
          /\ UNCHANGED <<cntFall, flow, outEn>>
     ELSE reqSet' = LastOfWord /\ NextByte /\ outEn' = TRUE /\ state' = state
  /\ UNCHANGED <<csN, cntRise, done, doWrite, readReg, wrData>>

SendData ==
  /\ state = "SEND" /\ fall
  /\ mosi' = Bit("data", dataToWrite[flow % WordBytes])
  /\ IF cntFall # 0
     THEN /\ reqSet' = FALSE /\ cntFall' = cntFall - 1
          /\ UNCHANGED <<state, flow, outEn>>
     ELSE IF flow = cnt
     THEN /\ reqSet' = FALSE /\ state' = "END"
          /\ UNCHANGED <<cntFall, flow, outEn>>
     ELSE IF ~LastOfWord
     THEN reqSet' = FALSE /\ NextByte /\ UNCHANGED <<state, outEn>>
     ELSE IF rxQ # <<>>
     THEN reqSet' = TRUE /\ NextByte /\ outEn' = TRUE /\ state' = state
     ELSE /\ reqSet' = FALSE /\ outEn' = FALSE
          /\ UNCHANGED <<state, cntFall, flow>>
  /\ UNCHANGED <<csN, cntRise, done, doWrite, readReg, wrData>>

(* Mutated form of ReadData: a word that is not full is not handed over. *)
ReadData_WholeWords ==
  /\ state = "READ" /\ fall
  /\ LET ends == cntFall = 0 /\ flow = cnt
         full == cntFall = 0 /\ LastOfWord
     IN  /\ IF cntFall = 0 THEN NextByte
            ELSE cntFall' = cntFall - 1 /\ flow' = flow
         /\ state' = IF ends THEN "END" ELSE "READ"
         /\ doWrite' = full
         /\ wrData' = IF full THEN readReg ELSE wrData
         /\ readReg' = IF full THEN ZeroWord ELSE readReg
  /\ UNCHANGED <<reqSet, csN, mosi, outEn, cntRise, done>>

ReadData ==
  /\ state = "READ" /\ fall
  /\ LET ends == cntFall = 0 /\ flow = cnt
         full == cntFall = 0 /\ flow # cnt /\ LastOfWord
     IN  /\ IF cntFall = 0 THEN NextByte
            ELSE cntFall' = cntFall - 1 /\ flow' = flow
         /\ state' = IF ends THEN "END" ELSE "READ"
         /\ doWrite' = (ends \/ full)
         /\ wrData' = IF ends \/ full THEN readReg ELSE wrData
         /\ readReg' = IF full THEN ZeroWord ELSE readReg
  /\ UNCHANGED <<reqSet, csN, mosi, outEn, cntRise, done>>

End ==
  /\ state = "END" /\ fall
  /\ csN' = FALSE /\ outEn' = FALSE /\ doWrite' = FALSE /\ state' = "DONE"
  /\ UNCHANGED <<reqSet, mosi, cntRise, cntFall, flow, done, readReg, wrData>>

ActsOnRise == {"IDLE", "CS", "READ", "DONE"}
ActsOnFall == {"CMD", "ADDR", "DUMMY", "PRE", "SEND", "READ", "END"}
Rest ==
  /\ ~(rise /\ state \in ActsOnRise) /\ ~(fall /\ state \in ActsOnFall)
  /\ UNCHANGED fsmVars

FsmEdge == \/ Idle \/ Select \/ Sample \/ Complete
           \/ SendCmd \/ SendAddress \/ SendDummy \/ ReadPre
           \/ SendData \/ ReadData \/ End \/ Rest

-----------------------------------------------------------------------------
(* The chip.  It takes a bit when spi_clk rises, drives one when it falls, *)
(* and does what it was told when it is deselected after a whole command.  *)
Addressed(cmd) == cmd \in {"SE", "PP", "READ", "FAST"}
HeadBits(cmd) == CmdBits + (IF Addressed(cmd) THEN AddrBits ELSE 0)
                         + (IF cmd = "FAST" THEN DummyBits ELSE 0)

(* The bit a command has at place n. *)
Expected(n) ==
  IF n < CmdBits THEN [field |-> "instr", bit |-> CmdBits - 1 - n]
  ELSE IF Addressed(frame.cmd) /\ n < CmdBits + AddrBits
  THEN [field |-> "addr", bit |-> CmdBits + AddrBits - 1 - n]
  ELSE IF frame.cmd = "PP"
  THEN [field |-> "data",
        bit |-> ByteBits - 1 - ((n - HeadBits("PP")) % ByteBits)]
  ELSE [field |-> "any", bit |-> 0]

Receive ==
  LET e == Expected(frame.bits)
      begins == CASE e.field = "instr" -> e.bit = CmdBits - 1
                  [] e.field = "addr"  -> e.bit = AddrBits - 1
                  [] OTHER             -> e.bit = ByteBits - 1
      meant == mosi.field = e.field /\ mosi.bit = e.bit
      takes == meant /\ begins
      goesOn == CASE e.field = "instr" -> mosi.value = frame.cmd
                  [] e.field = "addr"  -> mosi.value = frame.addr
                  [] OTHER -> mosi.value = frame.data[Len(frame.data)]
  IN frame' =
       [bits |-> frame.bits + 1,
        ok   |-> /\ frame.ok
                 /\ e.field = "any" \/ (meant /\ (begins \/ goesOn)),
        cmd  |-> IF takes /\ e.field = "instr" THEN mosi.value ELSE frame.cmd,
        addr |-> IF takes /\ e.field = "addr" THEN mosi.value ELSE frame.addr,
        data |-> IF takes /\ e.field = "data"
                 THEN Append(frame.data, mosi.value) ELSE frame.data]

(* The byte the chip sends at place i of its answer. *)
StatusByte == [b \in 0 .. ByteBits - 1 |->
  CASE b = 0 -> IF busy THEN 1 ELSE 0
    [] b = 1 -> IF wel THEN 1 ELSE 0
    [] OTHER -> 0]
AnswerByte(i) ==
  CASE frame.cmd = "RDSR"  -> StatusByte
    [] frame.cmd = "JEDEC" -> Identity[1][i % WordBytes]
    [] OTHER -> pages[frame.addr][(i % PageBytes) \div WordBytes + 1]
                     [i % WordBytes]

Drive ==
  LET place == frame.bits - HeadBits(frame.cmd)
  IN  miso' = IF /\ frame.ok /\ frame.cmd \in {"RDSR", "JEDEC", "READ", "FAST"}
                 /\ frame.bits >= HeadBits(frame.cmd)
                 /\ busy => frame.cmd = "RDSR"
              THEN AnswerByte(place \div ByteBits)
                             [ByteBits - 1 - (place % ByteBits)]
              ELSE miso

(* Programming clears bits only. *)
Combine(old, new) ==
  [w \in 1 .. PageWords |-> [i \in 0 .. WordBytes - 1 |->
     [b \in 0 .. ByteBits - 1 |-> old[w][i][b] * new[w][i][b]]]]
WordsOf(bytes) ==
  [w \in 1 .. PageWords |-> [i \in 0 .. WordBytes - 1 |->
     LET k == (w - 1) * WordBytes + i + 1
     IN  IF k <= Len(bytes) THEN bytes[k] ELSE ByteOf(1)]]

Whole == frame.ok /\ frame.cmd # Nil /\
  IF frame.cmd = "PP"
  THEN /\ frame.bits > HeadBits("PP")
       /\ (frame.bits - HeadBits("PP")) % ByteBits = 0
  ELSE frame.bits = HeadBits(frame.cmd)
Modifies(cmd) == cmd \in {"SE", "PP"} /\ Whole /\ wel

Execute ==
  /\ busy' = Modifies(frame.cmd)
  /\ wel' = IF Whole /\ frame.cmd = "WREN" THEN TRUE
            ELSE IF Whole /\ frame.cmd = "RST" THEN FALSE ELSE wel
  /\ pages' = IF ~Modifies(frame.cmd) THEN pages
              ELSE [p \in Pages |->
                IF frame.cmd = "SE" /\ SectorOf[p] = SectorOf[frame.addr]
                THEN Erased
                ELSE IF frame.cmd = "PP" /\ p = frame.addr
                THEN Combine(pages[p], WordsOf(frame.data))
                ELSE pages[p]]

(* While it is busy it only answers questions about its status. *)
Work == /\ UNCHANGED pages
        /\ UNCHANGED <<busy, wel>> \/ (busy' = FALSE /\ wel' = FALSE)

Deselected == ~csN /\ csN'
ChipEdge ==
  /\ IF busy THEN Work
     ELSE IF Deselected THEN Execute ELSE UNCHANGED <<busy, wel, pages>>
  /\ IF csN' THEN frame' = NoFrame
     ELSE IF ~SpiClk /\ SpiClk' THEN Receive ELSE UNCHANGED frame
  /\ IF ~csN /\ SpiClk /\ ~SpiClk' THEN Drive ELSE UNCHANGED miso

-----------------------------------------------------------------------------
(* History.  runs counts the commands the chip got since START was last    *)
(* set, times how often the call in progress changed its contents.         *)
NoStore == [reg |-> "none"]
Starts(store) == store.reg = "CTRL" /\ store.val.start

Edge(store) ==
  /\ ClockEdge /\ RegsEdge(store) /\ QueueEdge /\ FetchEdge /\ FsmEdge
  /\ ChipEdge
  /\ runs' = IF Starts(store) THEN 0 ELSE IF Deselected THEN runs + 1 ELSE runs

Changes == Deselected /\ ~busy /\ Modifies(frame.cmd)
CountChange == times' = IF Changes THEN times + 1 ELSE times

-----------------------------------------------------------------------------
(* The program.  Each function of qspi_nor.c issues commands one after     *)
(* the other, each by the same accesses: it may flush the FIFO it will     *)
(* pull from, stores words ahead, INSTR, ADDR, DATA_CNT and CTRL, stores   *)
(* the other words, polls STATUS, clears CTRL and pulls the words read.    *)
Command(cmd, page, count, mode, dummy, flushes, pulls) ==
  [cmd |-> cmd, page |-> page, count |-> count, dir |-> "read",
   mode |-> mode, dummy |-> dummy, flush |-> flushes, data |-> <<>>,
   ahead |-> 0, pushes |-> 0, pulls |-> pulls]
Plain(cmd) == Command(cmd, Nil, 0, 0, 0, {}, 0)
Start(b) == [start |-> TRUE, dir |-> b.dir, addr |-> b.page # Nil,
             mode |-> b.mode, dummy |-> b.dummy, flush |-> {}]
FlushTx == [CtrlOff EXCEPT !.flush = {"tx"}]

WaitFlashReady == Command("RDSR", Nil, 0, 1, 0, {}, 1)
WriteEnable == Plain("WREN")
ReadFlash(cmd, page, words, dummy) ==
  <<Command(cmd, page, words * WordBytes - 1, 1, dummy, {"tx"}, words)>>

FlashInit == <<Plain("RSTEN"), Plain("RST"),
               Command("JEDEC", Nil, WordBytes - 1, 1, 0, {}, 1)>>

(* Mutated form of FlashSectorErase: it does not wait for the chip. *)
FlashSectorErase_NoWait(page) ==
  <<WriteEnable, Command("SE", page, 0, 0, 0, {}, 0)>>
FlashSectorErase(page) ==
  <<WriteEnable, Command("SE", page, 0, 0, 0, {}, 0), WaitFlashReady>>

(* The driver stores the whole page before it sets START.  A program that  *)
(* stores only the first words before relies on the controller to wait.    *)
ProgramPage(page, data, ahead) ==
  [cmd |-> "PP", page |-> page, count |-> PageBytes - 1, dir |-> "write",
   mode |-> 1, dummy |-> 0, flush |-> {}, data |-> data,
   ahead |-> ahead, pushes |-> PageWords, pulls |-> 0]
FlashPageProgram(page, data, ahead) ==
  <<WriteEnable, ProgramPage(page, data, ahead), WaitFlashReady>>

Calls == [op: {"init"}]
           \cup [op: {"erase"}, page: Pages]
           \cup [op: {"program"}, page: Pages, data: Buffers,
                 ahead: 1 .. PageWords]
           \cup [op: {"read", "fast"}, page: Pages, words: 1 .. PageWords]

CommandsOf(c) ==
  CASE c.op = "init"    -> FlashInit
    [] c.op = "erase"   -> FlashSectorErase(c.page)
    [] c.op = "program" -> FlashPageProgram(c.page, c.data, c.ahead)
    [] c.op = "read"    -> ReadFlash("READ", c.page, c.words, 0)
    [] c.op = "fast"    -> ReadFlash("FAST", c.page, c.words, DummyBits)

Here == CommandsOf(call)[blk]
At(place) == call # NoCall /\ pc = place

(* Where the accesses of the n-th command begin.                           *)
First(n) == IF n > Len(CommandsOf(call)) THEN "return"
            ELSE LET b == CommandsOf(call)[n]
                 IN  IF b.flush # {} THEN "flush"
                     ELSE IF b.ahead > 0 THEN "ahead" ELSE "instr"

Access(place, store, to) ==
  /\ At(place) /\ gap = 0
  /\ pc' = to /\ gap' = MinGap - 1 /\ call' = call
  /\ Edge(store) /\ CountChange
GoOn == UNCHANGED <<blk, moved>>
NextCommand == blk' = blk + 1 /\ moved' = 0

Set(place, reg, val, to) ==
  Access(place, [reg |-> reg, val |-> val], to) /\ UNCHANGED buf
Configure ==
  /\ GoOn
  /\ \/ Set("flush", "CTRL", FlushTx, "flushed")
     \/ Set("flushed", "CTRL", CtrlOff, "instr")
     \/ Set("instr", "INSTR", Here.cmd,
            IF Here.page = Nil THEN "count" ELSE "addr")
     \/ Set("addr", "ADDR", Here.page, "count")
     \/ Set("count", "DATA_CNT", Here.count, "start")
     \/ Set("start", "CTRL", Start(Here),
            IF moved < Here.pushes THEN "rest" ELSE "poll")
Push ==
  /\ \/ Set("ahead", "DATA", Here.data[moved + 1],
            IF moved + 1 < Here.ahead THEN "ahead" ELSE "instr")
     \/ Set("rest", "DATA", Here.data[moved + 1],
            IF moved + 1 < Here.pushes THEN "rest" ELSE "poll")
  /\ moved' = moved + 1 /\ blk' = blk

Poll == /\ Access("poll", NoStore, IF done THEN "off" ELSE "poll")
        /\ GoOn /\ UNCHANGED buf
Clear ==
  \/ Set("off", "CTRL", CtrlOff, First(blk + 1)) /\ Here.pulls = 0
       /\ NextCommand
  \/ Set("off", "CTRL", CtrlOff, "pop") /\ Here.pulls > 0 /\ GoOn

Pop == /\ Access("pop", [reg |-> "POP"],
                 IF Here.cmd = "RDSR" THEN "status" ELSE "take")
       /\ GoOn /\ UNCHANGED buf
Take ==
  /\ \/ /\ Access("take", NoStore, "pop") /\ moved + 1 < Here.pulls
        /\ moved' = moved + 1 /\ blk' = blk
     \/ /\ Access("take", NoStore, First(blk + 1)) /\ moved + 1 = Here.pulls
        /\ NextCommand
  /\ buf' = Append(buf, txOut)

(* wait_flash_ready starts over while the chip says that it is busy.       *)
Status ==
  /\ \/ Access("status", NoStore, "instr") /\ txOut[0][0] = 1 /\ GoOn
     \/ Access("status", NoStore, First(blk + 1)) /\ txOut[0][0] # 1
          /\ NextCommand
  /\ UNCHANGED buf

Elapse == gap' = IF gap > 0 THEN gap - 1 ELSE 0
Wait == /\ Elapse /\ UNCHANGED progVars
        /\ Edge(NoStore) /\ CountChange
Begin == /\ call = NoCall /\ call' \in Calls /\ pc' = First(1)'
         /\ blk' = 1 /\ moved' = 0 /\ buf' = <<>> /\ times' = 0
         /\ Elapse /\ Edge(NoStore)
Return == /\ At("return") /\ call' = NoCall /\ pc' = "idle"
          /\ blk' = 0 /\ moved' = 0 /\ UNCHANGED buf
          /\ Elapse /\ Edge(NoStore) /\ CountChange

Program == \/ Configure \/ Push \/ Poll \/ Clear \/ Pop \/ Take \/ Status
           \/ Return
Next == Wait \/ Begin \/ Program

Spec == Init /\ [][Next]_vars

-----------------------------------------------------------------------------
(* Type invariant. *)
TypeOK ==
  /\ div \in 0 .. Div - 1 /\ {clk, rise, fall} \subseteq BOOLEAN
  /\ ctrl.mode \in {0, 1} /\ cnt \in 0 .. PageBytes - 1
  /\ instr \in Commands \cup {Nil} /\ addr \in Pages \cup {Nil}
  /\ {rxQ, txQ} \subseteq Seq(Words)
  /\ Len(rxQ) <= PageWords /\ Len(txQ) <= PageWords
  /\ {rxDin, rxOut, txOut, dataToWrite, readReg, wrData} \subseteq Words
  /\ {rxWr, rdEn, rdReq, reqSet, csN, outEn, done, doWrite, busy, wel}
       \subseteq BOOLEAN
  /\ fetchState \in {"IDLE", "DEASSERT", "LATCH", "DONE"}
  /\ state \in ActsOnRise \cup ActsOnFall
  /\ cntRise \in 0 .. ByteBits - 1 /\ flow \in 0 .. PageBytes - 1
  /\ cntFall \in Nat /\ frame.bits \in Nat
  /\ pages \in [Pages -> [1 .. PageWords -> Words]]
  /\ call \in Calls \cup {NoCall} /\ gap \in Nat
  /\ runs \in Nat /\ times \in Nat

(* Every bit the chip takes is the one that is due at its place in the     *)
(* command, each once: the clock may stop between two bytes, the word      *)
(* behind the byte may be replaced, but never within one.                  *)
BitsInOrder == frame.ok

(* When the program sees DONE, it is that of the command it has started    *)
(* last, and the chip has got that command once.                           *)
DoneIsOwn == At("poll") /\ done => runs = 1

(* No word is dropped at a full FIFO, taken from an empty one or flushed   *)
(* on its way.                                                             *)
NothingLost ==
  /\ doWrite => Len(txQ) < PageWords /\ flush = {}
  /\ rxWr => Len(rxQ) < PageWords /\ flush = {}
  /\ rdEn => txQ # <<>>
  /\ rdReq => rxQ # <<>>

(* Each call of the driver takes effect on the chip exactly once, delivers *)
(* what the chip holds, and returns only when the chip is ready again.     *)
Flash == INSTANCE NorFlash WITH Buffers <- Buffers \cup {Erased}, result <- buf
ImplementsFlash == Flash!Spec

(* Where the clock stops for want of words while the program only polls,   *)
(* there are words to be had: it does not stop for good.                   *)
StallEnds ==
  At("poll") /\ state = "SEND" /\ ~outEn => rxQ # <<>> \/ rxWr
=============================================================================
