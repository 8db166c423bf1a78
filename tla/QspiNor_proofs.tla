-------------------------- MODULE QspiNor_proofs --------------------------
(* Proofs about QspiNor, for every width of the fields, every size of a    *)
(* page, every divider and every pace of the program.                      *)
EXTENDS QspiNor, Integers, TLAPS

-----------------------------------------------------------------------------
(* The serial clock: how many edges ago the state was entered in which     *)
(* clk_rise or clk_fall was last set, from 1 to a whole period.            *)
SinceRise == IF ~clk THEN Div + div ELSE IF div = 0 THEN 2 * Div ELSE div
SinceFall == IF clk THEN Div + div ELSE IF div = 0 THEN 2 * Div ELSE div

ClockOK ==
  /\ div \in 0 .. Div - 1 /\ {clk, rise, fall} \subseteq BOOLEAN
  /\ rise <=> clk /\ div = 0
  /\ fall => ~clk /\ div = 0
  /\ ~clk /\ div = 0 => fall \/ state = "IDLE"

-----------------------------------------------------------------------------
(* The program and the registers it has set.                               *)
Places == {"flush", "flushed", "ahead", "instr", "addr", "count", "start",
           "rest", "poll", "off", "pop", "take", "status"}
Active == call # NoCall /\ pc # "return"
Armed == call # NoCall /\ pc \in {"rest", "poll", "off"}

PlaceOK ==
  /\ pc \in Places /\ blk \in 1 .. Len(CommandsOf(call)) /\ moved \in Nat
  /\ pc \in {"flush", "flushed"} => moved = 0 /\ Here.flush # {}
  /\ pc = "ahead" => moved < Here.ahead
  /\ pc \in {"instr", "addr", "count", "start"} => moved = Here.ahead
  /\ pc = "addr" => Here.page # Nil
  /\ pc = "rest" => Here.ahead <= moved /\ moved < Here.pushes
  /\ pc \in {"poll", "off"} => moved = Here.pushes
  /\ pc \in {"pop", "take", "status"} => moved < Here.pulls
  /\ pc = "take" => Here.cmd # "RDSR"
  /\ pc = "status" => Here.cmd = "RDSR"

ProgOK ==
  /\ call \in Calls \cup {NoCall} /\ gap \in 0 .. MinGap - 1
  /\ call = NoCall => pc = "idle"
  /\ Active => PlaceOK

RegsOK ==
  /\ ctrl = IF Armed THEN Start(Here)
            ELSE IF pc = "flushed" THEN FlushTx ELSE CtrlOff
  /\ pc \in {"addr", "count", "start", "rest", "poll", "off"}
       => instr = Here.cmd
  /\ pc \in {"count", "start", "rest", "poll", "off"} /\ Here.page # Nil
       => addr = Here.page
  /\ pc \in {"start", "rest", "poll", "off"} => cnt = Here.count

PulsesOK ==
  /\ flush # {} => flush = {"tx"} /\ pc = "flushed" /\ gap = MinGap - 1
  /\ rdEn => pc \in {"take", "status"} /\ gap = MinGap - 1
  /\ rxWr => /\ Active /\ gap = MinGap - 1 /\ Here.cmd = "PP"
             /\ \/ pc \in {"ahead", "instr"}
                \/ pc \in {"rest", "poll"} /\ moved > Here.ahead
             /\ moved > 0 /\ rxDin = Here.data[moved]

-----------------------------------------------------------------------------
(* The handshake over START and DONE.                                      *)
Elapsed == (IF pc = "start" THEN 3 ELSE IF pc \in {"addr", "count"} THEN 2
            ELSE 1) * MinGap - gap
Busy == {"CMD", "ADDR", "DUMMY", "PRE", "SEND", "READ", "END"}

HandOK ==
  /\ state \in ActsOnRise \cup ActsOnFall
  /\ Armed =>
       /\ state \in {"IDLE", "CS"} => csN /\ ~outEn /\ ~done /\ runs = 0
       /\ state = "CS" => cntRise = 0
       /\ state \in Busy => ~csN /\ ~done /\ runs = 0
       /\ state = "DONE" =>
            ~outEn /\ (done <=> csN) /\ runs = (IF done THEN 1 ELSE 0)
       /\ pc = "off" => state = "DONE" /\ done
  /\ ~Armed =>
       /\ state \in {"IDLE", "DONE"} /\ csN /\ ~outEn
       /\ state = "DONE" => done /\ Elapsed <= SinceRise
       /\ state = "IDLE" /\ done => Elapsed <= 2 * Div + SinceRise

-----------------------------------------------------------------------------
(* What the transaction machine counts in each of its states.              *)
PhaseOK ==
  /\ state = "CMD" => cntFall \in 0 .. CmdBits - 1 /\ flow = 0
                      /\ (outEn <=> cntFall # CmdBits - 1)
  /\ state = "ADDR" => cntFall \in 0 .. AddrBits - 1 /\ flow = 0 /\ outEn
                       /\ Addressed(Here.cmd)
  /\ state = "DUMMY" => cntFall \in 0 .. DummyBits - 1 /\ flow = 0 /\ outEn
                        /\ Here.cmd = "FAST"
  /\ state = "PRE" => cntFall = ByteBits - 1 /\ flow = 0 /\ outEn
                      /\ Here.mode = 1 /\ Here.dir = "read"
  /\ state = "SEND" => cntFall \in 0 .. ByteBits - 1 /\ flow \in 0 .. cnt
                       /\ Here.cmd = "PP"
                       /\ (~outEn => cntFall = 0 /\ flow # cnt /\ LastOfWord)
  /\ state = "READ" => cntFall \in 0 .. ByteBits - 1 /\ flow \in 0 .. cnt
                       /\ outEn /\ Here.mode = 1 /\ Here.dir = "read"
  /\ state = "END" => outEn
  /\ doWrite => \/ state = "READ" /\ cntFall = ByteBits - 1
                \/ state = "END" /\ Here.mode = 1 /\ Here.dir = "read"

-----------------------------------------------------------------------------
(* The words on their way to the chip.                                     *)
InPP == Active /\ Here.cmd = "PP"
Popped == moved - Len(rxQ) - (IF rxWr THEN 1 ELSE 0)
Stage(since) == CASE since = 1 -> "IDLE" [] since = 2 -> "DEASSERT"
                  [] since = 3 -> "LATCH" [] OTHER -> "DONE"
Asked == reqSet /\ fetchState \in {"IDLE", "DEASSERT"}
Given == IF Asked THEN Popped + 1 ELSE Popped

FetchOK ==
  /\ state = "CS" => reqSet /\ fetchState = Stage(SinceRise) /\ Given = 1
  /\ state \in {"CMD", "ADDR"} => reqSet /\ fetchState = "DONE" /\ Given = 1
  /\ state = "SEND" =>
       /\ IF reqSet
          THEN /\ cntFall = ByteBits - 1 /\ flow = (Given - 1) * WordBytes
               /\ IF flow = 0 THEN fetchState = "DONE"
                  ELSE fetchState = Stage(SinceFall)
          ELSE \/ fetchState = "IDLE"
               \/ fetchState = "DONE" /\ SinceFall = 1 /\ cntFall = ByteBits - 2
       /\ (Given - 1) * WordBytes <= flow /\ flow < Given * WordBytes
       /\ ~outEn => flow + 1 = Given * WordBytes
  /\ state \in {"IDLE", "END", "DONE"} => ~reqSet /\ fetchState = "IDLE"
  /\ ~Armed \/ state = "IDLE" => Popped = 0
  /\ Armed /\ state \in {"END", "DONE"} => Popped = PageWords
  /\ state \in {"CS", "CMD", "ADDR", "SEND"} /\ (reqSet => fetchState = "DONE")
       => dataToWrite = Here.data[Popped]
  /\ Asked => rxQ # <<>>
  /\ fetchState = "LATCH" => rxOut = Here.data[Popped]

RxOK ==
  /\ rxQ \in Seq(Words)
  /\ rdReq <=> fetchState = "DEASSERT"
  /\ ~InPP => rxQ = <<>> /\ ~reqSet /\ fetchState = "IDLE"
  /\ InPP => /\ Popped \in 0 .. PageWords
             /\ \A i \in 1 .. Len(rxQ) : rxQ[i] = Here.data[Popped + i]
             /\ FetchOK

-----------------------------------------------------------------------------
(* The command on the wires.  Sent is the number of its bits that have     *)
(* been put there, Due is 1 while the chip has yet to take the last one.   *)
DataBits == IF Here.mode = 0 THEN 0
            ELSE (Here.count + 1) * ByteBits
                   + (IF Here.dir = "write" THEN 0 ELSE 1)
Sent ==
  IF state = "CMD" THEN CmdBits - 1 - cntFall
  ELSE IF state = "ADDR" THEN CmdBits + AddrBits - 1 - cntFall
  ELSE IF state = "DUMMY" THEN CmdBits + AddrBits + DummyBits - 1 - cntFall
  ELSE HeadBits(Here.cmd)
         + IF state = "PRE" THEN 0
           ELSE IF state = "SEND"
           THEN flow * ByteBits + (ByteBits - 1 - cntFall)
           ELSE IF state = "READ"
           THEN flow * ByteBits + (ByteBits - 1 - cntFall) + 1
           ELSE DataBits
Due == IF outEn /\ ~clk /\ div # 0 THEN 1 ELSE 0

(* What the command has at place n, and the bytes of the page.             *)
ByteAt(j) == Here.data[j \div WordBytes + 1][j % WordBytes]
MosiIs(n) ==
  /\ n < CmdBits =>
       mosi = [field |-> "instr", value |-> Here.cmd, bit |-> CmdBits - 1 - n]
  /\ CmdBits <= n /\ n < CmdBits + AddrBits /\ Addressed(Here.cmd) =>
       mosi = [field |-> "addr", value |-> Here.page,
               bit |-> CmdBits + AddrBits - 1 - n]
  /\ Here.cmd = "PP" /\ HeadBits("PP") <= n =>
       LET m == n - HeadBits("PP")
       IN  mosi = [field |-> "data", value |-> ByteAt(m \div ByteBits),
                   bit |-> ByteBits - 1 - (m % ByteBits)]

DataBytes(n) ==
  IF Here.cmd = "PP" /\ n > HeadBits("PP")
  THEN (n - HeadBits("PP") + ByteBits - 1) \div ByteBits ELSE 0

(* f holds what the chip takes from the first n bits.                      *)
Holds(f, n) ==
  /\ f.ok /\ f.bits = n
  /\ f.cmd = IF n = 0 THEN Nil ELSE Here.cmd
  /\ f.addr = IF n <= CmdBits THEN Nil ELSE Here.page
  /\ f.data \in Seq(Bytes) /\ Len(f.data) = DataBytes(n)
  /\ \A j \in 1 .. Len(f.data) : f.data[j] = ByteAt(j - 1)

FrameOK ==
  /\ frame.bits \in Nat /\ frame.bits = Sent - Due
  /\ Holds(frame, frame.bits)
  /\ Due = 1 => MosiIs(frame.bits)

WireOK ==
  /\ csN => frame = NoFrame
  /\ ~csN => FrameOK

-----------------------------------------------------------------------------
(* What the registers, the counters and the chip hold.                     *)
CountersOK ==
  /\ cntRise \in 0 .. ByteBits - 1 /\ flow \in 0 .. PageBytes - 1
  /\ cntFall \in Nat /\ runs \in Nat /\ times \in Nat
  /\ instr \in Commands \cup {Nil} /\ addr \in Pages \cup {Nil}
  /\ cnt \in 0 .. PageBytes - 1

WordsOK ==
  /\ {rxDin, rxOut, txOut, dataToWrite, readReg, wrData} \subseteq Words
  /\ txQ \in Seq(Words)
  /\ miso \in {0, 1} /\ pages \in [Pages -> [1 .. PageWords -> Words]]

FlagsOK ==
  /\ {rxWr, rdEn, rdReq, reqSet, csN, outEn, done, doWrite, busy, wel}
       \subseteq BOOLEAN
  /\ fetchState \in {"IDLE", "DEASSERT", "LATCH", "DONE"}

DataOK == CountersOK /\ WordsOK /\ FlagsOK

-----------------------------------------------------------------------------
(* The words that were read.                                               *)
Reading == Armed /\ Here.pulls > 0
ToPull == IF ~Active THEN 0
          ELSE IF pc = "pop" THEN Here.pulls - moved
          ELSE IF pc \in {"take", "status"}
          THEN Here.pulls - moved - (IF rdEn THEN 0 ELSE 1)
          ELSE 0
Came == Len(txQ) + (IF doWrite THEN 1 ELSE 0)

TxOK ==
  /\ doWrite => Reading
  /\ Reading =>
       /\ state \in {"IDLE", "CS", "CMD", "ADDR", "DUMMY", "PRE"} => Came = 0
       /\ state = "READ" =>
            Came * WordBytes <= flow /\ flow < (Came + 1) * WordBytes
       /\ state \in {"END", "DONE"} => Came = Here.pulls
  /\ ~Reading => Len(txQ) = ToPull

-----------------------------------------------------------------------------
(* What the commands of a call have in common.                             *)
CommandOK(b) ==
  /\ b.cmd \in Commands /\ b.page \in Pages \cup {Nil}
  /\ b.page # Nil <=> Addressed(b.cmd)
  /\ b.count \in 0 .. PageBytes - 1 /\ b.mode \in {0, 1}
  /\ b.dir = IF b.cmd = "PP" THEN "write" ELSE "read"
  /\ b.mode = 0 <=> b.cmd \in {"RSTEN", "RST", "WREN", "SE"}
  /\ b.dummy = IF b.cmd = "FAST" THEN DummyBits ELSE 0
  /\ b.flush # {} <=> b.cmd \in {"READ", "FAST"}
  /\ b.cmd = "PP" => /\ b.data \in [1 .. PageWords -> Words]
                     /\ b.ahead \in 1 .. PageWords /\ b.pushes = PageWords
                     /\ b.count = PageBytes - 1
  /\ b.cmd # "PP" => b.ahead = 0 /\ b.pushes = 0
  /\ b.mode = 0 \/ b.cmd = "PP" => b.pulls = 0
  /\ b.mode = 1 /\ b.cmd # "PP" =>
       /\ b.pulls \in 1 .. PageWords
       /\ IF b.cmd = "RDSR" THEN b.count = 0 /\ b.pulls = 1
          ELSE b.count = b.pulls * WordBytes - 1

LEMMA Sizes ==
  /\ PageBytes \in Nat \ {0} /\ WordBytes <= PageBytes
  /\ \A w \in 1 .. PageWords : w * WordBytes - 1 \in 0 .. PageBytes - 1
<1>1. /\ PageWords \in Nat /\ WordBytes \in Nat /\ PageWords >= 1
      /\ WordBytes >= 1
  BY QspiAssumption
<1>2. \A w \in 1 .. PageWords :
        /\ w * WordBytes \in Nat /\ w * WordBytes >= WordBytes
        /\ w * WordBytes <= PageWords * WordBytes
  BY <1>1
<1>3. PageWords * WordBytes \in Nat /\ PageWords * WordBytes >= WordBytes
  BY <1>1, <1>2
<1> QED BY <1>1, <1>2, <1>3 DEF PageBytes

(* The commands of each call, and the fields of each command.              *)
LEMMA CommandsAre ==
  ASSUME NEW c \in Calls
  PROVE  /\ c.op = "init" =>
              /\ CommandsOf(c) = FlashInit /\ Len(CommandsOf(c)) = 3
         /\ c.op = "erase" =>
              /\ c.page \in Pages /\ Len(CommandsOf(c)) = 3
              /\ CommandsOf(c) = FlashSectorErase(c.page)
         /\ c.op = "program" =>
              /\ c.page \in Pages /\ c.data \in Buffers
              /\ c.ahead \in 1 .. PageWords /\ Len(CommandsOf(c)) = 3
              /\ CommandsOf(c) = FlashPageProgram(c.page, c.data, c.ahead)
         /\ c.op \in {"read", "fast"} =>
              /\ c.page \in Pages /\ c.words \in 1 .. PageWords
              /\ Len(CommandsOf(c)) = 1
         /\ c.op = "read" =>
              CommandsOf(c) = ReadFlash("READ", c.page, c.words, 0)
         /\ c.op = "fast" =>
              CommandsOf(c) = ReadFlash("FAST", c.page, c.words, DummyBits)
         /\ c.op \in {"init", "erase", "program", "read", "fast"}
<1>1. c.op \in {"init", "erase", "program", "read", "fast"}
  BY DEF Calls
<1>2. CASE c.op = "init"
  <2>1. CommandsOf(c) = FlashInit
    BY <1>2 DEF CommandsOf
  <2>2. Len(FlashInit) = 3
    BY DEF FlashInit
  <2> QED BY <1>2, <2>1, <2>2
<1>3. CASE c.op = "erase"
  <2>1. CommandsOf(c) = FlashSectorErase(c.page)
    BY <1>3 DEF CommandsOf
  <2>2. Len(FlashSectorErase(c.page)) = 3
    BY DEF FlashSectorErase
  <2>3. c.page \in Pages
    BY <1>3 DEF Calls
  <2> QED BY <1>3, <2>1, <2>2, <2>3
<1>4. CASE c.op = "program"
  <2>1. CommandsOf(c) = FlashPageProgram(c.page, c.data, c.ahead)
    BY <1>4 DEF CommandsOf
  <2>2. Len(FlashPageProgram(c.page, c.data, c.ahead)) = 3
    BY DEF FlashPageProgram
  <2>3. c.page \in Pages /\ c.data \in Buffers /\ c.ahead \in 1 .. PageWords
    BY <1>4 DEF Calls
  <2> QED BY <1>4, <2>1, <2>2, <2>3
<1>5. CASE c.op \in {"read", "fast"}
  <2>1. c.page \in Pages /\ c.words \in 1 .. PageWords
    BY <1>5 DEF Calls
  <2>2. c.op = "read" => CommandsOf(c) = ReadFlash("READ", c.page, c.words, 0)
    BY <1>5 DEF CommandsOf
  <2>3. c.op = "fast" =>
          CommandsOf(c) = ReadFlash("FAST", c.page, c.words, DummyBits)
    BY <1>5 DEF CommandsOf
  <2>4. \A cmd, dummy : Len(ReadFlash(cmd, c.page, c.words, dummy)) = 1
    BY DEF ReadFlash
  <2> QED BY <1>5, <2>1, <2>2, <2>3, <2>4
<1> QED BY <1>1, <1>2, <1>3, <1>4, <1>5

LEMMA PlainOK ==
  /\ CommandOK(Plain("RSTEN")) /\ CommandOK(Plain("RST"))
  /\ CommandOK(WriteEnable)
<1> USE QspiAssumption, Sizes
    DEF CommandOK, Command, Plain, Commands, Addressed
<1>1. CommandOK(Plain("RSTEN"))
  OBVIOUS
<1>2. CommandOK(Plain("RST"))
  OBVIOUS
<1>3. CommandOK(WriteEnable)
  BY DEF WriteEnable
<1> QED BY <1>1, <1>2, <1>3

LEMMA AnswersOK ==
  /\ CommandOK(WaitFlashReady)
  /\ CommandOK(Command("JEDEC", Nil, WordBytes - 1, 1, 0, {}, 1))
<1> USE QspiAssumption, Sizes
    DEF CommandOK, Command, Plain, Commands, Addressed
<1>1. CommandOK(WaitFlashReady)
  BY DEF WaitFlashReady
<1>2. CommandOK(Command("JEDEC", Nil, WordBytes - 1, 1, 0, {}, 1))
  OBVIOUS
<1> QED BY <1>1, <1>2

LEMMA AddressedOK ==
  ASSUME NEW page \in Pages
  PROVE  /\ CommandOK(Command("SE", page, 0, 0, 0, {}, 0))
         /\ \A data \in Buffers, n \in 1 .. PageWords :
              CommandOK(ProgramPage(page, data, n))
         /\ \A n \in 1 .. PageWords :
              /\ CommandOK(Command("READ", page, n * WordBytes - 1, 1, 0,
                                   {"tx"}, n))
              /\ CommandOK(Command("FAST", page, n * WordBytes - 1, 1,
                                   DummyBits, {"tx"}, n))
<1> USE QspiAssumption, Sizes
    DEF CommandOK, Command, Plain, Commands, Addressed
<1>1. CommandOK(Command("SE", page, 0, 0, 0, {}, 0))
  OBVIOUS
<1>2. ASSUME NEW data \in Buffers, NEW n \in 1 .. PageWords
      PROVE  CommandOK(ProgramPage(page, data, n))
  <2>1. data \in [1 .. PageWords -> Words]
    OBVIOUS
  <2> QED BY <2>1 DEF ProgramPage
<1>3. ASSUME NEW n \in 1 .. PageWords
      PROVE  CommandOK(Command("READ", page, n * WordBytes - 1, 1, 0,
                               {"tx"}, n))
  <2>1. n * WordBytes - 1 \in 0 .. PageBytes - 1
    OBVIOUS
  <2> DEFINE last == n * WordBytes - 1
  <2> HIDE DEF last
  <2>2. last \in 0 .. PageBytes - 1 /\ last = n * WordBytes - 1
    BY <2>1 DEF last
  <2>3. CommandOK(Command("READ", page, last, 1, 0, {"tx"}, n))
    BY <2>2
  <2> QED BY <2>3 DEF last
<1>4. ASSUME NEW n \in 1 .. PageWords
      PROVE  CommandOK(Command("FAST", page, n * WordBytes - 1, 1,
                               DummyBits, {"tx"}, n))
  <2>1. n * WordBytes - 1 \in 0 .. PageBytes - 1
    OBVIOUS
  <2> DEFINE last == n * WordBytes - 1
  <2> HIDE DEF last
  <2>2. last \in 0 .. PageBytes - 1 /\ last = n * WordBytes - 1
    BY <2>1 DEF last
  <2>3. CommandOK(Command("FAST", page, last, 1, DummyBits, {"tx"}, n))
    BY <2>2
  <2> QED BY <2>3 DEF last
<1> HIDE DEF CommandOK
<1> QED BY <1>1, <1>2, <1>3, <1>4

LEMMA CommandShape ==
  ASSUME NEW c \in Calls, NEW n \in 1 .. Len(CommandsOf(c))
  PROVE  CommandOK(CommandsOf(c)[n])
<1>1. c.op \in {"init", "erase", "program", "read", "fast"}
  BY CommandsAre
<1>2. CASE c.op = "init"
  BY <1>2, CommandsAre, PlainOK, AnswersOK DEF FlashInit
<1>3. CASE c.op = "erase"
  <2>1. c.page \in Pages /\ n \in 1 .. 3
          /\ CommandsOf(c) = FlashSectorErase(c.page)
    BY <1>3, CommandsAre
  <2>2. CommandOK(Command("SE", c.page, 0, 0, 0, {}, 0))
    BY <2>1, AddressedOK
  <2> QED BY <2>1, <2>2, PlainOK, AnswersOK DEF FlashSectorErase
<1>4. CASE c.op = "program"
  <2>1. /\ c.page \in Pages /\ c.data \in Buffers /\ c.ahead \in 1 .. PageWords
        /\ n \in 1 .. 3
        /\ CommandsOf(c) = FlashPageProgram(c.page, c.data, c.ahead)
    BY <1>4, CommandsAre
  <2>2. CommandOK(ProgramPage(c.page, c.data, c.ahead))
    BY <2>1, AddressedOK
  <2> QED BY <2>1, <2>2, PlainOK, AnswersOK DEF FlashPageProgram
<1>5. CASE c.op \in {"read", "fast"}
  <2>1. c.page \in Pages /\ c.words \in 1 .. PageWords /\ n = 1
    <3>1. c.page \in Pages /\ c.words \in 1 .. PageWords
            /\ Len(CommandsOf(c)) = 1
      BY <1>5, CommandsAre
    <3> QED BY <3>1
  <2>2. CASE c.op = "read"
    BY <2>1, <2>2, CommandsAre, AddressedOK DEF ReadFlash
  <2>3. CASE c.op = "fast"
    BY <2>1, <2>3, CommandsAre, AddressedOK DEF ReadFlash
  <2> QED BY <1>5, <2>2, <2>3
<1> QED BY <1>1, <1>2, <1>3, <1>4, <1>5

-----------------------------------------------------------------------------
(* The program and the registers.                                          *)
ProgInv == ProgOK /\ RegsOK /\ PulsesOK

LEMMA FirstFacts ==
  ASSUME NEW n \in Nat \ {0}
  PROVE  LET b == CommandsOf(call)[n]
         IN  \/ First(n) = "return" /\ n > Len(CommandsOf(call))
             \/ /\ n <= Len(CommandsOf(call))
                /\ \/ First(n) = "flush" /\ b.flush # {}
                   \/ First(n) = "ahead" /\ b.ahead > 0
                   \/ First(n) = "instr" /\ ~(b.ahead > 0)
BY DEF First

LEMMA SetFacts ==
  ASSUME NEW place, NEW reg, NEW val, NEW to, Set(place, reg, val, to)
  PROVE  /\ call # NoCall /\ pc = place /\ gap = 0
         /\ pc' = to /\ gap' = MinGap - 1 /\ call' = call
         /\ RegsEdge([reg |-> reg, val |-> val])
BY DEF Set, Access, At, Edge

LEMMA AccessFacts ==
  ASSUME NEW place, NEW store, NEW to, Access(place, store, to)
  PROVE  /\ call # NoCall /\ pc = place /\ gap = 0
         /\ pc' = to /\ gap' = MinGap - 1 /\ call' = call
         /\ RegsEdge(store)
BY DEF Access, At, Edge

(* What a store and the edges without one do to the registers.             *)
LEMMA StoreFacts ==
  ASSUME NEW val
  PROVE  /\ RegsEdge([reg |-> "CTRL", val |-> val]) =>
              /\ ctrl' = val /\ flush' = val.flush
              /\ UNCHANGED <<instr, addr, cnt>> /\ ~rxWr' /\ ~rdEn'
         /\ RegsEdge([reg |-> "INSTR", val |-> val]) =>
              /\ instr' = val /\ flush' = {}
              /\ UNCHANGED <<ctrl, addr, cnt>> /\ ~rxWr' /\ ~rdEn'
         /\ RegsEdge([reg |-> "ADDR", val |-> val]) =>
              /\ addr' = val /\ flush' = {}
              /\ UNCHANGED <<ctrl, instr, cnt>> /\ ~rxWr' /\ ~rdEn'
         /\ RegsEdge([reg |-> "DATA_CNT", val |-> val]) =>
              /\ cnt' = val /\ flush' = {}
              /\ UNCHANGED <<ctrl, instr, addr>> /\ ~rxWr' /\ ~rdEn'
         /\ RegsEdge([reg |-> "DATA", val |-> val]) =>
              /\ flush' = {} /\ (rxWr' <=> Len(rxQ) < PageWords)
              /\ rxDin' = (IF Len(rxQ) < PageWords THEN val ELSE rxDin)
              /\ UNCHANGED <<ctrl, instr, addr, cnt>> /\ ~rdEn'
<1>1. RegsEdge([reg |-> "CTRL", val |-> val]) =>
        /\ ctrl' = val /\ flush' = val.flush
        /\ UNCHANGED <<instr, addr, cnt>> /\ ~rxWr' /\ ~rdEn'
  BY DEF RegsEdge
<1>2. RegsEdge([reg |-> "INSTR", val |-> val]) =>
        /\ instr' = val /\ flush' = {}
        /\ UNCHANGED <<ctrl, addr, cnt>> /\ ~rxWr' /\ ~rdEn'
  BY DEF RegsEdge
<1>3. RegsEdge([reg |-> "ADDR", val |-> val]) =>
        /\ addr' = val /\ flush' = {}
        /\ UNCHANGED <<ctrl, instr, cnt>> /\ ~rxWr' /\ ~rdEn'
  BY DEF RegsEdge
<1>4. RegsEdge([reg |-> "DATA_CNT", val |-> val]) =>
        /\ cnt' = val /\ flush' = {}
        /\ UNCHANGED <<ctrl, instr, addr>> /\ ~rxWr' /\ ~rdEn'
  BY DEF RegsEdge
<1>5. RegsEdge([reg |-> "DATA", val |-> val]) =>
        /\ flush' = {} /\ (rxWr' <=> Len(rxQ) < PageWords)
        /\ rxDin' = (IF Len(rxQ) < PageWords THEN val ELSE rxDin)
        /\ UNCHANGED <<ctrl, instr, addr, cnt>> /\ ~rdEn'
  BY DEF RegsEdge
<1> QED BY <1>1, <1>2, <1>3, <1>4, <1>5

LEMMA QuietFacts ==
  /\ RegsEdge(NoStore) =>
       /\ flush' = {} /\ ~rxWr' /\ ~rdEn' /\ rxDin' = rxDin
       /\ UNCHANGED <<ctrl, instr, addr, cnt>>
  /\ RegsEdge([reg |-> "POP"]) =>
       /\ flush' = {} /\ ~rxWr' /\ rdEn' /\ rxDin' = rxDin
       /\ UNCHANGED <<ctrl, instr, addr, cnt>>
<1>1. RegsEdge(NoStore) =>
        /\ flush' = {} /\ ~rxWr' /\ ~rdEn' /\ rxDin' = rxDin
        /\ UNCHANGED <<ctrl, instr, addr, cnt>>
  BY DEF RegsEdge, NoStore
<1>2. RegsEdge([reg |-> "POP"]) =>
        /\ flush' = {} /\ ~rxWr' /\ rdEn' /\ rxDin' = rxDin
        /\ UNCHANGED <<ctrl, instr, addr, cnt>>
  BY DEF RegsEdge
<1> QED BY <1>1, <1>2

(* Between two accesses nothing of this changes, but the time goes by.     *)
LEMMA QuietKeeps ==
  ASSUME ProgInv, UNCHANGED <<call, blk, pc, moved>>, Elapse, RegsEdge(NoStore)
  PROVE  ProgInv'
<1> USE QspiAssumption
<1>1. gap \in 0 .. MinGap - 1 /\ gap' \in 0 .. MinGap - 1
      /\ (gap' # MinGap - 1 \/ MinGap - 1 = 0)
  BY DEF ProgInv, ProgOK, Elapse
<1>2. /\ flush' = {} /\ ~rxWr' /\ ~rdEn'
      /\ UNCHANGED <<ctrl, instr, addr, cnt>>
  BY QuietFacts
<1>3. Here' = Here /\ (Active' <=> Active) /\ (Armed' <=> Armed)
  BY DEF Here, Active, Armed
<1>4. PlaceOK => PlaceOK'
  BY <1>3 DEF PlaceOK
<1>5. ProgOK'
  BY <1>1, <1>3, <1>4 DEF ProgInv, ProgOK
<1>6. RegsOK'
  BY <1>2, <1>3 DEF ProgInv, RegsOK
<1>7. PulsesOK'
  BY <1>2 DEF PulsesOK
<1> QED BY <1>5, <1>6, <1>7 DEF ProgInv

(* The next command begins at its first access.                            *)
LEMMA NextBegins ==
  ASSUME call' \in Calls, blk' \in Nat \ {0}, moved' = 0,
         pc' = First(blk)', gap' \in 0 .. MinGap - 1,
         ctrl' = CtrlOff, ~rxWr', ~rdEn', flush' = {}
  PROVE  ProgInv'
<1>1. call' # NoCall
  BY DEF Calls, NoCall
<1> DEFINE b == Here'
<1>2. \/ pc' = "return"
      \/ /\ blk' \in 1 .. Len(CommandsOf(call'))
         /\ \/ pc' = "flush" /\ b.flush # {}
            \/ pc' = "ahead" /\ b.ahead > 0
            \/ pc' = "instr" /\ ~(b.ahead > 0)
  BY DEF First, Here
<1>3. ~Armed' /\ pc' # "flushed"
  BY <1>2 DEF Armed
<1>4. ASSUME pc' # "return" PROVE PlaceOK'
  <2>1. CommandOK(b)
    BY <1>2, <1>4, CommandShape DEF Here
  <2>2. CASE pc' = "flush" /\ b.flush # {}
    BY <2>2, <1>2, <1>4 DEF PlaceOK, Places
  <2>3. CASE pc' = "ahead" /\ b.ahead > 0
    BY <2>3, <1>2, <1>4 DEF PlaceOK, Places
  <2>4. CASE pc' = "instr" /\ ~(b.ahead > 0)
    BY <2>1, <2>4, <1>2, <1>4, QspiAssumption DEF PlaceOK, Places, CommandOK
  <2> QED BY <1>2, <1>4, <2>2, <2>3, <2>4
<1>5. ProgOK'
  BY <1>1, <1>4 DEF ProgOK, Active
<1>6. RegsOK'
  BY <1>2, <1>3 DEF RegsOK
<1>7. PulsesOK'
  BY DEF PulsesOK
<1> QED BY <1>5, <1>6, <1>7 DEF ProgInv

(* The registers before the command has been started, and after.           *)
LEMMA HereOK ==
  ASSUME ProgInv, Active
  PROVE  CommandOK(Here) /\ call \in Calls /\ blk \in Nat \ {0}
           /\ moved \in Nat
BY CommandShape DEF ProgInv, ProgOK, PlaceOK, Active, Here

LEMMA OffFacts == CtrlOff.flush = {} /\ ~CtrlOff.start
BY DEF CtrlOff

LEMMA ConfigureStep ==
  ASSUME ProgInv, Configure
  PROVE  ProgInv'
<1> USE QspiAssumption
<1> DEFINE b == Here
<1>1. /\ call # NoCall /\ Active /\ blk' = blk /\ moved' = moved
      /\ call' = call /\ gap' = MinGap - 1
  BY DEF Configure, GoOn, Active, Set, Access, At
<1>2. CommandOK(b) /\ PlaceOK /\ gap' \in 0 .. MinGap - 1
  BY <1>1, HereOK DEF ProgInv, ProgOK
<1>3. Here' = b
  BY <1>1 DEF Here
<1>4. CASE Set("flush", "CTRL", FlushTx, "flushed")
  <2>1. pc = "flush" /\ pc' = "flushed" /\ ctrl' = FlushTx /\ flush' = {"tx"}
          /\ ~rxWr' /\ ~rdEn'
    <3>1. pc = "flush" /\ pc' = "flushed"
            /\ RegsEdge([reg |-> "CTRL", val |-> FlushTx])
      BY <1>4, SetFacts, Zenon
    <3>2. FlushTx.flush = {"tx"}
      BY DEF FlushTx, CtrlOff
    <3> QED BY <3>1, <3>2, StoreFacts
  <2>2. PlaceOK'
    BY <2>1, <1>1, <1>2, <1>3 DEF PlaceOK, Places
  <2>3. ProgOK'
    BY <2>1, <2>2, <1>1, <1>2 DEF ProgInv, ProgOK
  <2>4. RegsOK'
    BY <2>1 DEF RegsOK, Armed
  <2>5. PulsesOK'
    BY <2>1, <1>1 DEF PulsesOK
  <2> QED BY <2>3, <2>4, <2>5 DEF ProgInv
<1>5. CASE Set("flushed", "CTRL", CtrlOff, "instr")
  <2>1. pc = "flushed" /\ pc' = "instr" /\ ctrl' = CtrlOff /\ flush' = {}
          /\ ~rxWr' /\ ~rdEn'
    <3>1. pc = "flushed" /\ pc' = "instr"
            /\ RegsEdge([reg |-> "CTRL", val |-> CtrlOff])
      BY <1>5, SetFacts, Zenon
    <3> QED BY <3>1, OffFacts, StoreFacts
  <2>2. PlaceOK'
    BY <2>1, <1>1, <1>2, <1>3 DEF PlaceOK, Places, CommandOK
  <2>3. ProgOK'
    BY <2>1, <2>2, <1>1, <1>2 DEF ProgInv, ProgOK
  <2>4. RegsOK'
    BY <2>1 DEF RegsOK, Armed
  <2>5. PulsesOK'
    BY <2>1, <1>1 DEF PulsesOK
  <2> QED BY <2>3, <2>4, <2>5 DEF ProgInv
<1>6. CASE Set("instr", "INSTR", Here.cmd,
               IF Here.page = Nil THEN "count" ELSE "addr")
  <2>1. /\ pc = "instr" /\ pc' = (IF b.page = Nil THEN "count" ELSE "addr")
        /\ ctrl' = ctrl /\ instr' = b.cmd /\ flush' = {}
        /\ ~rxWr' /\ ~rdEn'
    <3>1. /\ pc = "instr"
          /\ pc' = (IF Here.page = Nil THEN "count" ELSE "addr")
          /\ RegsEdge([reg |-> "INSTR", val |-> Here.cmd])
      BY <1>6, SetFacts
    <3> QED BY <3>1, StoreFacts
  <2>2. PlaceOK'
    BY <2>1, <1>1, <1>2, <1>3 DEF PlaceOK, Places
  <2>3. ProgOK'
    BY <2>1, <2>2, <1>1, <1>2 DEF ProgInv, ProgOK
  <2>4. RegsOK'
    BY <2>1, <1>3 DEF ProgInv, RegsOK, Armed
  <2>5. PulsesOK'
    BY <2>1, <1>1 DEF PulsesOK
  <2> QED BY <2>3, <2>4, <2>5 DEF ProgInv
<1>7. CASE Set("addr", "ADDR", Here.page, "count")
  <2>1. /\ pc = "addr" /\ pc' = "count"
        /\ ctrl' = ctrl /\ instr' = instr /\ addr' = b.page /\ flush' = {}
        /\ ~rxWr' /\ ~rdEn'
    BY <1>7, SetFacts, StoreFacts
  <2>2. PlaceOK'
    BY <2>1, <1>1, <1>2, <1>3 DEF PlaceOK, Places
  <2>3. ProgOK'
    BY <2>1, <2>2, <1>1, <1>2 DEF ProgInv, ProgOK
  <2>4. RegsOK'
    BY <2>1, <1>3 DEF ProgInv, RegsOK, Armed
  <2>5. PulsesOK'
    BY <2>1, <1>1 DEF PulsesOK
  <2> QED BY <2>3, <2>4, <2>5 DEF ProgInv
<1>8. CASE Set("count", "DATA_CNT", Here.count, "start")
  <2>1. /\ pc = "count" /\ pc' = "start" /\ UNCHANGED <<ctrl, instr, addr>>
        /\ cnt' = b.count /\ flush' = {} /\ ~rxWr' /\ ~rdEn'
    BY <1>8, SetFacts, StoreFacts
  <2>2. PlaceOK'
    BY <2>1, <1>1, <1>2, <1>3 DEF PlaceOK, Places
  <2>3. ProgOK'
    BY <2>1, <2>2, <1>1, <1>2 DEF ProgInv, ProgOK
  <2>4. RegsOK'
    BY <2>1, <1>3 DEF ProgInv, RegsOK, Armed
  <2>5. PulsesOK'
    BY <2>1, <1>1 DEF PulsesOK
  <2> QED BY <2>3, <2>4, <2>5 DEF ProgInv
<1>9. CASE Set("start", "CTRL", Start(Here),
               IF moved < Here.pushes THEN "rest" ELSE "poll")
  <2>1. /\ pc = "start" /\ pc' = (IF moved < b.pushes THEN "rest" ELSE "poll")
        /\ ctrl' = Start(b) /\ flush' = {}
        /\ UNCHANGED <<instr, addr, cnt>> /\ ~rxWr' /\ ~rdEn'
    <3>1. /\ pc = "start"
          /\ pc' = (IF moved < b.pushes THEN "rest" ELSE "poll")
          /\ RegsEdge([reg |-> "CTRL", val |-> Start(b)])
      BY <1>9 DEF Set, Access, At, Edge
    <3>2. Start(b).flush = {}
      BY DEF Start
    <3> QED BY <3>1, <3>2, StoreFacts
  <2>2. PlaceOK'
    BY <2>1, <1>1, <1>2, <1>3 DEF PlaceOK, Places, CommandOK
  <2>3. ProgOK'
    BY <2>1, <2>2, <1>1, <1>2 DEF ProgInv, ProgOK
  <2>4. RegsOK'
    BY <2>1, <1>1, <1>3 DEF ProgInv, RegsOK, Armed
  <2>5. PulsesOK'
    BY <2>1, <1>1 DEF PulsesOK
  <2> QED BY <2>3, <2>4, <2>5 DEF ProgInv
<1> QED BY <1>4, <1>5, <1>6, <1>7, <1>8, <1>9 DEF Configure

LEMMA PushStep ==
  ASSUME ProgInv, Push
  PROVE  ProgInv'
<1> USE QspiAssumption
<1> DEFINE b == Here
<1>1. /\ call # NoCall /\ Active /\ blk' = blk /\ moved' = moved + 1
      /\ call' = call /\ gap' = MinGap - 1
  BY DEF Push, Active, Set, Access, At
<1>2. CommandOK(b) /\ PlaceOK /\ gap' \in 0 .. MinGap - 1 /\ moved \in Nat
  BY <1>1, HereOK DEF ProgInv, ProgOK
<1>3. Here' = b
  BY <1>1 DEF Here
<1>4. CASE Set("ahead", "DATA", Here.data[moved + 1],
               IF moved + 1 < Here.ahead THEN "ahead" ELSE "instr")
  <2>1. /\ pc = "ahead"
        /\ pc' = (IF moved + 1 < b.ahead THEN "ahead" ELSE "instr")
        /\ flush' = {} /\ ~rdEn' /\ ctrl' = ctrl
        /\ rxWr' => rxDin' = b.data[moved + 1]
    <3>1. /\ pc = "ahead"
          /\ pc' = (IF moved + 1 < b.ahead THEN "ahead" ELSE "instr")
          /\ RegsEdge([reg |-> "DATA", val |-> b.data[moved + 1]])
      BY <1>4 DEF Set, Access, At, Edge
    <3> QED BY <3>1, StoreFacts
  <2>2. PlaceOK' /\ b.cmd = "PP"
    <3>1. moved < b.ahead /\ blk \in 1 .. Len(CommandsOf(call))
      BY <1>2, <2>1 DEF PlaceOK
    <3>2. b.cmd = "PP"
      BY <1>2, <3>1 DEF CommandOK
    <3>3. b.ahead \in Nat
      BY <1>2, <3>2 DEF CommandOK
    <3>4. /\ moved + 1 \in Nat
          /\ moved + 1 < b.ahead \/ moved + 1 = b.ahead
      BY <1>2, <3>1, <3>3
    <3> QED BY <1>1, <1>3, <2>1, <3>1, <3>2, <3>4 DEF PlaceOK, Places
  <2>3. ProgOK'
    BY <2>1, <2>2, <1>1, <1>2 DEF ProgInv, ProgOK
  <2>4. RegsOK'
    BY <2>1 DEF ProgInv, RegsOK, Armed
  <2>5. PulsesOK'
    BY <2>1, <2>2, <1>1, <1>2, <1>3 DEF PulsesOK, Active
  <2> QED BY <2>3, <2>4, <2>5 DEF ProgInv
<1>5. CASE Set("rest", "DATA", Here.data[moved + 1],
               IF moved + 1 < Here.pushes THEN "rest" ELSE "poll")
  <2>1. /\ pc = "rest"
        /\ pc' = (IF moved + 1 < b.pushes THEN "rest" ELSE "poll")
        /\ flush' = {} /\ ~rdEn' /\ UNCHANGED <<ctrl, instr, addr, cnt>>
        /\ rxWr' => rxDin' = b.data[moved + 1]
    <3>1. /\ pc = "rest"
          /\ pc' = (IF moved + 1 < b.pushes THEN "rest" ELSE "poll")
          /\ RegsEdge([reg |-> "DATA", val |-> b.data[moved + 1]])
      BY <1>5 DEF Set, Access, At, Edge
    <3> QED BY <3>1, StoreFacts
  <2>2. PlaceOK' /\ b.cmd = "PP"
    <3>1. /\ b.ahead <= moved /\ moved < b.pushes
          /\ blk \in 1 .. Len(CommandsOf(call))
      BY <1>2, <2>1 DEF PlaceOK
    <3>2. b.cmd = "PP"
      BY <1>2, <3>1 DEF CommandOK
    <3>3. b.ahead \in Nat /\ b.pushes \in Nat
      BY <1>2, <3>2 DEF CommandOK
    <3>4. /\ moved + 1 \in Nat /\ b.ahead <= moved + 1
          /\ moved + 1 < b.pushes \/ moved + 1 = b.pushes
      BY <1>2, <3>1, <3>3
    <3> QED BY <1>1, <1>3, <2>1, <3>1, <3>2, <3>4 DEF PlaceOK, Places
  <2>3. ProgOK'
    BY <2>1, <2>2, <1>1, <1>2 DEF ProgInv, ProgOK
  <2>4. RegsOK'
    BY <2>1, <1>1, <1>3 DEF ProgInv, RegsOK, Armed
  <2>5. PulsesOK'
    BY <2>1, <2>2, <1>1, <1>2, <1>3 DEF PulsesOK, Active, PlaceOK, CommandOK
  <2> QED BY <2>3, <2>4, <2>5 DEF ProgInv
<1> QED BY <1>4, <1>5 DEF Push

LEMMA PollStep ==
  ASSUME ProgInv, Poll
  PROVE  ProgInv'
<1> USE QspiAssumption
<1> DEFINE b == Here
<1>1. /\ call # NoCall /\ Active /\ blk' = blk /\ moved' = moved
      /\ call' = call /\ gap' = MinGap - 1 /\ pc = "poll"
      /\ pc' \in {"poll", "off"}
      /\ flush' = {} /\ ~rxWr' /\ ~rdEn' /\ UNCHANGED <<ctrl, instr, addr, cnt>>
  BY AccessFacts, QuietFacts DEF Poll, GoOn, Active
<1>2. CommandOK(b) /\ PlaceOK /\ gap' \in 0 .. MinGap - 1
  BY <1>1, HereOK DEF ProgInv, ProgOK
<1>3. Here' = b
  BY <1>1 DEF Here
<1>4. PlaceOK'
  BY <1>1, <1>2, <1>3 DEF PlaceOK, Places
<1>5. ProgOK'
  BY <1>1, <1>2, <1>4 DEF ProgInv, ProgOK
<1>6. RegsOK'
  BY <1>1, <1>3 DEF ProgInv, RegsOK, Armed
<1>7. PulsesOK'
  BY <1>1 DEF PulsesOK
<1> QED BY <1>5, <1>6, <1>7 DEF ProgInv

LEMMA ClearStep ==
  ASSUME ProgInv, Clear
  PROVE  ProgInv'
<1> USE QspiAssumption
<1> DEFINE b == Here
<1>1. /\ call # NoCall /\ Active /\ call' = call /\ gap' = MinGap - 1
      /\ pc = "off" /\ ctrl' = CtrlOff /\ flush' = {} /\ ~rxWr' /\ ~rdEn'
  <2>1. PICK to : Set("off", "CTRL", CtrlOff, to)
    BY Zenon DEF Clear
  <2>2. /\ call # NoCall /\ pc = "off" /\ gap' = MinGap - 1 /\ call' = call
        /\ RegsEdge([reg |-> "CTRL", val |-> CtrlOff])
    BY <2>1, SetFacts, Zenon
  <2> QED BY <2>2, OffFacts, StoreFacts DEF Active
<1>2. CommandOK(b) /\ PlaceOK /\ gap' \in 0 .. MinGap - 1 /\ call \in Calls
        /\ blk \in Nat \ {0} /\ moved \in Nat
  <2>1. CommandOK(b) /\ call \in Calls /\ blk \in Nat \ {0} /\ moved \in Nat
    BY <1>1, HereOK
  <2>2. PlaceOK
    BY <1>1 DEF ProgInv, ProgOK
  <2>3. gap' \in 0 .. MinGap - 1
    BY <1>1 DEF ProgInv, ProgOK
  <2> QED BY <2>1, <2>2, <2>3
<1>3. CASE Set("off", "CTRL", CtrlOff, First(blk + 1)) /\ NextCommand
  <2>1. pc' = First(blk + 1) /\ blk' = blk + 1 /\ moved' = 0
    BY <1>3, SetFacts DEF NextCommand
  <2>2. First(blk)' = First(blk + 1)
    BY <2>1, <1>1 DEF First
  <2>3. call' \in Calls /\ blk' \in Nat \ {0} /\ pc' = First(blk)'
    BY <1>1, <1>2, <2>1, <2>2
  <2> QED BY <2>1, <2>3, <1>1, <1>2, NextBegins
<1>4. CASE Set("off", "CTRL", CtrlOff, "pop") /\ Here.pulls > 0 /\ GoOn
  <2>1. pc' = "pop" /\ blk' = blk /\ moved' = moved /\ b.pulls > 0
    BY <1>4, SetFacts DEF GoOn
  <2>2. Here' = b
    BY <1>1, <2>1 DEF Here
  <2>3. PlaceOK'
    BY <2>1, <2>2, <1>1, <1>2 DEF PlaceOK, Places, CommandOK
  <2>4. ProgOK'
    BY <2>1, <2>3, <1>1, <1>2 DEF ProgOK
  <2>5. RegsOK'
    BY <2>1, <1>1 DEF RegsOK, Armed
  <2>6. PulsesOK'
    BY <1>1 DEF PulsesOK
  <2> QED BY <2>4, <2>5, <2>6 DEF ProgInv
<1> QED BY <1>3, <1>4 DEF Clear

LEMMA PopStep ==
  ASSUME ProgInv, Pop
  PROVE  ProgInv'
<1> USE QspiAssumption
<1> DEFINE b == Here
<1>1. /\ call # NoCall /\ Active /\ blk' = blk /\ moved' = moved
      /\ call' = call /\ gap' = MinGap - 1 /\ pc = "pop"
      /\ pc' = (IF b.cmd = "RDSR" THEN "status" ELSE "take")
      /\ flush' = {} /\ ~rxWr' /\ ctrl' = ctrl
  BY AccessFacts, QuietFacts DEF Pop, GoOn, Active
<1>2. CommandOK(b) /\ PlaceOK /\ gap' \in 0 .. MinGap - 1
  BY <1>1, HereOK DEF ProgInv, ProgOK
<1>3. Here' = b
  BY <1>1 DEF Here
<1>4. PlaceOK'
  BY <1>1, <1>2, <1>3 DEF PlaceOK, Places
<1>5. ProgOK'
  BY <1>1, <1>2, <1>4 DEF ProgInv, ProgOK
<1>6. RegsOK'
  BY <1>1 DEF ProgInv, RegsOK, Armed
<1>7. PulsesOK'
  BY <1>1 DEF PulsesOK
<1> QED BY <1>5, <1>6, <1>7 DEF ProgInv

LEMMA TakeStep ==
  ASSUME ProgInv, Take
  PROVE  ProgInv'
<1> USE QspiAssumption
<1> DEFINE b == Here
<1>1. /\ call # NoCall /\ Active /\ call' = call /\ gap' = MinGap - 1
      /\ pc = "take" /\ ctrl' = ctrl /\ flush' = {} /\ ~rxWr' /\ ~rdEn'
  BY AccessFacts, QuietFacts DEF Take, Active
<1>2. CommandOK(b) /\ PlaceOK /\ gap' \in 0 .. MinGap - 1 /\ call \in Calls
        /\ blk \in Nat \ {0} /\ moved \in Nat /\ ctrl = CtrlOff
  BY <1>1, HereOK DEF ProgInv, ProgOK, RegsOK, Armed
<1>3. CASE Access("take", NoStore, First(blk + 1)) /\ NextCommand
  <2>1. pc' = First(blk + 1) /\ blk' = blk + 1 /\ moved' = 0
    BY <1>3, AccessFacts DEF NextCommand
  <2>2. First(blk)' = First(blk + 1)
    BY <2>1, <1>1 DEF First
  <2>3. call' \in Calls /\ blk' \in Nat \ {0} /\ pc' = First(blk)'
    BY <1>1, <1>2, <2>1, <2>2
  <2> QED BY <2>1, <2>3, <1>1, <1>2, NextBegins
<1>4. CASE Access("take", NoStore, "pop") /\ moved + 1 < Here.pulls
             /\ moved' = moved + 1 /\ blk' = blk
  <2>1. pc' = "pop"
    BY <1>4, AccessFacts
  <2>2. Here' = b
    BY <1>1, <1>4 DEF Here
  <2>3. PlaceOK'
    BY <2>1, <2>2, <1>1, <1>2, <1>4 DEF PlaceOK, Places
  <2>4. ProgOK'
    BY <2>1, <2>3, <1>1, <1>2 DEF ProgOK
  <2>5. RegsOK'
    BY <2>1, <1>1, <1>2 DEF RegsOK, Armed
  <2>6. PulsesOK'
    BY <1>1 DEF PulsesOK
  <2> QED BY <2>4, <2>5, <2>6 DEF ProgInv
<1> QED BY <1>3, <1>4 DEF Take

LEMMA StatusStep ==
  ASSUME ProgInv, Status
  PROVE  ProgInv'
<1> USE QspiAssumption
<1> DEFINE b == Here
<1>1. /\ call # NoCall /\ Active /\ call' = call /\ gap' = MinGap - 1
      /\ pc = "status" /\ ctrl' = ctrl /\ flush' = {} /\ ~rxWr' /\ ~rdEn'
  BY AccessFacts, QuietFacts DEF Status, Active
<1>2. CommandOK(b) /\ PlaceOK /\ gap' \in 0 .. MinGap - 1 /\ call \in Calls
        /\ blk \in Nat \ {0} /\ moved \in Nat /\ ctrl = CtrlOff
  BY <1>1, HereOK DEF ProgInv, ProgOK, RegsOK, Armed
<1>3. CASE Access("status", NoStore, First(blk + 1)) /\ NextCommand
  <2>1. pc' = First(blk + 1) /\ blk' = blk + 1 /\ moved' = 0
    BY <1>3, AccessFacts DEF NextCommand
  <2>2. First(blk)' = First(blk + 1)
    BY <2>1, <1>1 DEF First
  <2>3. call' \in Calls /\ blk' \in Nat \ {0} /\ pc' = First(blk)'
    BY <1>1, <1>2, <2>1, <2>2
  <2> QED BY <2>1, <2>3, <1>1, <1>2, NextBegins
<1>4. CASE Access("status", NoStore, "instr") /\ GoOn
  <2>1. pc' = "instr" /\ moved' = moved /\ blk' = blk
    BY <1>4, AccessFacts DEF GoOn
  <2>2. Here' = b
    BY <1>1, <2>1 DEF Here
  <2>3. b.cmd = "RDSR" /\ moved = 0 /\ b.ahead = 0
    <3>1. b.cmd = "RDSR" /\ moved < b.pulls
      BY <1>1, <1>2 DEF PlaceOK
    <3>2. b.pulls = 1 /\ b.ahead = 0
      BY <3>1, <1>2 DEF CommandOK
    <3> QED BY <3>1, <3>2, <1>2
  <2>4. PlaceOK'
    BY <2>1, <2>2, <2>3, <1>1, <1>2 DEF PlaceOK, Places
  <2>5. ProgOK'
    BY <2>1, <2>4, <1>1, <1>2 DEF ProgOK
  <2>6. RegsOK'
    BY <2>1, <1>1, <1>2 DEF RegsOK, Armed
  <2>7. PulsesOK'
    BY <1>1 DEF PulsesOK
  <2> QED BY <2>5, <2>6, <2>7 DEF ProgInv
<1> QED BY <1>3, <1>4 DEF Status

LEMMA BeginStep ==
  ASSUME ProgInv, Begin
  PROVE  ProgInv'
<1> USE QspiAssumption
<1>1. RegsEdge(NoStore) /\ call = NoCall /\ pc = "idle"
  BY DEF Begin, Edge, ProgInv, ProgOK
<1>2. /\ flush' = {} /\ ~rxWr' /\ ~rdEn' /\ ctrl' = ctrl /\ ctrl = CtrlOff
  BY <1>1, QuietFacts DEF ProgInv, RegsOK, Armed
<1>3. gap' \in 0 .. MinGap - 1
  BY DEF Begin, Elapse, ProgInv, ProgOK
<1>4. call' \in Calls /\ blk' \in Nat \ {0} /\ moved' = 0
  BY DEF Begin
<1>5. pc' = First(blk)'
  BY DEF Begin, First
<1> QED BY <1>2, <1>3, <1>4, <1>5, NextBegins

LEMMA ReturnStep ==
  ASSUME ProgInv, Return
  PROVE  ProgInv'
<1> USE QspiAssumption
<1>1. RegsEdge(NoStore) /\ call # NoCall /\ pc = "return"
  BY DEF Return, Edge, At
<1>2. /\ flush' = {} /\ ~rxWr' /\ ~rdEn' /\ ctrl' = ctrl /\ ctrl = CtrlOff
  BY <1>1, QuietFacts DEF ProgInv, RegsOK, Armed
<1>3. gap' \in 0 .. MinGap - 1
  BY DEF Return, Elapse, ProgInv, ProgOK
<1>4. call' = NoCall /\ pc' = "idle"
  BY DEF Return
<1>5. ProgOK'
  BY <1>3, <1>4 DEF ProgOK, Active
<1>6. RegsOK'
  BY <1>2, <1>4 DEF RegsOK, Armed
<1>7. PulsesOK'
  BY <1>2 DEF PulsesOK
<1> QED BY <1>5, <1>6, <1>7 DEF ProgInv

LEMMA ProgStep == ASSUME ProgInv, Next PROVE ProgInv'
<1>1. CASE Wait
  <2>1. UNCHANGED <<call, blk, pc, moved>> /\ Elapse /\ RegsEdge(NoStore)
    BY <1>1 DEF Wait, progVars, Edge
  <2> QED BY <2>1, QuietKeeps
<1> QED BY <1>1, BeginStep, ReturnStep, ConfigureStep, PushStep, PollStep,
           ClearStep, PopStep, TakeStep, StatusStep DEF Next, Program

LEMMA ProgInit == Init => ProgInv
BY QspiAssumption DEF Init, ControllerInit, ProgInv, ProgOK, RegsOK, PulsesOK,
                      Active, Armed

(* Every step is an edge of the clock.                                     *)
LEMMA EveryEdge ==
  ASSUME Next
  PROVE  ClockEdge /\ QueueEdge /\ FetchEdge /\ FsmEdge /\ ChipEdge
<1>1. \E store : Edge(store)
  BY Zenon DEF Next, Wait, Begin, Program, Return, Configure, Push, Poll,
               Clear, Pop, Take, Status, Set, Access
<1> QED BY <1>1 DEF Edge

Counted == runs' = IF Deselected THEN runs + 1 ELSE runs
LEMMA QuietRuns ==
  /\ Edge(NoStore) => Counted
  /\ Edge([reg |-> "POP"]) => Counted
  /\ \A reg, val : Edge([reg |-> reg, val |-> val]) /\ reg # "CTRL" => Counted
  /\ Edge([reg |-> "CTRL", val |-> CtrlOff]) => Counted
  /\ \A b : Edge([reg |-> "CTRL", val |-> Start(b)]) => runs' = 0
<1>1. Edge(NoStore) => Counted
  BY DEF Edge, NoStore, Starts, Counted
<1>2. Edge([reg |-> "POP"]) => Counted
  BY DEF Edge, Starts, Counted
<1>3. \A reg, val : Edge([reg |-> reg, val |-> val]) /\ reg # "CTRL" => Counted
  BY DEF Edge, Starts, Counted
<1>4. Edge([reg |-> "CTRL", val |-> CtrlOff]) => Counted
  BY OffFacts DEF Edge, Starts, Counted
<1>5. \A b : Edge([reg |-> "CTRL", val |-> Start(b)]) => runs' = 0
  BY DEF Edge, Starts, Start
<1> QED BY <1>1, <1>2, <1>3, <1>4, <1>5

(* How a step moves the program, as far as the controller can tell.        *)
Kept == /\ UNCHANGED <<call, blk, ctrl, instr, addr, cnt>>
        /\ (pc' = "off" => pc = "off" \/ done)
Moves ==
  /\ Armed /\ Armed' => Kept /\ Counted
  /\ Armed /\ ~Armed' => pc = "off" /\ Elapsed' = 1 /\ Counted
  /\ ~Armed /\ Armed' =>
       /\ pc = "start" /\ gap = 0 /\ pc' # "off" /\ runs' = 0
       /\ UNCHANGED <<call, blk, moved>>
  /\ ~Armed /\ ~Armed' => Elapsed' <= Elapsed + 1

LEMMA FirstPlaces ==
  /\ \A n : First(n) \in {"return", "flush", "ahead", "instr"}
  /\ First(1)' \in {"return", "flush", "ahead", "instr"}
BY DEF First

LEMMA ProgramMoves ==
  ASSUME ProgInv, Next
  PROVE  Moves
<1> USE QspiAssumption
<1>1. gap \in 0 .. MinGap - 1 /\ MinGap \in Nat
  BY DEF ProgInv, ProgOK
<1>2. CASE Wait
  <2>1. /\ UNCHANGED <<call, blk, pc, moved>> /\ Elapse /\ RegsEdge(NoStore)
        /\ Counted
    BY <1>2, QuietRuns DEF Wait, progVars, Edge
  <2>2. UNCHANGED <<ctrl, instr, addr, cnt>>
    BY <2>1, QuietFacts
  <2>3. Elapsed' <= Elapsed + 1
    BY <2>1, <1>1 DEF Elapse, Elapsed
  <2> QED BY <2>1, <2>2, <2>3 DEF Moves, Kept, Armed
<1>3. CASE Begin
  <2>1. ~Armed /\ pc = "idle" /\ pc' = First(1)' /\ Elapse
    BY <1>3 DEF Begin, Armed, ProgInv, ProgOK
  <2>2. ~Armed' /\ pc' \notin {"start", "addr", "count"}
    BY <2>1, FirstPlaces DEF Armed
  <2>3. Elapsed' <= Elapsed + 1
    BY <2>1, <2>2, <1>1 DEF Elapse, Elapsed
  <2> QED BY <2>1, <2>2, <2>3 DEF Moves
<1>4. CASE Return
  <2>1. ~Armed /\ pc = "return" /\ pc' = "idle" /\ call' = NoCall /\ Elapse
    BY <1>4 DEF Return, Armed, At
  <2>2. ~Armed'
    BY <2>1 DEF Armed
  <2>3. Elapsed' <= Elapsed + 1
    BY <2>1, <1>1 DEF Elapse, Elapsed
  <2> QED BY <2>1, <2>2, <2>3 DEF Moves
<1>5. CASE Configure
  <2>1. CASE Set("start", "CTRL", Start(Here),
                 IF moved < Here.pushes THEN "rest" ELSE "poll")
    <3>1. /\ pc = "start" /\ gap = 0 /\ pc' \in {"rest", "poll"}
          /\ UNCHANGED <<call, blk, moved>> /\ call # NoCall
          /\ Edge([reg |-> "CTRL", val |-> Start(Here)])
      <4>1. blk' = blk /\ moved' = moved
        BY <1>5 DEF Configure, GoOn
      <4>2. /\ pc = "start" /\ gap = 0 /\ call' = call /\ call # NoCall
            /\ pc' = (IF moved < Here.pushes THEN "rest" ELSE "poll")
            /\ Edge([reg |-> "CTRL", val |-> Start(Here)])
        BY <2>1 DEF Set, Access, At
      <4> QED BY <4>1, <4>2
    <3>2. runs' = 0
      BY <3>1, QuietRuns
    <3> QED BY <3>1, <3>2 DEF Moves, Armed
  <2>2. CASE ~Set("start", "CTRL", Start(Here),
                  IF moved < Here.pushes THEN "rest" ELSE "poll")
    <3>1. /\ pc \in {"flush", "flushed", "instr", "addr", "count"}
          /\ gap = 0 /\ gap' = MinGap - 1
          /\ pc' = "start" => pc = "count"
          /\ pc' \in {"addr", "count"} => pc \in {"addr", "instr"}
          /\ pc' \in {"flushed", "instr", "addr", "count", "start"}
      BY <1>5, <2>2 DEF Set, Access, At, Configure
    <3>2. ~Armed /\ ~Armed'
      BY <3>1 DEF Armed
    <3>3. Elapsed' <= Elapsed + 1
      BY <3>1, <1>1 DEF Elapsed
    <3> QED BY <3>2, <3>3 DEF Moves
  <2> QED BY <2>1, <2>2
<1>6. CASE Push
  <2>1. CASE pc = "ahead"
    <3>1. pc' \in {"ahead", "instr"} /\ gap = 0 /\ gap' = MinGap - 1
      BY <1>6, <2>1 DEF Set, Access, At, Push
    <3> QED BY <2>1, <3>1, <1>1 DEF Moves, Armed, Elapsed
  <2>2. CASE pc # "ahead"
    <3>1. /\ pc = "rest" /\ pc' \in {"rest", "poll"} /\ call # NoCall
          /\ UNCHANGED <<call, blk>>
          /\ \E val : Edge([reg |-> "DATA", val |-> val])
      BY <1>6, <2>2 DEF Set, Access, At, Push
    <3>2. PICK val : Edge([reg |-> "DATA", val |-> val])
      BY <3>1
    <3>3. Counted /\ RegsEdge([reg |-> "DATA", val |-> val])
      BY <3>2, QuietRuns DEF Edge
    <3>4. UNCHANGED <<ctrl, instr, addr, cnt>>
      BY <3>3, StoreFacts
    <3> QED BY <3>1, <3>3, <3>4 DEF Moves, Armed, Kept
  <2> QED BY <2>1, <2>2
<1>7. CASE Poll
  <2>1. /\ pc = "poll" /\ call # NoCall /\ UNCHANGED <<call, blk>>
        /\ pc' = (IF done THEN "off" ELSE "poll") /\ Edge(NoStore)
    BY <1>7 DEF Poll, Access, At, GoOn
  <2>2. Counted /\ UNCHANGED <<ctrl, instr, addr, cnt>>
    BY <2>1, QuietRuns, QuietFacts DEF Edge
  <2> QED BY <2>1, <2>2 DEF Moves, Armed, Kept
<1>8. CASE Clear
  <2>1. /\ pc = "off" /\ call # NoCall /\ gap' = MinGap - 1
        /\ pc' \in {"return", "flush", "ahead", "instr", "pop"}
        /\ Edge([reg |-> "CTRL", val |-> CtrlOff])
    BY <1>8, FirstPlaces DEF Clear, Set, Access, At
  <2>2. Counted
    BY <2>1, QuietRuns
  <2>3. Elapsed' = 1
    BY <2>1, <1>1 DEF Elapsed
  <2> QED BY <2>1, <2>2, <2>3 DEF Moves, Armed
<1>9. CASE Pop \/ Take \/ Status
  <2>1. /\ pc \in {"pop", "take", "status"} /\ gap = 0 /\ gap' = MinGap - 1
        /\ pc' \in {"return", "flush", "ahead", "instr", "pop", "take",
                    "status"}
    BY <1>9, FirstPlaces DEF Pop, Take, Status, Access, At
  <2> QED BY <2>1, <1>1 DEF Moves, Armed, Elapsed
<1> QED BY <1>2, <1>3, <1>4, <1>5, <1>6, <1>7, <1>8, <1>9 DEF Next, Program

LEMMA ArmedHere ==
  ASSUME ProgInv, Armed, Armed', Moves
  PROVE  Here' = Here /\ Kept /\ Counted
BY DEF Moves, Kept, Here

-----------------------------------------------------------------------------
(* The serial clock.                                                       *)
LEMMA ClockStep ==
  ASSUME ClockOK, ClockEdge
  PROVE  /\ ClockOK'
         /\ SinceRise \in 1 .. 2 * Div /\ SinceFall \in 1 .. 2 * Div
         /\ rise => SinceRise = 2 * Div /\ SinceRise' = 1
         /\ ~rise => SinceRise' = SinceRise + 1 /\ SinceRise < 2 * Div
         /\ fall => SinceFall = 2 * Div /\ SinceFall' = 1
         /\ ~fall /\ state # "IDLE" =>
              SinceFall' = SinceFall + 1 /\ SinceFall < 2 * Div
         /\ ~(rise /\ fall)
<1>1. /\ Div \in Nat /\ Div >= 2 /\ div \in 0 .. Div - 1
      /\ rise <=> clk /\ div = 0
      /\ fall => ~clk /\ div = 0
      /\ ~clk /\ div = 0 => fall \/ state = "IDLE"
  BY QspiAssumption DEF ClockOK
<1>2. {clk', rise', fall'} \subseteq BOOLEAN
  BY Zenon DEF ClockOK, ClockEdge
<1>3. div = Div - 1 => /\ div' = 0
                       /\ clk' <=> ~clk
                       /\ rise' <=> ~clk
                       /\ fall' <=> clk
  BY Zenon DEF ClockOK, ClockEdge, Tick
<1>4. div # Div - 1 => div' = div + 1 /\ (clk' <=> clk) /\ ~rise' /\ ~fall'
  BY Zenon DEF ClockOK, ClockEdge, Tick
<1>5. /\ div' \in 0 .. Div - 1
      /\ rise' <=> clk' /\ div' = 0
      /\ fall' => ~clk' /\ div' = 0
      /\ ~clk' /\ div' = 0 => fall'
  BY <1>1, <1>3, <1>4
<1>6. ClockOK'
  BY <1>2, <1>5 DEF ClockOK
<1>7. SinceRise \in 1 .. 2 * Div /\ SinceFall \in 1 .. 2 * Div
  BY <1>1 DEF SinceRise, SinceFall
<1>8. /\ rise => SinceRise = 2 * Div /\ SinceRise' = 1
      /\ ~rise => SinceRise' = SinceRise + 1 /\ SinceRise < 2 * Div
  BY <1>1, <1>3, <1>4 DEF SinceRise
<1>9. /\ fall => SinceFall = 2 * Div /\ SinceFall' = 1
      /\ ~fall /\ state # "IDLE" =>
           SinceFall' = SinceFall + 1 /\ SinceFall < 2 * Div
  BY <1>1, <1>3, <1>4 DEF SinceFall
<1> QED BY <1>1, <1>6, <1>7, <1>8, <1>9

-----------------------------------------------------------------------------
(* START and DONE.                                                         *)
LEMMA CtrlFacts ==
  ASSUME RegsOK
  PROVE  /\ ctrl.start <=> Armed
         /\ Armed => /\ ctrl.addr <=> Here.page # Nil
                     /\ ctrl.mode = Here.mode /\ ctrl.dir = Here.dir
                     /\ ctrl.dummy = Here.dummy
                     /\ instr = Here.cmd /\ cnt = Here.count
                     /\ Here.page # Nil => addr = Here.page
         /\ ~Armed => ctrl.mode = 0
BY DEF RegsOK, Armed, Start, FlushTx, CtrlOff

(* The states in which the transaction machine can be after an edge.       *)
Still == /\ state' = state /\ cntRise' = cntRise
         /\ (csN' <=> csN) /\ (outEn' <=> outEn) /\ (done' <=> done)

LEMMA FsmControl ==
  ASSUME FsmEdge
  PROVE  /\ state = "IDLE" /\ ~rise => Still
         /\ state = "IDLE" /\ rise =>
              /\ ~outEn' /\ csN' /\ ~done' /\ cntRise' = 0
              /\ state' = IF ctrl.start THEN "CS" ELSE "IDLE"
         /\ state = "CS" /\ ~rise => Still
         /\ state = "CS" /\ rise /\ cntRise = 0 =>
              ~csN' /\ state' = "CMD" /\ (done' <=> done)
         /\ state \in Busy =>
              /\ state' \in Busy \cup {"DONE"} /\ (done' <=> done)
              /\ (state = "END" \/ (csN' <=> csN)) /\ (state = "END" /\ csN' => csN)
              /\ state' = "DONE" => ~outEn'
         /\ state = "DONE" /\ ~rise => Still
         /\ state = "DONE" /\ rise =>
              /\ csN' /\ done' /\ outEn' = outEn
              /\ state' = IF ctrl.start THEN "DONE" ELSE "IDLE"
<1>0. UNCHANGED fsmVars => Still
  BY DEF fsmVars, Still
<1> USE DEF FsmEdge
<1>1. state = "IDLE" /\ ~rise => Still
  BY <1>0 DEF Idle, Select, Sample, Complete, SendCmd, SendAddress, SendDummy,
         ReadPre, SendData, ReadData, End, Rest
<1>2. state = "IDLE" /\ rise =>
        /\ ~outEn' /\ csN' /\ ~done' /\ cntRise' = 0
        /\ state' = IF ctrl.start THEN "CS" ELSE "IDLE"
  BY DEF Idle, Select, Sample, Complete, SendCmd, SendAddress, SendDummy,
         ReadPre, SendData, ReadData, End, Rest, ActsOnRise
<1>3. state = "CS" /\ ~rise => Still
  BY <1>0 DEF Idle, Select, Sample, Complete, SendCmd, SendAddress, SendDummy,
         ReadPre, SendData, ReadData, End, Rest
<1>4. state = "CS" /\ rise /\ cntRise = 0 =>
        ~csN' /\ state' = "CMD" /\ (done' <=> done)
  BY DEF Idle, Select, Sample, Complete, SendCmd, SendAddress, SendDummy,
         ReadPre, SendData, ReadData, End, Rest, ActsOnRise
<1>5. state \in Busy =>
        /\ state' \in Busy \cup {"DONE"} /\ (done' <=> done)
        /\ (state = "END" \/ (csN' <=> csN)) /\ (state = "END" /\ csN' => csN)
        /\ state' = "DONE" => ~outEn'
  BY <1>0
  DEF Still, Idle, Select, Sample, Complete, SendCmd, SendAddress, SendDummy,
      ReadPre, SendData, ReadData, End, Rest, Busy, DataPhase
<1>6. state = "DONE" /\ ~rise => Still
  BY <1>0 DEF Idle, Select, Sample, Complete, SendCmd, SendAddress, SendDummy,
         ReadPre, SendData, ReadData, End, Rest
<1>7. state = "DONE" /\ rise =>
        /\ csN' /\ done' /\ outEn' = outEn
        /\ state' = IF ctrl.start THEN "DONE" ELSE "IDLE"
  BY DEF Idle, Select, Sample, Complete, SendCmd, SendAddress, SendDummy,
         ReadPre, SendData, ReadData, End, Rest, ActsOnRise
<1> QED BY <1>1, <1>2, <1>3, <1>4, <1>5, <1>6, <1>7

LEMMA HandStep ==
  ASSUME ProgInv, ProgInv', ClockOK, HandOK, Next
  PROVE  HandOK'
<1> USE QspiAssumption
<1>1. FsmEdge /\ ClockEdge /\ Moves
  BY EveryEdge, ProgramMoves
<1>2. /\ SinceRise \in 1 .. 2 * Div
      /\ rise => SinceRise = 2 * Div /\ SinceRise' = 1
      /\ ~rise => SinceRise' = SinceRise + 1 /\ SinceRise < 2 * Div
  BY <1>1, ClockStep
<1>3. (ctrl.start <=> Armed) /\ gap \in 0 .. MinGap - 1
        /\ gap' \in 0 .. MinGap - 1
  BY CtrlFacts DEF ProgInv, ProgOK
<1>4. Elapsed \in Int /\ Elapsed' \in Int /\ MinGap \in Nat
  BY <1>3 DEF Elapsed
<1>5. state' \in ActsOnRise \cup ActsOnFall
  BY <1>1, FsmControl DEF HandOK, ActsOnRise, ActsOnFall, Busy, Still
<1>6. ASSUME ~Armed, ~Armed' PROVE HandOK'
  <2>1. Elapsed' <= Elapsed + 1
    BY <1>1, <1>6 DEF Moves
  <2>2. /\ state \in {"IDLE", "DONE"} /\ csN /\ ~outEn
        /\ state = "DONE" => done /\ Elapsed <= SinceRise
        /\ state = "IDLE" /\ done => Elapsed <= 2 * Div + SinceRise
    BY <1>6 DEF HandOK
  <2>3. CASE ~rise
    <3>1. state' = state /\ csN' /\ ~outEn' /\ (done' <=> done)
      BY <1>1, <2>2, <2>3, FsmControl DEF Still
    <3> QED BY <3>1, <2>1, <2>2, <2>3, <1>2, <1>4, <1>5, <1>6 DEF HandOK
  <2>4. CASE rise /\ state = "IDLE"
    <3>1. state' = "IDLE" /\ csN' /\ ~outEn' /\ ~done'
      BY <1>1, <1>3, <1>6, <2>4, FsmControl
    <3> QED BY <3>1, <1>5, <1>6 DEF HandOK
  <2>5. CASE rise /\ state = "DONE"
    <3>1. state' = "IDLE" /\ csN' /\ ~outEn'
      BY <1>1, <1>3, <1>6, <2>2, <2>5, FsmControl
    <3>2. Elapsed' <= 2 * Div + SinceRise'
      BY <2>1, <2>2, <2>5, <1>2, <1>4
    <3> QED BY <3>1, <3>2, <1>5, <1>6 DEF HandOK
  <2> QED BY <2>2, <2>3, <2>4, <2>5
<1>7. ASSUME ~Armed, Armed' PROVE HandOK'
  <2>1. pc = "start" /\ gap = 0 /\ pc' # "off" /\ runs' = 0
    BY <1>1, <1>7 DEF Moves
  <2>2. Elapsed = 3 * MinGap
    BY <2>1, <1>4 DEF Elapsed
  <2>3. /\ state \in {"IDLE", "DONE"} /\ csN /\ ~outEn
        /\ state = "DONE" => done /\ Elapsed <= SinceRise
        /\ state = "IDLE" /\ done => Elapsed <= 2 * Div + SinceRise
    BY <1>7 DEF HandOK
  <2>4. state = "IDLE" /\ (~done \/ rise)
    <3>1. PICK e \in Int : e = Elapsed
      BY <1>4
    <3>2. Div \in Nat /\ Div >= 2 /\ 4 * Div <= e
      BY <2>2, <3>1
    <3>3. state # "DONE"
      BY <1>2, <2>3, <3>1, <3>2
    <3>4. done => rise
      BY <1>2, <2>3, <3>1, <3>2, <3>3
    <3> QED BY <2>3, <3>3, <3>4
  <2>5. state' = "IDLE" /\ csN' /\ ~outEn' /\ ~done'
    BY <1>1, <1>3, <1>7, <2>3, <2>4, FsmControl DEF Still
  <2> QED BY <2>1, <2>5, <1>5, <1>7 DEF HandOK, Busy
<1>8. ASSUME Armed, ~Armed' PROVE HandOK'
  <2>1. pc = "off" /\ Elapsed' = 1
    BY <1>1, <1>8 DEF Moves
  <2>2. state = "DONE" /\ done /\ csN /\ ~outEn
    BY <2>1, <1>8 DEF HandOK
  <2>3. state' = "DONE" /\ done' /\ csN' /\ ~outEn'
    BY <1>1, <1>3, <1>8, <2>2, FsmControl DEF Still
  <2> QED BY <2>1, <2>3, <1>2, <1>4, <1>5, <1>8 DEF HandOK
<1>9. ASSUME Armed, Armed' PROVE HandOK'
  <2>1. pc' = "off" => pc = "off" \/ done
    BY <1>1, <1>9 DEF Moves, Kept
  <2>2. runs' = IF ~csN /\ csN' THEN runs + 1 ELSE runs
    BY <1>1, <1>9 DEF Moves, Counted, Deselected
  <2>3. /\ state \in {"IDLE", "CS"} => csN /\ ~outEn /\ ~done /\ runs = 0
        /\ state = "CS" => cntRise = 0
        /\ state \in Busy => ~csN /\ ~done /\ runs = 0
        /\ state = "DONE" =>
             ~outEn /\ (done <=> csN) /\ runs = (IF done THEN 1 ELSE 0)
        /\ pc = "off" => state = "DONE" /\ done
    BY <1>9 DEF HandOK
  <2>4. CASE state = "IDLE"
    <3>1. csN' /\ ~outEn' /\ ~done' /\ (state' = "CS" => cntRise' = 0)
            /\ state' \in {"IDLE", "CS"}
      BY <1>1, <2>3, <2>4, FsmControl DEF Still
    <3> QED BY <3>1, <2>1, <2>2, <2>3, <2>4, <1>5, <1>9 DEF HandOK, Busy
  <2>5. CASE state = "CS"
    <3>1. \/ /\ csN' /\ ~outEn' /\ ~done' /\ cntRise' = 0
             /\ state' = "CS"
          \/ ~csN' /\ state' = "CMD" /\ ~done'
      BY <1>1, <2>3, <2>5, FsmControl DEF Still
    <3> QED BY <3>1, <2>1, <2>2, <2>3, <2>5, <1>5, <1>9 DEF HandOK, Busy
  <2>6. CASE state \in Busy
    <3>1. state' \in Busy \cup {"DONE"} /\ ~done' /\ ~csN'
            /\ (state' = "DONE" => ~outEn')
      BY <1>1, <2>3, <2>6, FsmControl
    <3> QED BY <3>1, <2>1, <2>2, <2>3, <2>6, <1>5, <1>9 DEF HandOK, Busy
  <2>7. CASE state = "DONE"
    <3>1. \/ (csN' <=> csN) /\ (done' <=> done) /\ ~outEn' /\ state' = "DONE"
          \/ csN' /\ done' /\ ~outEn' /\ state' = "DONE"
      BY <1>1, <1>3, <1>9, <2>3, <2>7, FsmControl DEF Still
    <3> QED BY <3>1, <2>1, <2>2, <2>3, <2>7, <1>5, <1>9 DEF HandOK, Busy
  <2> QED BY <2>4, <2>5, <2>6, <2>7 DEF HandOK, Busy, ActsOnRise, ActsOnFall
<1> QED BY <1>6, <1>7, <1>8, <1>9

ControlInv == ClockOK /\ ProgInv /\ HandOK

LEMMA ControlInit == Init => ControlInv
<1> SUFFICES ASSUME Init PROVE ControlInv
  OBVIOUS
<1> USE QspiAssumption
<1>1. {clk, rise, fall} \subseteq BOOLEAN
  BY Zenon DEF Init, ControllerInit
<1>2. ClockOK
  BY <1>1 DEF Init, ControllerInit, ClockOK
<1>3. HandOK
  BY DEF Init, ControllerInit, HandOK, Armed, ActsOnRise
<1> QED BY <1>2, <1>3, ProgInit DEF ControlInv

LEMMA ControlStep == ControlInv /\ [Next]_vars => ControlInv'
<1> SUFFICES ASSUME ControlInv, [Next]_vars PROVE ControlInv'
  OBVIOUS
<1>1. CASE Next
  BY <1>1, EveryEdge, ClockStep, ProgStep, HandStep DEF ControlInv
<1>2. CASE UNCHANGED vars
  <2>1. ClockOK'
    BY <1>2, Zenon DEF vars, clockVars, fsmVars, ControlInv, ClockOK
  <2>2. UNCHANGED <<call, blk, pc, moved, gap>> /\ UNCHANGED regVars
    BY <1>2 DEF vars, progVars
  <2>3. /\ Here' = Here /\ (Active' <=> Active) /\ (Armed' <=> Armed)
    BY <2>2 DEF Here, Active, Armed
  <2>4. (PlaceOK => PlaceOK') /\ (RegsOK => RegsOK') /\ (PulsesOK => PulsesOK')
    BY <2>2, <2>3 DEF PlaceOK, RegsOK, PulsesOK, regVars
  <2>5. ProgInv'
    BY <2>2, <2>3, <2>4 DEF ControlInv, ProgInv, ProgOK
  <2>6. HandOK'
    BY <1>2, <2>2, <2>3
    DEF vars, fsmVars, clockVars, ControlInv, HandOK, Elapsed, SinceRise
  <2> QED BY <2>1, <2>5, <2>6 DEF ControlInv
<1> QED BY <1>1, <1>2

(* START, DONE, the serial clock and the place of the driver stay in step, *)
(* whatever the phase of the clock at which the program makes its stores.  *)
THEOREM ControlCorrect == Spec => []ControlInv
BY ControlInit, ControlStep, PTL DEF Spec

(* The DONE the program sees is that of the command it has started last,   *)
(* and the chip has got that command once, for every divider and every     *)
(* pace of the program that keeps its distance between two accesses.       *)
THEOREM DoneIsOwnCorrect == Spec => []DoneIsOwn
<1>1. ControlInv => DoneIsOwn
  BY DEF ControlInv, HandOK, DoneIsOwn, At, Armed, Busy, ActsOnRise, ActsOnFall
<1> QED BY <1>1, ControlCorrect, PTL

-----------------------------------------------------------------------------
(* Quotients and remainders.                                               *)
LEMMA DivUnique ==
  ASSUME NEW b \in Nat \ {0}, NEW q \in Nat, NEW r \in 0 .. b - 1
  PROVE  (q * b + r) % b = r /\ (q * b + r) \div b = q
OBVIOUS

LEMMA ModSmall ==
  ASSUME NEW b \in Nat \ {0}, NEW r \in 0 .. b - 1
  PROVE  r % b = r
OBVIOUS

(* Where in its word and in its page a byte lies.                          *)
LEMMA Split ==
  ASSUME NEW q \in Nat, NEW f \in Nat, q * WordBytes <= f,
         f < (q + 1) * WordBytes
  PROVE  /\ f \div WordBytes = q /\ f % WordBytes = f - q * WordBytes
         /\ f % WordBytes = WordBytes - 1 <=> f + 1 = (q + 1) * WordBytes
<1>1. WordBytes \in Nat \ {0}
  BY QspiAssumption
<1>2. q * WordBytes \in Nat /\ (q + 1) * WordBytes = q * WordBytes + WordBytes
  BY <1>1
<1> DEFINE r == f - q * WordBytes
<1>3. r \in 0 .. WordBytes - 1 /\ f = q * WordBytes + r
  BY <1>1, <1>2
<1>4. f \div WordBytes = q /\ f % WordBytes = r
  BY <1>1, <1>3, DivUnique
<1> QED BY <1>1, <1>2, <1>3, <1>4

-----------------------------------------------------------------------------
(* What the transaction machine counts.                                    *)
LEMMA MachineRuns ==
  ASSUME ControlInv, ControlInv', Next
  PROVE  /\ FsmEdge /\ ClockEdge /\ Moves
         /\ state \notin {"IDLE", "DONE"} => Armed
         /\ state' \notin {"IDLE", "DONE"} => Armed'
         /\ Armed /\ Armed' =>
              /\ Here' = Here /\ UNCHANGED <<call, blk, ctrl, instr, addr, cnt>>
         /\ Armed => /\ CommandOK(Here) /\ ctrl.start
                     /\ ctrl.addr <=> Here.page # Nil
                     /\ ctrl.mode = Here.mode /\ ctrl.dir = Here.dir
                     /\ ctrl.dummy = Here.dummy
                     /\ instr = Here.cmd /\ cnt = Here.count
                     /\ cnt \in 0 .. PageBytes - 1
                     /\ Here.page # Nil => addr = Here.page
         /\ ctrl.start <=> Armed
         /\ ~(rise /\ fall)
         /\ {rise, fall} \subseteq BOOLEAN
<1>1. FsmEdge /\ ClockEdge /\ Moves
  BY EveryEdge, ProgramMoves DEF ControlInv
<1>2. /\ state \notin {"IDLE", "DONE"} => Armed
      /\ state' \notin {"IDLE", "DONE"} => Armed'
  BY DEF ControlInv, HandOK
<1>3. Armed /\ Armed' =>
        /\ Here' = Here /\ UNCHANGED <<call, blk, ctrl, instr, addr, cnt>>
  BY <1>1, ArmedHere DEF ControlInv, Kept
<1>4. Armed => CommandOK(Here)
  BY HereOK DEF ControlInv, Armed, Active
<1>5. Armed => Here.count \in 0 .. PageBytes - 1
  BY <1>4 DEF CommandOK
<1>6. ~(rise /\ fall)
  BY <1>1, ClockStep DEF ControlInv
<1>7. {rise, fall} \subseteq BOOLEAN
  BY Zenon DEF ControlInv, ClockOK
<1> QED BY <1>1, <1>2, <1>3, <1>4, <1>5, <1>6, <1>7, CtrlFacts
        DEF ControlInv, ProgInv

LEMMA PhaseStep ==
  ASSUME ControlInv, ControlInv', PhaseOK, Next
  PROVE  PhaseOK'
<1> USE QspiAssumption, Sizes
<1> DEFINE b == Here
<1>1. /\ FsmEdge /\ (state \notin {"IDLE", "DONE"} => Armed)
      /\ (state' \notin {"IDLE", "DONE"} => Armed')
      /\ Armed /\ Armed' => Here' = b /\ cnt' = cnt
      /\ Armed => /\ CommandOK(b)
                  /\ ctrl.addr <=> b.page # Nil
                  /\ ctrl.mode = b.mode /\ ctrl.dir = b.dir
                  /\ ctrl.dummy = b.dummy /\ cnt \in 0 .. PageBytes - 1
      /\ ~(rise /\ fall)
  BY MachineRuns
<1>2. CASE Rest
  <2>1. UNCHANGED <<state, cntFall, flow, outEn, doWrite>>
    BY <1>2 DEF Rest, fsmVars
  <2>2. CASE state \in {"IDLE", "DONE", "CS"}
    BY <2>1, <2>2 DEF PhaseOK
  <2>3. CASE state \notin {"IDLE", "DONE", "CS"}
    BY <1>1, <2>1, <2>3 DEF PhaseOK, LastOfWord
  <2> QED BY <2>2, <2>3
<1>3. CASE Idle \/ Complete
  <2>1. state' \in {"IDLE", "DONE", "CS"} /\ ~doWrite' /\ Here' = Here'
    BY <1>3 DEF Idle, Complete, PhaseOK
  <2> QED BY <2>1 DEF PhaseOK
<1>4. CASE Select
  <2>1. \/ state' = "CS"
        \/ state' = "CMD" /\ cntFall' = CmdBits - 1 /\ flow' = 0
    BY <1>4 DEF Select
  <2>2. ~outEn' /\ ~doWrite'
    BY <1>4 DEF Select, PhaseOK, ControlInv, HandOK
  <2> QED BY <2>1, <2>2 DEF PhaseOK
<1>5. CASE Sample
  <2>1. UNCHANGED <<state, cntFall, flow, outEn, doWrite>> /\ state = "READ"
    BY <1>5 DEF Sample
  <2> QED BY <1>1, <2>1 DEF PhaseOK
<1>6. CASE SendCmd
  <2>1. /\ state = "CMD" /\ outEn' /\ doWrite' = doWrite
        /\ \/ state' = "CMD" /\ cntFall # 0 /\ cntFall' = cntFall - 1
              /\ flow' = flow
           \/ state' = "ADDR" /\ ctrl.addr /\ cntFall' = AddrBits - 1
              /\ flow' = flow
           \/ state' = DataPhase /\ ~ctrl.addr /\ ctrl.mode = 1
              /\ cntFall' = ByteBits - 1 /\ flow' = 0
           \/ state' = "END"
    BY <1>6 DEF SendCmd
  <2>2. ~doWrite' /\ Armed /\ cntFall \in 0 .. CmdBits - 1 /\ flow = 0
    BY <1>1, <2>1 DEF PhaseOK
  <2>3. CommandOK(b) /\ (ctrl.addr <=> b.page # Nil) /\ ctrl.mode = b.mode
          /\ ctrl.dir = b.dir
    BY <1>1, <2>2
  <2>4. CASE state' = "CMD" /\ cntFall # 0 /\ cntFall' = cntFall - 1
               /\ flow' = flow
    BY <2>1, <2>2, <2>4 DEF PhaseOK
  <2>5. CASE state' = "ADDR" /\ ctrl.addr /\ cntFall' = AddrBits - 1
               /\ flow' = flow
    <3>1. Addressed(b.cmd)
      BY <2>3, <2>5 DEF CommandOK
    <3>2. AddrBits - 1 \in 0 .. AddrBits - 1
      OBVIOUS
    <3> QED BY <1>1, <2>1, <2>2, <2>5, <3>1, <3>2 DEF PhaseOK
  <2>6. CASE state' = DataPhase /\ ~ctrl.addr /\ ctrl.mode = 1
               /\ cntFall' = ByteBits - 1 /\ flow' = 0
    <3>1. state' = "PRE" /\ b.mode = 1 /\ b.dir = "read"
      BY <2>3, <2>6 DEF DataPhase, CommandOK, Addressed
    <3> QED BY <1>1, <2>1, <2>2, <2>6, <3>1 DEF PhaseOK
  <2>7. CASE state' = "END"
    BY <2>1, <2>2, <2>7 DEF PhaseOK
  <2> QED BY <2>1, <2>4, <2>5, <2>6, <2>7
<1>7. CASE SendAddress
  <2>1. /\ state = "ADDR" /\ outEn' = outEn /\ doWrite' = doWrite
        /\ \/ state' = "ADDR" /\ cntFall # 0 /\ cntFall' = cntFall - 1
              /\ flow' = flow
           \/ state' = DataPhase /\ ctrl.mode = 1 /\ ctrl.dummy = 0
              /\ cntFall' = ByteBits - 1 /\ flow' = 0
           \/ state' = "DUMMY" /\ ctrl.mode = 1 /\ ctrl.dummy # 0
              /\ cntFall' = ctrl.dummy - 1 /\ flow' = flow
           \/ state' = "END"
           \/ ctrl.mode \notin {0, 1}
    BY <1>7 DEF SendAddress
  <2>2. ~doWrite' /\ Armed /\ cntFall \in 0 .. AddrBits - 1 /\ flow = 0
          /\ outEn' /\ Addressed(b.cmd)
    BY <1>1, <2>1 DEF PhaseOK
  <2>3. CommandOK(b) /\ ctrl.dummy = b.dummy /\ ctrl.mode = b.mode
          /\ ctrl.dir = b.dir /\ cnt \in 0 .. PageBytes - 1
    BY <1>1, <2>2
  <2>4. CASE state' = "ADDR" /\ cntFall # 0 /\ cntFall' = cntFall - 1
               /\ flow' = flow
    BY <1>1, <2>1, <2>2, <2>4 DEF PhaseOK
  <2>5. CASE state' = DataPhase /\ ctrl.mode = 1 /\ ctrl.dummy = 0
               /\ cntFall' = ByteBits - 1 /\ flow' = 0
    <3>1. \/ state' = "PRE" /\ b.mode = 1 /\ b.dir = "read"
          \/ state' = "SEND" /\ b.cmd = "PP"
      BY <2>3, <2>5 DEF DataPhase, CommandOK
    <3>2. Here' = b /\ cnt' = cnt
      BY <1>1, <2>2, <3>1
    <3>3. CASE state' = "PRE" /\ b.mode = 1 /\ b.dir = "read"
      BY <2>2, <2>5, <3>2, <3>3 DEF PhaseOK
    <3>4. CASE state' = "SEND" /\ b.cmd = "PP"
      BY <2>2, <2>3, <2>5, <3>2, <3>4 DEF PhaseOK
    <3> QED BY <3>1, <3>3, <3>4
  <2>6. CASE state' = "DUMMY" /\ ctrl.mode = 1 /\ ctrl.dummy # 0
               /\ cntFall' = ctrl.dummy - 1 /\ flow' = flow
    <3>1. b.cmd = "FAST" /\ ctrl.dummy = DummyBits
      BY <2>3, <2>6 DEF CommandOK
    <3> QED BY <1>1, <2>1, <2>2, <2>6, <3>1 DEF PhaseOK
  <2>7. CASE state' = "END"
    BY <2>1, <2>2, <2>7 DEF PhaseOK
  <2>8. ctrl.mode \in {0, 1}
    BY <2>3 DEF CommandOK
  <2> QED BY <2>1, <2>4, <2>5, <2>6, <2>7, <2>8
<1>8. CASE SendDummy
  <2>1. /\ state = "DUMMY" /\ outEn' = outEn /\ doWrite' = doWrite
        /\ flow' = flow
        /\ \/ state' = "DUMMY" /\ cntFall # 0 /\ cntFall' = cntFall - 1
           \/ state' = "PRE" /\ cntFall' = ByteBits - 1
    BY <1>8 DEF SendDummy
  <2>2. ~doWrite' /\ Armed /\ cntFall \in 0 .. DummyBits - 1 /\ flow = 0
          /\ outEn' /\ b.cmd = "FAST" /\ CommandOK(b)
    BY <1>1, <2>1 DEF PhaseOK
  <2>3. b.mode = 1 /\ b.dir = "read"
    BY <2>2 DEF CommandOK
  <2>4. state' \in {"DUMMY", "PRE"} => Armed' /\ Here' = b
    BY <1>1, <2>2
  <2>5. CASE state' = "DUMMY" /\ cntFall # 0 /\ cntFall' = cntFall - 1
    BY <2>1, <2>2, <2>4, <2>5 DEF PhaseOK
  <2>6. CASE state' = "PRE" /\ cntFall' = ByteBits - 1
    BY <2>1, <2>2, <2>3, <2>4, <2>6 DEF PhaseOK
  <2> QED BY <2>1, <2>5, <2>6
<1>9. CASE ReadPre
  <2>1. UNCHANGED <<outEn, cntFall, flow, doWrite>> /\ state = "PRE"
          /\ state' = "READ" /\ Armed
    BY <1>1, <1>9 DEF ReadPre
  <2>2. /\ cntFall = ByteBits - 1 /\ flow = 0 /\ outEn /\ ~doWrite
        /\ b.mode = 1 /\ b.dir = "read"
    BY <2>1 DEF PhaseOK
  <2>3. Armed' /\ Here' = b /\ cnt' = cnt /\ cnt \in 0 .. PageBytes - 1
    BY <1>1, <2>1
  <2> QED BY <2>1, <2>2, <2>3 DEF PhaseOK
<1>10. CASE SendData
  <2>1. state = "SEND" /\ doWrite' = doWrite
    BY <1>10 DEF SendData
  <2>2. \/ state' = "SEND" /\ cntFall # 0 /\ cntFall' = cntFall - 1
           /\ flow' = flow /\ outEn' = outEn
        \/ state' = "END" /\ outEn' = outEn /\ flow = cnt
        \/ state' = "SEND" /\ flow # cnt /\ NextByte
           /\ outEn' = (IF LastOfWord THEN TRUE ELSE outEn)
        \/ state' = "SEND" /\ flow # cnt /\ LastOfWord
           /\ cntFall' = 0 /\ flow' = flow
    BY <1>10 DEF SendData
  <2>3. ~doWrite' /\ Armed /\ cntFall \in 0 .. ByteBits - 1
          /\ flow \in 0 .. cnt /\ cnt \in 0 .. PageBytes - 1 /\ b.cmd = "PP"
          /\ (~outEn => cntFall = 0 /\ flow # cnt /\ LastOfWord)
    BY <1>1, <2>1 DEF PhaseOK
  <2>4. CASE state' = "SEND" /\ cntFall # 0 /\ cntFall' = cntFall - 1
               /\ flow' = flow /\ outEn' = outEn
    BY <1>1, <2>3, <2>4 DEF PhaseOK
  <2>5. CASE state' = "END" /\ outEn' = outEn /\ flow = cnt
    BY <1>1, <2>3, <2>5 DEF PhaseOK
  <2>6. CASE state' = "SEND" /\ flow # cnt /\ NextByte
               /\ outEn' = (IF LastOfWord THEN TRUE ELSE outEn)
    <3>1. outEn'
      BY <2>3, <2>6
    <3>2. flow' = flow + 1 /\ cntFall' = ByteBits - 1
      <4>1. flow + 1 \in 0 .. PageBytes - 1
        BY <2>3, <2>6
      <4> QED BY <4>1, <2>6, ModSmall DEF NextByte
    <3> QED BY <1>1, <2>3, <2>6, <3>1, <3>2 DEF PhaseOK
  <2>7. CASE state' = "SEND" /\ flow # cnt /\ LastOfWord
               /\ cntFall' = 0 /\ flow' = flow
    BY <1>1, <2>3, <2>7 DEF PhaseOK, LastOfWord
  <2> QED BY <2>2, <2>4, <2>5, <2>6, <2>7
<1>11. CASE ReadData
  <2>1. /\ state = "READ" /\ outEn' = outEn
        /\ \/ state' = "READ" /\ cntFall # 0 /\ cntFall' = cntFall - 1
              /\ flow' = flow /\ ~doWrite'
           \/ state' = "END" /\ cntFall = 0
           \/ state' = "READ" /\ cntFall = 0 /\ flow # cnt /\ NextByte
    BY <1>11 DEF ReadData
  <2>2. /\ Armed /\ cntFall \in 0 .. ByteBits - 1 /\ flow \in 0 .. cnt
        /\ cnt \in 0 .. PageBytes - 1 /\ outEn'
        /\ b.mode = 1 /\ b.dir = "read"
    BY <1>1, <2>1 DEF PhaseOK
  <2>3. CASE state' = "READ" /\ cntFall = 0 /\ flow # cnt /\ NextByte
    <3>1. flow' = flow + 1 /\ cntFall' = ByteBits - 1
      <4>1. flow + 1 \in 0 .. PageBytes - 1
        BY <2>2, <2>3
      <4> QED BY <4>1, <2>3, ModSmall DEF NextByte
    <3> QED BY <1>1, <2>1, <2>2, <2>3, <3>1 DEF PhaseOK
  <2> QED BY <1>1, <2>1, <2>2, <2>3 DEF PhaseOK
<1>12. CASE End
  <2>1. state' = "DONE" /\ ~doWrite'
    BY <1>12 DEF End
  <2> QED BY <2>1 DEF PhaseOK
<1> QED BY <1>1, <1>2, <1>3, <1>4, <1>5, <1>6, <1>7, <1>8, <1>9, <1>10,
           <1>11, <1>12 DEF FsmEdge

-----------------------------------------------------------------------------
(* The words on their way to the chip.                                     *)
LEMMA QueueLemma ==
  ASSUME NEW S, NEW q \in Seq(S), NEW x \in S
  PROVE  /\ Len(q) \in Nat /\ (q = <<>> <=> Len(q) = 0)
         /\ Append(q, x) \in Seq(S) /\ Len(Append(q, x)) = Len(q) + 1
         /\ \A i \in 1 .. Len(q) : Append(q, x)[i] = q[i]
         /\ Append(q, x)[Len(q) + 1] = x
         /\ q # <<>> =>
              /\ Tail(q) \in Seq(S) /\ Len(Tail(q)) = Len(q) - 1
              /\ \A i \in 1 .. Len(q) - 1 : Tail(q)[i] = q[i + 1]
              /\ Head(q) = q[1] /\ q[1] \in S
OBVIOUS

LEMMA TailAppend ==
  ASSUME NEW S, NEW q \in Seq(S), NEW x \in S, q # <<>>
  PROVE  /\ Append(Tail(q), x) \in Seq(S) /\ Len(Append(Tail(q), x)) = Len(q)
         /\ \A i \in 1 .. Len(q) :
              Append(Tail(q), x)[i] = IF i = Len(q) THEN x ELSE q[i + 1]
<1>1. Tail(q) \in Seq(S) /\ Len(Tail(q)) = Len(q) - 1 /\ Len(q) \in Nat
        /\ Len(q) >= 1
        /\ \A i \in 1 .. Len(q) - 1 : Tail(q)[i] = q[i + 1]
  BY QueueLemma
<1> DEFINE t == Tail(q)
<1> HIDE DEF t
<1>2. t \in Seq(S) /\ Len(t) = Len(q) - 1
        /\ \A i \in 1 .. Len(q) - 1 : t[i] = q[i + 1]
  BY <1>1 DEF t
<1>3. /\ Append(t, x) \in Seq(S) /\ Len(Append(t, x)) = Len(t) + 1
      /\ \A i \in 1 .. Len(t) : Append(t, x)[i] = t[i]
      /\ Append(t, x)[Len(t) + 1] = x
  BY <1>2, QueueLemma
<1>4. ASSUME NEW i \in 1 .. Len(q)
      PROVE  Append(t, x)[i] = IF i = Len(q) THEN x ELSE q[i + 1]
  <2>1. CASE i = Len(q)
    BY <1>1, <1>2, <1>3, <2>1
  <2>2. CASE i # Len(q)
    <3>1. i \in 1 .. Len(t) /\ i \in 1 .. Len(q) - 1
      <4>1. ASSUME NEW m \in Nat, NEW k \in Nat, i \in 1 .. m, i # m, k = m - 1
            PROVE  i \in 1 .. k /\ i \in 1 .. m - 1
        BY <4>1
      <4>2. Len(q) \in Nat /\ Len(t) \in Nat /\ Len(t) = Len(q) - 1
        BY <1>1, <1>2
      <4> QED BY <4>1, <4>2, <2>2
    <3>2. Append(t, x)[i] = t[i] /\ t[i] = q[i + 1]
      BY <1>2, <1>3, <3>1
    <3> QED BY <2>2, <3>2
  <2> QED BY <2>1, <2>2
<1>5. Append(t, x) \in Seq(S) /\ Len(Append(t, x)) = Len(q)
  BY <1>1, <1>2, <1>3
<1> QED BY <1>4, <1>5 DEF t

(* A cycle of a queue that is neither flushed, overrun nor underrun.       *)
LEMMA RxCycle ==
  ASSUME QueueEdge, "rx" \notin flush, rxQ \in Seq(Words),
         rxWr => Len(rxQ) < PageWords /\ rxDin \in Words,
         rdReq => rxQ # <<>>
  PROVE  /\ rxQ' \in Seq(Words)
         /\ ~rxWr /\ ~rdReq => rxQ' = rxQ
         /\ rxWr /\ ~rdReq => /\ Len(rxQ') = Len(rxQ) + 1
                              /\ \A i \in 1 .. Len(rxQ) : rxQ'[i] = rxQ[i]
                              /\ rxQ'[Len(rxQ) + 1] = rxDin
         /\ ~rxWr /\ rdReq =>
              /\ Len(rxQ') = Len(rxQ) - 1
              /\ \A i \in 1 .. Len(rxQ) - 1 : rxQ'[i] = rxQ[i + 1]
         /\ rxWr /\ rdReq =>
              /\ Len(rxQ') = Len(rxQ)
              /\ \A i \in 1 .. Len(rxQ) :
                   rxQ'[i] = IF i = Len(rxQ) THEN rxDin ELSE rxQ[i + 1]
         /\ rxOut' = IF rdReq THEN rxQ[1] ELSE rxOut
<1>0. Len(rxQ) \in Nat /\ PageWords \in Nat
  BY QueueLemma, QspiAssumption
<1>1. /\ rxOut' = IF ~rdReq THEN rxOut
                  ELSE IF rxQ = <<>> THEN Filler ELSE Head(rxQ)
      /\ rxQ' = IF rxWr /\ Len(rxQ) # PageWords
                THEN Append(IF rdReq /\ rxQ # <<>> THEN Tail(rxQ) ELSE rxQ,
                            rxDin)
                ELSE IF rdReq /\ rxQ # <<>> THEN Tail(rxQ) ELSE rxQ
  BY DEF QueueEdge, RxFifo!Cycle, RxFifo!AfterPop
<1>2. rxOut' = IF rdReq THEN rxQ[1] ELSE rxOut
  BY <1>1
<1>3. CASE ~rxWr /\ ~rdReq
  BY <1>1, <1>2, <1>3
<1>4. CASE rxWr /\ ~rdReq
  <2>1. rxQ' = Append(rxQ, rxDin)
    BY <1>0, <1>1, <1>4
  <2> QED BY <1>2, <1>4, <2>1, QueueLemma
<1>5. CASE ~rxWr /\ rdReq
  <2>1. rxQ' = Tail(rxQ)
    BY <1>1, <1>5
  <2> QED BY <1>2, <1>5, <2>1, QueueLemma
<1>6. CASE rxWr /\ rdReq
  <2>1. rxQ' = Append(Tail(rxQ), rxDin)
    BY <1>0, <1>1, <1>6
  <2> QED BY <1>2, <1>6, <2>1, TailAppend
<1> QED BY <1>3, <1>4, <1>5, <1>6

(* What a step of the program does to the command, the words stored and    *)
(* the request to store one.                                               *)
SameCommand == Active /\ Active' /\ Here' = Here /\ blk' = blk /\ call' = call
NewCommand == ~Armed' /\ ~rxWr' /\ (Active' => moved' = 0)

LEMMA ProgramPlaces ==
  ASSUME ProgInv, Active
  PROVE  /\ CommandOK(Here) /\ PlaceOK /\ moved \in Nat
         /\ Here.cmd = "PP" => pc \notin {"pop", "take", "status"}
         /\ pc \in {"ahead", "rest"} => Here.cmd = "PP" /\ moved < PageWords
<1>1. CommandOK(Here) /\ PlaceOK /\ moved \in Nat
  BY HereOK DEF ProgInv, ProgOK
<1> QED BY <1>1, QspiAssumption DEF CommandOK, PlaceOK

LEMMA ConfigureQuiet ==
  ASSUME Configure
  PROVE  /\ ~rxWr' /\ ~rdEn' /\ UNCHANGED <<call, blk, moved>>
         /\ pc \in {"flush", "flushed", "instr", "addr", "count", "start"}
         /\ pc' \in {"flushed", "instr", "addr", "count", "start", "rest",
                     "poll"}
         /\ call # NoCall /\ gap = 0
         /\ flush' # {} => pc = "flush"
<1>1. /\ UNCHANGED <<call, blk, moved>> /\ call # NoCall /\ gap = 0
      /\ pc \in {"flush", "flushed", "instr", "addr", "count", "start"}
      /\ pc' \in {"flushed", "instr", "addr", "count", "start", "rest", "poll"}
  BY DEF Configure, GoOn, Set, Access, At
<1>2. \/ pc = "flush" /\ RegsEdge([reg |-> "CTRL", val |-> FlushTx])
      \/ RegsEdge([reg |-> "CTRL", val |-> CtrlOff])
      \/ RegsEdge([reg |-> "INSTR", val |-> Here.cmd])
      \/ RegsEdge([reg |-> "ADDR", val |-> Here.page])
      \/ RegsEdge([reg |-> "DATA_CNT", val |-> Here.count])
      \/ RegsEdge([reg |-> "CTRL", val |-> Start(Here)])
  BY Zenon DEF Configure, Set, Access, At, Edge
<1>3. Start(Here).flush = {}
  BY DEF Start
<1>4. ~rxWr' /\ ~rdEn' /\ (flush' # {} => pc = "flush")
  BY <1>2, <1>3, OffFacts, StoreFacts
<1> QED BY <1>1, <1>4

LEMMA PushFacts ==
  ASSUME Push
  PROVE  /\ call # NoCall /\ UNCHANGED <<call, blk>> /\ moved' = moved + 1
         /\ (rxWr' <=> Len(rxQ) < PageWords) /\ ~rdEn' /\ flush' = {}
         /\ \/ pc = "ahead" /\ pc' \in {"ahead", "instr"}
            \/ pc = "rest" /\ pc' \in {"rest", "poll"}
<1>1. /\ call # NoCall /\ UNCHANGED <<call, blk>> /\ moved' = moved + 1
      /\ \/ pc = "ahead" /\ pc' \in {"ahead", "instr"}
         \/ pc = "rest" /\ pc' \in {"rest", "poll"}
  BY DEF Push, Set, Access, At
<1>2. RegsEdge([reg |-> "DATA", val |-> Here.data[moved + 1]])
  BY Zenon DEF Push, Set, Access, Edge
<1> QED BY <1>1, <1>2, StoreFacts

LEMMA ClearFacts ==
  ASSUME ProgInv, Clear
  PROVE  /\ call # NoCall /\ call' = call /\ pc = "off" /\ Active /\ gap = 0
         /\ ~rxWr' /\ ~rdEn' /\ flush' = {} /\ ~Armed' /\ gap' = MinGap - 1
         /\ \/ NextCommand /\ Here.pulls = 0 /\ pc' = First(blk + 1)
            \/ GoOn /\ pc' = "pop" /\ Here.pulls > 0
<1>1. PICK to : Set("off", "CTRL", CtrlOff, to)
  BY Zenon DEF Clear
<1>2. /\ call # NoCall /\ pc = "off" /\ call' = call /\ gap = 0
      /\ gap' = MinGap - 1
      /\ RegsEdge([reg |-> "CTRL", val |-> CtrlOff])
  BY <1>1, SetFacts, Zenon
<1>3. \/ NextCommand /\ Here.pulls = 0 /\ pc' = First(blk + 1)
      \/ GoOn /\ pc' = "pop" /\ Here.pulls > 0
  BY Zenon DEF Clear, Set, Access
<1>4. pc' \in {"return", "flush", "ahead", "instr", "pop"}
  BY <1>3, FirstPlaces
<1> QED BY <1>2, <1>3, <1>4, OffFacts, StoreFacts DEF Armed, Active

(* The accesses that only read.                                            *)
LEMMA ReadingFacts ==
  ASSUME ProgInv, Pop \/ Take \/ Status
  PROVE  /\ call # NoCall /\ call' = call /\ ~rxWr' /\ flush' = {}
         /\ pc \in {"pop", "take", "status"} /\ Active /\ ~Armed'
         /\ gap' = MinGap - 1 /\ gap = 0
         /\ rdEn' <=> Pop
         /\ Pop => GoOn /\ pc' = IF Here.cmd = "RDSR" THEN "status" ELSE "take"
         /\ Take => /\ pc = "take"
                    /\ \/ /\ pc' = "pop" /\ moved + 1 < Here.pulls
                          /\ moved' = moved + 1 /\ blk' = blk
                       \/ /\ pc' = First(blk + 1) /\ moved + 1 = Here.pulls
                          /\ NextCommand
         /\ Status => /\ pc = "status"
                      /\ \/ GoOn /\ pc' = "instr" /\ txOut[0][0] = 1
                         \/ /\ NextCommand /\ pc' = First(blk + 1)
                            /\ txOut[0][0] # 1
<1>1. CASE Pop
  <2>1. /\ call # NoCall /\ call' = call /\ pc = "pop" /\ GoOn /\ gap = 0
        /\ pc' = IF Here.cmd = "RDSR" THEN "status" ELSE "take"
        /\ gap' = MinGap - 1
        /\ RegsEdge([reg |-> "POP"])
    BY <1>1 DEF Pop, Access, At, Edge
  <2>2. ~Take /\ ~Status
    BY <2>1 DEF Take, Status, Access, At
  <2> QED BY <1>1, <2>1, <2>2, QuietFacts DEF Armed, Active
<1>2. CASE Take
  <2>1. /\ call # NoCall /\ call' = call /\ pc = "take" /\ gap = 0
        /\ gap' = MinGap - 1
        /\ \/ /\ pc' = "pop" /\ moved + 1 < Here.pulls
              /\ moved' = moved + 1 /\ blk' = blk
           \/ /\ pc' = First(blk + 1) /\ moved + 1 = Here.pulls
              /\ NextCommand
        /\ RegsEdge(NoStore)
    BY <1>2 DEF Take, Access, At, Edge
  <2>2. ~Pop /\ ~Status
    BY <2>1 DEF Pop, Status, Access, At
  <2>3. ~Armed'
    BY <2>1, FirstPlaces DEF Armed
  <2> QED BY <2>1, <2>2, <2>3, QuietFacts DEF Active
<1>3. CASE Status
  <2>1. /\ call # NoCall /\ call' = call /\ pc = "status" /\ gap = 0
        /\ gap' = MinGap - 1
        /\ \/ GoOn /\ pc' = "instr" /\ txOut[0][0] = 1
           \/ NextCommand /\ pc' = First(blk + 1) /\ txOut[0][0] # 1
        /\ RegsEdge(NoStore)
    BY <1>3 DEF Status, Access, At, Edge
  <2>2. ~Pop /\ ~Take
    BY <2>1 DEF Pop, Take, Access, At
  <2>3. ~Armed'
    BY <2>1, FirstPlaces DEF Armed
  <2> QED BY <2>1, <2>2, <2>3, QuietFacts DEF Active
<1> QED BY <1>1, <1>2, <1>3

LEMMA CallMoves ==
  ASSUME ProgInv, ProgInv', Next
  PROVE  \/ SameCommand /\ moved' = moved /\ ~rxWr'
              /\ (Armed /\ ~Armed' => pc = "off" /\ pc' = "pop" /\ Here.pulls > 0)
         \/ SameCommand /\ Push /\ (Armed => Armed')
         \/ SameCommand /\ Take /\ moved' = moved + 1 /\ ~rxWr' /\ ~Armed
         \/ /\ NewCommand
            /\ \/ ~Active
               \/ pc = "off" /\ Here.pulls = 0
               \/ pc \in {"take", "status"} /\ moved + 1 = Here.pulls
         \/ ~Active /\ ~Active' /\ ~rxWr'
<1>1. CASE Wait
  <2>1. UNCHANGED <<call, blk, pc, moved>> /\ RegsEdge(NoStore)
    BY <1>1 DEF Wait, progVars, Edge
  <2>2. ~rxWr'
    BY <2>1, QuietFacts
  <2>3. Here' = Here /\ (Active' <=> Active) /\ (Armed' <=> Armed)
    BY <2>1 DEF Active, Armed, Here
  <2> QED BY <2>1, <2>2, <2>3 DEF SameCommand
<1>2. CASE Begin
  <2>1. /\ RegsEdge(NoStore) /\ call = NoCall /\ moved' = 0 /\ pc' = First(1)'
    BY <1>2 DEF Begin, Edge
  <2>2. ~rxWr' /\ ~Armed'
    BY <2>1, QuietFacts, FirstPlaces DEF Armed
  <2> QED BY <2>1, <2>2 DEF NewCommand, Active
<1>3. CASE Return
  <2>1. RegsEdge(NoStore) /\ pc = "return" /\ call' = NoCall
    BY <1>3 DEF Return, Edge, At
  <2> QED BY <2>1, QuietFacts DEF Active
<1>4. CASE Configure
  BY <1>4, ConfigureQuiet DEF SameCommand, Active, Armed, Here
<1>5. CASE Push
  BY <1>5, PushFacts DEF SameCommand, Active, Armed, Here
<1>6. CASE Poll
  <2>1. /\ call # NoCall /\ call' = call /\ pc = "poll"
        /\ pc' \in {"poll", "off"} /\ RegsEdge(NoStore)
        /\ UNCHANGED <<blk, moved>>
    BY <1>6 DEF Poll, Access, At, Edge, GoOn
  <2>2. ~rxWr'
    BY <2>1, QuietFacts
  <2>3. Here' = Here /\ Active /\ Active' /\ Armed'
    BY <2>1 DEF Active, Armed, Here
  <2> QED BY <2>1, <2>2, <2>3 DEF SameCommand
<1>7. CASE Clear
  <2>1. CASE NextCommand /\ Here.pulls = 0
    BY <1>7, <2>1, ClearFacts DEF NewCommand, NextCommand
  <2>2. CASE GoOn /\ pc' = "pop" /\ Here.pulls > 0
    BY <1>7, <2>2, ClearFacts DEF GoOn, SameCommand, Active, Here
  <2> QED BY <1>7, <2>1, <2>2, ClearFacts
<1>8. CASE Pop
  BY <1>8, ReadingFacts DEF GoOn, SameCommand, Active, Armed, Here
<1>9. CASE Take
  <2>1. CASE moved' = moved + 1 /\ blk' = blk /\ pc' = "pop"
    BY <1>9, <2>1, ReadingFacts DEF SameCommand, Active, Armed, Here
  <2>2. CASE NextCommand /\ moved + 1 = Here.pulls
    BY <1>9, <2>2, ReadingFacts DEF NewCommand, NextCommand
  <2> QED BY <1>9, <2>1, <2>2, ReadingFacts
<1>10. CASE Status
  <2>1. CASE GoOn /\ pc' = "instr"
    BY <1>10, <2>1, ReadingFacts DEF GoOn, SameCommand, Active, Armed, Here
  <2>2. CASE NextCommand
    <3>1. pc = "status" /\ Active
      BY <1>10, ReadingFacts
    <3>2. Here.pulls = 1 /\ moved = 0
      BY <3>1, ProgramPlaces DEF PlaceOK, CommandOK
    <3> QED BY <1>10, <2>2, <3>1, <3>2, ReadingFacts
            DEF NewCommand, NextCommand
  <2> QED BY <1>10, <2>1, <2>2, ReadingFacts
<1> QED BY <1>1, <1>2, <1>3, <1>4, <1>5, <1>6, <1>7, <1>8, <1>9, <1>10
        DEF Next, Program

LEMMA PushedWords ==
  ASSUME ProgInv, InPP
  PROVE  /\ moved \in 0 .. PageWords /\ Here.ahead \in 1 .. PageWords
         /\ Here.data \in [1 .. PageWords -> Words]
         /\ Here.pulls = 0 /\ Here.page # Nil /\ Here.mode = 1
         /\ Here.dir = "write" /\ Here.dummy = 0 /\ Here.count = PageBytes - 1
         /\ Armed => moved >= Here.ahead
         /\ pc \in {"poll", "off"} => moved = PageWords
<1>1. CommandOK(Here) /\ PlaceOK /\ moved \in Nat /\ Here.cmd = "PP"
        /\ PageWords \in Nat
  BY ProgramPlaces, QspiAssumption DEF InPP
<1>2. /\ Here.ahead \in 1 .. PageWords /\ Here.pushes = PageWords
      /\ Here.data \in [1 .. PageWords -> Words]
      /\ Here.pulls = 0 /\ Here.page # Nil /\ Here.mode = 1
      /\ Here.dir = "write" /\ Here.dummy = 0 /\ Here.count = PageBytes - 1
  BY <1>1 DEF CommandOK, Addressed
<1> QED BY <1>1, <1>2 DEF PlaceOK, Places, Armed

LEMMA RxFacts ==
  ASSUME ControlInv, PhaseOK, RxOK
  PROVE  /\ "rx" \notin flush /\ Len(rxQ) \in Nat
         /\ rdReq => rxQ # <<>> /\ InPP /\ reqSet
         /\ rxWr => /\ InPP /\ Len(rxQ) < PageWords /\ moved > 0
                    /\ rxDin = Here.data[moved] /\ rxDin \in Words
                    /\ pc # "off"
<1>1. "rx" \notin flush
  BY DEF ControlInv, ProgInv, PulsesOK
<1>2. Len(rxQ) \in Nat
  BY QueueLemma DEF RxOK
<1>3. ASSUME rdReq PROVE rxQ # <<>> /\ InPP /\ reqSet
  <2>1. fetchState = "DEASSERT" /\ InPP /\ FetchOK
    BY <1>3 DEF RxOK
  <2>2. state \notin {"DUMMY", "PRE", "READ"}
    BY <2>1, PushedWords DEF PhaseOK, InPP, ControlInv
  <2>3. state \in {"CS", "SEND"}
    BY <2>1, <2>2 DEF FetchOK, ControlInv, HandOK, ActsOnRise, ActsOnFall
  <2>4. reqSet
    BY <2>1, <2>3 DEF FetchOK
  <2> QED BY <2>1, <2>4 DEF FetchOK, Asked
<1>4. ASSUME rxWr
      PROVE  /\ InPP /\ Len(rxQ) < PageWords /\ moved > 0
             /\ rxDin = Here.data[moved] /\ rxDin \in Words /\ pc # "off"
  <2>1. InPP /\ moved > 0 /\ rxDin = Here.data[moved] /\ pc # "off"
    BY <1>4 DEF ControlInv, ProgInv, PulsesOK, InPP
  <2>2. moved \in 1 .. PageWords /\ rxDin \in Words
    <3>1. /\ moved \in 0 .. PageWords
          /\ Here.data \in [1 .. PageWords -> Words]
      BY <2>1, PushedWords DEF ControlInv
    <3>2. moved \in 1 .. PageWords
      BY <2>1, <3>1, QspiAssumption
    <3> QED BY <2>1, <3>1, <3>2
  <2>3. moved - Len(rxQ) - 1 \in 0 .. PageWords
    BY <1>4, <2>1 DEF RxOK, Popped
  <2> QED BY <1>2, <2>1, <2>2, <2>3, QspiAssumption
<1> QED BY <1>1, <1>2, <1>3, <1>4

(* Outside a page program, and at its end, nothing is on its way.          *)
LEMMA RxQuiet ==
  ASSUME ControlInv, PhaseOK, RxOK, Next, ~InPP \/ pc = "off"
  PROVE  rxQ' = <<>> /\ ~reqSet' /\ fetchState' = "IDLE" /\ ~rdReq' /\ ~reqSet
           /\ ~rxWr
<1>1. rxQ = <<>> /\ ~reqSet /\ fetchState = "IDLE" /\ ~rxWr /\ ~rdReq
  <2>1. CASE ~InPP
    BY <2>1, RxFacts DEF RxOK
  <2>2. CASE InPP /\ pc = "off"
    <3>1. Armed /\ state = "DONE"
      BY <2>2 DEF InPP, Active, Armed, ControlInv, HandOK
    <3>2. Popped = PageWords /\ ~reqSet /\ fetchState = "IDLE"
      BY <2>2, <3>1 DEF RxOK, FetchOK
    <3>3. moved = PageWords /\ ~rxWr /\ ~rdReq
      BY <2>2, <3>2, RxFacts, PushedWords DEF ControlInv, RxOK
    <3>4. Len(rxQ) = 0
      BY <3>2, <3>3, RxFacts, QspiAssumption DEF Popped
    <3> QED BY <3>2, <3>3, <3>4, QueueLemma DEF RxOK
  <2> QED BY <2>1, <2>2
<1>2. FsmEdge /\ FetchEdge /\ QueueEdge
  BY EveryEdge
<1>3. rxQ' = <<>>
  BY <1>1, <1>2, RxCycle, RxFacts DEF RxOK
<1>4. fetchState' = "IDLE" /\ ~rdReq'
  BY <1>1, <1>2 DEF FetchEdge
<1>5. ~reqSet'
  <2>1. ASSUME Idle, ctrl.start, ctrl.mode = 1, ctrl.dir = "write" PROVE FALSE
    <3>1. Armed /\ state = "IDLE"
      BY <2>1, CtrlFacts DEF Idle, ControlInv, ProgInv
    <3>2. CommandOK(Here) /\ ctrl.dir = Here.dir /\ Active
      BY <3>1, CtrlFacts, HereOK DEF ControlInv, ProgInv, Armed, Active
    <3>3. InPP
      BY <2>1, <3>2 DEF CommandOK, InPP
    <3>4. pc # "off"
      BY <3>1 DEF ControlInv, HandOK
    <3> QED BY <3>3, <3>4
  <2>2. ASSUME SendData PROVE FALSE
    <3>1. state = "SEND"
      BY <2>2 DEF SendData
    <3>2. Armed /\ Here.cmd = "PP" /\ pc # "off"
      BY <3>1 DEF PhaseOK, ControlInv, HandOK
    <3> QED BY <3>2 DEF InPP, Armed, Active
  <2> QED BY <1>1, <1>2, <2>1, <2>2
      DEF FsmEdge, Idle, Select, Sample, Complete, SendCmd, SendAddress,
          SendDummy, ReadPre, ReadData, End, Rest, fsmVars
<1> QED BY <1>1, <1>3, <1>4, <1>5

(* Within a page program the words keep their order.                       *)
RxMoved ==
  /\ rxQ' \in Seq(Words) /\ Popped' \in 0 .. PageWords
  /\ Popped' = Popped + (IF rdReq THEN 1 ELSE 0)
  /\ \A i \in 1 .. Len(rxQ') : rxQ'[i] = Here.data[Popped' + i]
  /\ rxOut' = IF rdReq THEN Here.data[Popped'] ELSE rxOut
  /\ rxQ # <<>> /\ ~rdReq => rxQ' # <<>>

LEMMA RxSame ==
  ASSUME ControlInv, ControlInv', PhaseOK, RxOK, Next, InPP, SameCommand,
         \/ moved' = moved /\ ~rxWr'
         \/ Push
  PROVE  RxMoved
<1>1. /\ QueueEdge /\ "rx" \notin flush /\ rxQ \in Seq(Words)
      /\ Len(rxQ) \in Nat
      /\ rdReq => rxQ # <<>>
      /\ rxWr => /\ Len(rxQ) < PageWords /\ moved > 0
                 /\ rxDin = Here.data[moved] /\ rxDin \in Words
  BY EveryEdge, RxFacts DEF RxOK
<1>2. /\ Popped \in 0 .. PageWords
      /\ \A i \in 1 .. Len(rxQ) : rxQ[i] = Here.data[Popped + i]
  BY DEF RxOK
<1>3. moved \in 0 .. PageWords /\ PageWords \in Nat
  BY PushedWords, QspiAssumption DEF ControlInv
<1>4. moved' \in 0 .. PageWords
  <2>1. Push => moved < PageWords /\ moved' = moved + 1
    BY PushFacts, ProgramPlaces DEF ControlInv, InPP
  <2> QED BY <2>1, <1>3
<1>5. Len(rxQ) = moved - Popped - (IF rxWr THEN 1 ELSE 0) /\ Popped \in Int
  BY <1>1, <1>2, <1>3 DEF Popped
<1>6. Push => (rxWr' <=> Len(rxQ) < PageWords) /\ moved' = moved + 1
  BY PushFacts
<1>7. moved' = moved + (IF rxWr' THEN 1 ELSE 0)
  <2>1. CASE moved' = moved /\ ~rxWr'
    BY <2>1, <1>3
  <2>2. CASE Push
    <3>1. moved < PageWords
      BY <2>2, <1>3, <1>4, <1>6
    <3>2. Len(rxQ) < PageWords
      BY <3>1, <1>1, <1>2, <1>3, <1>5
    <3> QED BY <2>2, <3>2, <1>6
  <2> QED BY <2>1, <2>2
<1>8. /\ rxQ' \in Seq(Words)
      /\ rxOut' = IF rdReq THEN rxQ[1] ELSE rxOut
      /\ Len(rxQ') = Len(rxQ) + (IF rxWr THEN 1 ELSE 0)
                              - (IF rdReq THEN 1 ELSE 0)
      /\ Len(rxQ') \in Nat
  <2>1. CASE rxWr
    BY <1>1, <2>1, RxCycle, QueueLemma
  <2>2. CASE ~rxWr
    BY <1>1, <2>2, RxCycle, QueueLemma
  <2> QED BY <2>1, <2>2
<1>9. rdReq => Len(rxQ) >= 1
  BY <1>1, QueueLemma
<1>10. Popped' = Popped + (IF rdReq THEN 1 ELSE 0)
  <2>1. Popped' = moved' - Len(rxQ') - (IF rxWr' THEN 1 ELSE 0)
    BY DEF Popped
  <2> QED BY <2>1, <1>1, <1>3, <1>5, <1>7, <1>8
<1>11. Popped' \in 0 .. PageWords
  <2>1. Popped + (IF rdReq THEN 1 ELSE 0) <= moved
    BY <1>1, <1>3, <1>5, <1>9
  <2> QED BY <2>1, <1>2, <1>3, <1>10
<1>12. ASSUME NEW i \in 1 .. Len(rxQ')
       PROVE  rxQ'[i] = Here.data[Popped' + i]
  <2>1. CASE ~rdReq
    <3>1. CASE i <= Len(rxQ)
      <4>1. rxQ'[i] = rxQ[i] /\ i \in 1 .. Len(rxQ)
        BY <1>1, <1>8, <2>1, <3>1, RxCycle
      <4> QED BY <4>1, <1>2, <1>5, <1>10, <2>1
    <3>2. CASE ~(i <= Len(rxQ))
      <4>1. rxWr /\ i = Len(rxQ) + 1
        BY <1>1, <1>8, <2>1, <3>2
      <4>2. rxQ'[i] = rxDin
        BY <1>1, <2>1, <4>1, RxCycle
      <4>3. Popped' + i = moved
        BY <1>1, <1>3, <1>5, <1>10, <2>1, <4>1
      <4> QED BY <1>1, <4>1, <4>2, <4>3
    <3> QED BY <3>1, <3>2
  <2>2. CASE rdReq
    <3>1. CASE i <= Len(rxQ) - 1
      <4>1. rxQ'[i] = rxQ[i + 1] /\ i + 1 \in 1 .. Len(rxQ)
        BY <1>1, <1>8, <2>2, <3>1, RxCycle
      <4>2. Popped' + i = Popped + (i + 1)
        BY <1>5, <1>10, <2>2
      <4> QED BY <4>1, <4>2, <1>2
    <3>2. CASE ~(i <= Len(rxQ) - 1)
      <4>1. rxWr /\ i = Len(rxQ)
        BY <1>1, <1>8, <2>2, <3>2
      <4>2. rxQ'[i] = rxDin
        <5>1. i \in 1 .. Len(rxQ)
          BY <4>1, <1>9, <1>1, <2>2
        <5> QED BY <5>1, <1>1, <2>2, <4>1, RxCycle
      <4>3. Popped' + i = moved
        BY <1>1, <1>3, <1>5, <1>10, <2>2, <4>1
      <4> QED BY <1>1, <4>1, <4>2, <4>3
    <3> QED BY <3>1, <3>2
  <2> QED BY <2>1, <2>2
<1>13. rxOut' = IF rdReq THEN Here.data[Popped'] ELSE rxOut
  <2>1. rdReq => rxQ[1] = Here.data[Popped + 1]
    BY <1>1, <1>2, <1>9
  <2> QED BY <2>1, <1>8, <1>10
<1>14. rxQ # <<>> /\ ~rdReq => rxQ' # <<>>
  <2>1. rxQ # <<>> /\ ~rdReq => Len(rxQ') >= 1
    BY <1>1, <1>8, QueueLemma
  <2> QED BY <2>1
<1> QED BY <1>8, <1>10, <1>11, <1>12, <1>13, <1>14 DEF RxMoved

(* What the transaction machine does with the word fetched ahead.          *)
Steady == /\ state' = state /\ cntFall' = cntFall /\ flow' = flow
          /\ (outEn' <=> outEn) /\ (reqSet' <=> reqSet)

LEMMA MachineWrites ==
  ASSUME FsmEdge
  PROVE  /\ state = "IDLE" =>
              \/ state' = "IDLE" /\ (reqSet' <=> reqSet)
              \/ /\ rise /\ ctrl.start /\ state' = "CS"
                 /\ ctrl.mode = 1 /\ ctrl.dir = "write" => reqSet'
         /\ state = "CS" => /\ reqSet' <=> reqSet
                            /\ rise /\ cntRise = 0 => state' = "CMD"
                            /\ ~rise => state' = "CS"
         /\ state = "CMD" /\ ctrl.addr =>
              state' \in {"CMD", "ADDR"} /\ (reqSet' <=> reqSet)
         /\ state = "ADDR" /\ ctrl.mode = 1 /\ ctrl.dummy = 0
              /\ ctrl.dir = "write" =>
              /\ reqSet' <=> reqSet
              /\ outEn' <=> outEn
              /\ \/ state' = "ADDR"
                 \/ state' = "SEND" /\ cntFall' = ByteBits - 1 /\ flow' = 0
         /\ state = "SEND" /\ ~fall => Steady
         /\ state = "SEND" /\ fall => SendData
         /\ state \in {"END", "DONE"} =>
              /\ reqSet' <=> reqSet
              /\ state' \in {"IDLE", "END", "DONE"}
         /\ state = "DONE" /\ ctrl.start => state' = "DONE"
         /\ state = "END" => state' # "IDLE"
<1>0. UNCHANGED fsmVars => Steady
  BY DEF fsmVars, Steady
<1> USE DEF FsmEdge, Idle, Select, Sample, Complete, SendCmd, SendAddress,
            SendDummy, ReadPre, ReadData, End, Rest
<1>1. state = "IDLE" =>
        \/ state' = "IDLE" /\ (reqSet' <=> reqSet)
        \/ /\ rise /\ ctrl.start /\ state' = "CS"
           /\ ctrl.mode = 1 /\ ctrl.dir = "write" => reqSet'
  BY <1>0 DEF SendData, Steady
<1>2. state = "CS" => /\ reqSet' <=> reqSet
                      /\ rise /\ cntRise = 0 => state' = "CMD"
                      /\ ~rise => state' = "CS"
  BY <1>0 DEF SendData, Steady, ActsOnRise
<1>3. state = "CMD" /\ ctrl.addr =>
        state' \in {"CMD", "ADDR"} /\ (reqSet' <=> reqSet)
  BY <1>0 DEF SendData, Steady
<1>4. state = "ADDR" /\ ctrl.mode = 1 /\ ctrl.dummy = 0
        /\ ctrl.dir = "write" =>
        /\ reqSet' <=> reqSet
        /\ outEn' <=> outEn
        /\ \/ state' = "ADDR"
           \/ state' = "SEND" /\ cntFall' = ByteBits - 1 /\ flow' = 0
  BY <1>0 DEF SendData, Steady, DataPhase
<1>5. state = "SEND" /\ ~fall => Steady
  BY <1>0 DEF SendData
<1>6. state = "SEND" /\ fall => SendData
  BY DEF ActsOnFall
<1>7. /\ state \in {"END", "DONE"} =>
           /\ reqSet' <=> reqSet
           /\ state' \in {"IDLE", "END", "DONE"}
      /\ state = "DONE" /\ ctrl.start => state' = "DONE"
      /\ state = "END" => state' # "IDLE"
  BY <1>0 DEF SendData, Steady
<1> QED BY <1>1, <1>2, <1>3, <1>4, <1>5, <1>6, <1>7

LEMMA FetchFacts ==
  ASSUME FetchEdge
  PROVE  /\ fetchState = "IDLE" => dataToWrite' = dataToWrite
              /\ fetchState' = IF reqSet THEN "DEASSERT" ELSE "IDLE"
         /\ fetchState = "DEASSERT" => dataToWrite' = dataToWrite
              /\ fetchState' = "LATCH"
         /\ fetchState = "LATCH" => dataToWrite' = rxOut
              /\ fetchState' = "DONE"
         /\ fetchState = "DONE" => dataToWrite' = dataToWrite
              /\ fetchState' = IF reqSet THEN "DONE" ELSE "IDLE"
         /\ fetchState \in {"IDLE", "DEASSERT", "LATCH", "DONE"}
         /\ (rdReq <=> fetchState = "DEASSERT") =>
              (rdReq' <=> fetchState' = "DEASSERT")
<1>1. fetchState = "IDLE" => dataToWrite' = dataToWrite
        /\ fetchState' = IF reqSet THEN "DEASSERT" ELSE "IDLE"
  BY DEF FetchEdge
<1>2. /\ fetchState = "DEASSERT" => dataToWrite' = dataToWrite
           /\ fetchState' = "LATCH"
      /\ fetchState = "LATCH" => dataToWrite' = rxOut
           /\ fetchState' = "DONE"
      /\ fetchState = "DONE" => dataToWrite' = dataToWrite
           /\ fetchState' = IF reqSet THEN "DONE" ELSE "IDLE"
      /\ fetchState \in {"IDLE", "DEASSERT", "LATCH", "DONE"}
  BY DEF FetchEdge
<1>3. (rdReq <=> fetchState = "DEASSERT") =>
        (rdReq' <=> fetchState' = "DEASSERT")
  BY DEF FetchEdge
<1> QED BY <1>1, <1>2, <1>3

(* While a request stands the fetch goes on, one stage at an edge.         *)
LEMMA FetchRuns ==
  ASSUME FetchEdge, reqSet, reqSet', RxMoved, rdReq <=> fetchState = "DEASSERT",
         Popped \in Int,
         fetchState = "LATCH" => rxOut = Here.data[Popped],
         fetchState = "DONE" => dataToWrite = Here.data[Popped],
         NEW since \in Nat \ {0}, NEW since2, since2 = since + 1
  PROVE  /\ Given' = Given /\ (Asked' => Asked /\ fetchState = "IDLE")
         /\ fetchState = Stage(since) => fetchState' = Stage(since2)
         /\ fetchState = "DONE" => fetchState' = "DONE"
         /\ fetchState' = "DONE" => dataToWrite' = Here.data[Popped']
         /\ fetchState' = "LATCH" => rxOut' = Here.data[Popped']
<1>1. /\ Popped' = Popped + (IF rdReq THEN 1 ELSE 0)
      /\ rxOut' = IF rdReq THEN Here.data[Popped'] ELSE rxOut
  BY DEF RxMoved
<1>2. /\ fetchState = "IDLE" => fetchState' = "DEASSERT"
      /\ fetchState = "DEASSERT" => fetchState' = "LATCH"
      /\ fetchState = "LATCH" => dataToWrite' = rxOut /\ fetchState' = "DONE"
      /\ fetchState = "DONE" => dataToWrite' = dataToWrite
           /\ fetchState' = "DONE"
      /\ fetchState \in {"IDLE", "DEASSERT", "LATCH", "DONE"}
  BY FetchFacts
<1>3. Given' = Given /\ (Asked' => Asked /\ fetchState = "IDLE")
  BY <1>1, <1>2 DEF Given, Asked
<1>4. fetchState = Stage(since) => fetchState' = Stage(since2)
  BY <1>2 DEF Stage
<1>5. fetchState' = "DONE" => dataToWrite' = Here.data[Popped']
  BY <1>1, <1>2
<1>6. fetchState' = "LATCH" => rxOut' = Here.data[Popped']
  BY <1>1, <1>2
<1> QED BY <1>2, <1>3, <1>4, <1>5, <1>6

(* The transaction machine within a page program.                          *)
LEMMA ProgrammingFacts ==
  ASSUME ControlInv, ControlInv', PhaseOK, RxOK, Next, InPP, SameCommand,
         RxMoved
  PROVE  /\ InPP' /\ Here' = Here /\ Here.cmd = "PP" /\ FetchOK
         /\ Popped \in 0 .. PageWords
         /\ rdReq <=> fetchState = "DEASSERT"
         /\ ~reqSet => Popped' = Popped
         /\ Armed => /\ ctrl.start /\ ctrl.addr /\ ctrl.mode = 1
                     /\ ctrl.dir = "write" /\ ctrl.dummy = 0
                     /\ cnt = PageBytes - 1
         /\ state \notin {"DUMMY", "PRE", "READ"}
<1>1. InPP' /\ Here' = Here /\ Here.cmd = "PP"
  BY DEF InPP, SameCommand
<1>2. /\ FetchOK /\ Popped \in 0 .. PageWords
      /\ rdReq <=> fetchState = "DEASSERT"
  BY DEF RxOK
<1>3. ~reqSet => Popped' = Popped
  BY <1>2, RxFacts DEF RxMoved
<1>4. Armed => /\ ctrl.start /\ ctrl.addr /\ ctrl.mode = 1
               /\ ctrl.dir = "write" /\ ctrl.dummy = 0
               /\ cnt = PageBytes - 1
  BY PushedWords, CtrlFacts DEF ControlInv, ProgInv
<1>5. state \notin {"DUMMY", "PRE", "READ"}
  BY PushedWords DEF PhaseOK, InPP, ControlInv
<1> QED BY <1>1, <1>2, <1>3, <1>4, <1>5

(* It starts with a word in the queue.                                     *)
LEMMA FetchStarts ==
  ASSUME ControlInv, ControlInv', PhaseOK, RxOK, Next, InPP, SameCommand,
         RxMoved, state = "IDLE", state' # "IDLE"
  PROVE  FetchOK'
<1>1. /\ InPP' /\ Here' = Here /\ FetchOK /\ ~reqSet /\ fetchState = "IDLE"
      /\ Popped' = 0 /\ Armed /\ Armed'
  BY ProgrammingFacts, MachineRuns, MachineWrites DEF FetchOK
<1>2. state' = "CS" /\ reqSet' /\ rise
  BY <1>1, ProgrammingFacts, MachineRuns, MachineWrites
<1>3. fetchState' = "IDLE"
  BY <1>1, EveryEdge, FetchFacts
<1>4. SinceRise' = 1
  BY <1>2, EveryEdge, ClockStep DEF ControlInv
<1>5. Given' = 1
  BY <1>1, <1>2, <1>3 DEF Given, Asked
<1>6. rxQ' # <<>>
  <2>1. Here.ahead \in 1 .. PageWords /\ Here.pushes = PageWords
    BY PushedWords, ProgramPlaces DEF ControlInv, InPP, CommandOK
  <2>2. PlaceOK' /\ moved' \in Nat /\ pc' \in {"rest", "poll", "off"}
    BY <1>1 DEF ControlInv, ProgInv, ProgOK, InPP, PlaceOK, Armed
  <2>3. moved' >= 1
    BY <1>1, <2>1, <2>2, QspiAssumption DEF PlaceOK
  <2>4. rxWr' => moved' > 1
    BY <1>1, <2>1, <2>2, QspiAssumption DEF ControlInv, ProgInv, PulsesOK
  <2>5. 0 = moved' - Len(rxQ') - (IF rxWr' THEN 1 ELSE 0)
    BY <1>1 DEF Popped
  <2>6. rxQ' \in Seq(Words)
    BY DEF RxMoved
  <2>7. Len(rxQ') \in Nat /\ (rxQ' = <<>> => Len(rxQ') = 0)
    BY <2>6
  <2> QED BY <2>2, <2>3, <2>4, <2>5, <2>7
<1> QED BY <1>1, <1>2, <1>3, <1>4, <1>5, <1>6 DEF FetchOK, Stage

(* It is over, or has not begun.                                           *)
LEMMA FetchRests ==
  ASSUME ControlInv, ControlInv', PhaseOK, RxOK, Next, InPP, SameCommand,
         RxMoved, Armed => Armed',
         state \in {"IDLE", "END", "DONE"}, state = "IDLE" => state' = "IDLE"
  PROVE  FetchOK'
<1>1. /\ FetchOK /\ ~reqSet /\ fetchState = "IDLE" /\ Popped' = Popped
  BY ProgrammingFacts DEF FetchOK
<1>2. fetchState' = "IDLE"
  BY <1>1, EveryEdge, FetchFacts
<1>3. /\ ~reqSet' /\ state' \in {"IDLE", "END", "DONE"}
      /\ state' = "IDLE" /\ state # "IDLE" => ~Armed
  <2>1. FsmEdge /\ (ctrl.start <=> Armed)
    BY MachineRuns
  <2> QED BY <1>1, <2>1, MachineWrites
<1>4. ~Armed' \/ state' = "IDLE" => Popped' = 0
  BY <1>1, <1>3 DEF FetchOK
<1>5. ASSUME Armed', state' \in {"END", "DONE"} PROVE Popped' = PageWords
  <2>1. CASE Armed
    BY <1>1, <1>5, <2>1 DEF FetchOK
  <2>2. CASE ~Armed
    <3>1. state = "DONE" /\ done
      BY <1>5, <2>2 DEF ControlInv, HandOK
    <3>2. done' /\ state' \in {"DONE", "IDLE"}
      BY <3>1, EveryEdge, FsmControl DEF Still
    <3>3. state' = "DONE" /\ runs' = 0
      <4>1. Moves
        BY MachineRuns
      <4> QED BY <1>5, <2>2, <3>2, <4>1 DEF Moves
    <3>4. runs' = 1
      BY <1>5, <3>2, <3>3 DEF ControlInv, HandOK
    <3> QED BY <3>3, <3>4
  <2> QED BY <2>1, <2>2
<1> QED BY <1>2, <1>3, <1>4, <1>5 DEF FetchOK, Asked

LEMMA FetchHead ==
  ASSUME ControlInv, ControlInv', PhaseOK, RxOK, Next, InPP, SameCommand,
         RxMoved, state \in {"CS", "CMD", "ADDR"}
  PROVE  FetchOK'
<1> USE QspiAssumption
<1>1. /\ FetchOK /\ Armed /\ reqSet /\ Given = 1 /\ Here' = Here
      /\ Popped \in 0 .. PageWords /\ (rdReq <=> fetchState = "DEASSERT")
      /\ fetchState = "LATCH" => rxOut = Here.data[Popped]
      /\ fetchState = "DONE" => dataToWrite = Here.data[Popped]
  BY ProgrammingFacts, MachineRuns DEF FetchOK
<1>2. /\ SinceRise \in 1 .. 2 * Div
      /\ rise => SinceRise = 2 * Div /\ SinceRise' = 1
      /\ ~rise => SinceRise' = SinceRise + 1
  BY EveryEdge, ClockStep DEF ControlInv
<1>3. /\ reqSet'
      /\ state = "CS" => \/ rise /\ state' = "CMD"
                         \/ ~rise /\ state' = "CS"
      /\ state = "CMD" => state' \in {"CMD", "ADDR"}
      /\ state = "ADDR" => \/ state' = "ADDR"
                           \/ /\ state' = "SEND" /\ cntFall' = ByteBits - 1
                              /\ flow' = 0 /\ (outEn' <=> outEn)
  <2>1. state = "CS" => cntRise = 0
    BY <1>1 DEF ControlInv, HandOK
  <2> QED BY <1>1, <2>1, EveryEdge, ProgrammingFacts, MachineWrites
<1>4. /\ Given' = Given /\ (Asked' => Asked /\ fetchState = "IDLE")
      /\ ~rise /\ fetchState = Stage(SinceRise) => fetchState' = Stage(SinceRise')
      /\ fetchState = "DONE" => fetchState' = "DONE"
      /\ fetchState' = "DONE" => dataToWrite' = Here.data[Popped']
      /\ fetchState' = "LATCH" => rxOut' = Here.data[Popped']
  <2>1. FetchEdge /\ Popped \in Int /\ SinceRise \in Nat \ {0}
    BY <1>1, <1>2, EveryEdge
  <2>2. /\ Given' = Given /\ (Asked' => Asked /\ fetchState = "IDLE")
        /\ fetchState = "DONE" => fetchState' = "DONE"
        /\ fetchState' = "DONE" => dataToWrite' = Here.data[Popped']
        /\ fetchState' = "LATCH" => rxOut' = Here.data[Popped']
    BY <1>1, <1>3, <2>1, FetchRuns
  <2>3. ~rise /\ fetchState = Stage(SinceRise) => fetchState' = Stage(SinceRise')
    BY <1>1, <1>2, <1>3, <2>1, FetchRuns
  <2> QED BY <2>2, <2>3
<1>5. rise => Stage(SinceRise) = "DONE"
  BY <1>2 DEF Stage
<1>6. Armed'
  BY <1>3, MachineRuns
<1>7. Asked' => rxQ' # <<>>
  BY <1>1, <1>4 DEF FetchOK, RxMoved
<1>8. CASE state = "CS" /\ state' = "CS"
  BY <1>1, <1>3, <1>4, <1>6, <1>7, <1>8 DEF FetchOK
<1>9. CASE state' \in {"CMD", "ADDR"}
  <2>1. fetchState = "DONE"
    BY <1>1, <1>3, <1>5, <1>9 DEF FetchOK
  <2> QED BY <1>1, <1>3, <1>4, <1>6, <1>7, <1>9, <2>1 DEF FetchOK
<1>10. CASE state = "ADDR" /\ state' = "SEND"
  <2>1. fetchState' = "DONE" /\ Given' = 1 /\ cntFall' = ByteBits - 1
          /\ flow' = 0 /\ outEn'
    BY <1>1, <1>3, <1>4, <1>10 DEF FetchOK, PhaseOK
  <2>2. (Given' - 1) * WordBytes = 0 /\ Given' * WordBytes = WordBytes
    BY <2>1
  <2> QED BY <1>1, <1>3, <1>4, <1>6, <1>7, <1>10, <2>1, <2>2 DEF FetchOK
<1> QED BY <1>3, <1>8, <1>9, <1>10

LEMMA FetchWaits ==
  ASSUME ControlInv, ControlInv', PhaseOK, RxOK, Next, InPP, SameCommand,
         RxMoved, state = "SEND", ~fall
  PROVE  FetchOK'
<1> USE QspiAssumption
<1>1. /\ FetchOK /\ Armed /\ Here' = Here
      /\ Popped \in 0 .. PageWords /\ (rdReq <=> fetchState = "DEASSERT")
      /\ ~reqSet => Popped' = Popped
  BY ProgrammingFacts, MachineRuns
<1>2. Steady
  BY EveryEdge, MachineWrites
<1>3. SinceFall \in 1 .. 2 * Div /\ SinceFall' = SinceFall + 1
  BY EveryEdge, ClockStep DEF ControlInv
<1>4. FetchEdge /\ SinceFall \in Nat \ {0} /\ Popped \in Int /\ Armed'
  BY <1>1, <1>2, <1>3, EveryEdge, MachineRuns DEF Steady
<1>5. CASE reqSet
  <2>1. /\ fetchState = "LATCH" => rxOut = Here.data[Popped]
        /\ fetchState = "DONE" => dataToWrite = Here.data[Popped]
    BY <1>1, <1>5 DEF FetchOK
  <2>2. /\ Given' = Given /\ (Asked' => Asked /\ fetchState = "IDLE")
        /\ fetchState = Stage(SinceFall) => fetchState' = Stage(SinceFall')
        /\ fetchState = "DONE" => fetchState' = "DONE"
        /\ fetchState' = "DONE" => dataToWrite' = Here.data[Popped']
        /\ fetchState' = "LATCH" => rxOut' = Here.data[Popped']
    BY <1>1, <1>2, <1>3, <1>4, <1>5, <2>1, FetchRuns DEF Steady
  <2>3. Asked' => rxQ' # <<>>
    BY <1>1, <2>2 DEF FetchOK, RxMoved
  <2> QED BY <1>1, <1>2, <1>4, <1>5, <2>2, <2>3 DEF FetchOK, Steady
<1>6. CASE ~reqSet
  <2>1. fetchState' = "IDLE" /\ dataToWrite' = dataToWrite
    BY <1>1, <1>4, <1>6, FetchFacts DEF FetchOK
  <2>2. Given = Popped /\ Given' = Popped /\ ~Asked'
    BY <1>1, <1>2, <1>6 DEF Given, Asked, Steady
  <2>3. dataToWrite' = Here.data[Popped']
    BY <1>1, <1>6, <2>1 DEF FetchOK
  <2> QED BY <1>1, <1>2, <1>4, <1>6, <2>1, <2>2, <2>3 DEF FetchOK, Steady
<1> QED BY <1>5, <1>6

(* The last byte of the page is the last of its last word.                 *)
LEMMA LastByte ==
  ASSUME NEW g \in Nat, (g - 1) * WordBytes <= PageBytes - 1,
         PageBytes - 1 < g * WordBytes
  PROVE  g = PageWords
<1>1. /\ PageWords \in Nat /\ WordBytes \in Nat /\ WordBytes >= 1
      /\ PageBytes = PageWords * WordBytes
  BY QspiAssumption DEF PageBytes
<1>2. (g - 1) * WordBytes = g * WordBytes - WordBytes
  BY <1>1
<1>3. CASE g < PageWords
  <2>1. PICK d \in Nat : PageWords = g + 1 + d
    <3>1. PageWords - g - 1 \in Nat /\ PageWords = g + 1 + (PageWords - g - 1)
      BY <1>1, <1>3
    <3> QED BY <3>1
  <2>2. PageWords * WordBytes = g * WordBytes + WordBytes + d * WordBytes
    BY <1>1, <2>1
  <2>3. d * WordBytes >= 0 /\ g * WordBytes >= 0
    BY <1>1, <2>1
  <2> QED BY <1>1, <2>2, <2>3
<1>4. CASE g > PageWords
  <2>1. PICK d \in Nat : g = PageWords + 1 + d
    <3>1. g - PageWords - 1 \in Nat /\ g = PageWords + 1 + (g - PageWords - 1)
      BY <1>1, <1>4
    <3> QED BY <3>1
  <2>2. g * WordBytes = PageWords * WordBytes + WordBytes + d * WordBytes
    BY <1>1, <2>1
  <2>3. d * WordBytes >= 0
    BY <1>1, <2>1
  <2> QED BY <1>1, <1>2, <2>2, <2>3
<1> QED BY <1>1, <1>3, <1>4

LEMMA FetchFalls ==
  ASSUME ControlInv, ControlInv', PhaseOK, RxOK, Next, InPP, SameCommand,
         RxMoved, state = "SEND", fall, Armed => Armed'
  PROVE  FetchOK'
<1> USE QspiAssumption
<1>1. /\ FetchOK /\ Armed /\ Armed' /\ Here' = Here /\ cnt = PageBytes - 1
      /\ Popped \in 0 .. PageWords /\ (rdReq <=> fetchState = "DEASSERT")
      /\ ~reqSet => Popped' = Popped
  BY ProgrammingFacts, MachineRuns
<1>2. SendData /\ FetchEdge
  BY EveryEdge, MachineWrites
<1>3. SinceFall = 2 * Div /\ SinceFall' = 1
  BY EveryEdge, ClockStep DEF ControlInv
<1>4. /\ cntFall \in 0 .. ByteBits - 1 /\ flow \in 0 .. cnt
      /\ cnt \in 0 .. PageBytes - 1 /\ PageBytes \in Nat \ {0}
  BY <1>1, MachineRuns, Sizes DEF PhaseOK
<1>5. /\ (Given - 1) * WordBytes <= flow /\ flow < Given * WordBytes
      /\ WordBytes \in Nat \ {0}
  BY <1>1 DEF FetchOK
<1>6. CASE reqSet
  <2>1. fetchState = "DONE" /\ cntFall = ByteBits - 1
    <3>1. Stage(SinceFall) = "DONE"
      BY <1>3 DEF Stage
    <3> QED BY <1>1, <1>6, <3>1 DEF FetchOK
  <2>2. fetchState' = "DONE" /\ dataToWrite' = dataToWrite /\ Popped' = Popped
    BY <1>1, <1>2, <1>6, <2>1, FetchFacts DEF RxMoved
  <2>3. /\ ~reqSet' /\ cntFall' = ByteBits - 2 /\ state' = "SEND"
        /\ flow' = flow /\ outEn' = outEn
    BY <1>2, <2>1 DEF SendData
  <2>4. Given = Popped /\ Given' = Popped /\ ~Asked'
    BY <2>1, <2>2, <2>3 DEF Given, Asked
  <2>5. dataToWrite' = Here.data[Popped']
    BY <1>1, <2>1, <2>2 DEF FetchOK
  <2>6. ~outEn' => flow' + 1 = Given' * WordBytes
    BY <1>1, <2>3, <2>4 DEF FetchOK
  <2> QED BY <1>1, <1>3, <1>5, <2>2, <2>3, <2>4, <2>5, <2>6 DEF FetchOK
<1>7. CASE ~reqSet
  <2>1. fetchState = "IDLE" /\ fetchState' = "IDLE"
          /\ dataToWrite' = dataToWrite /\ Popped' = Popped
    BY <1>1, <1>2, <1>3, <1>7, FetchFacts DEF FetchOK
  <2>2. Given = Popped
    BY <1>7 DEF Given, Asked
  <2>3. dataToWrite' = Here.data[Popped']
    BY <1>1, <1>7, <2>1 DEF FetchOK
  <2>4. Popped >= 1
    <3>1. CASE Popped = 0
      <4>1. Given * WordBytes = 0
        BY <1>5, <2>2, <3>1
      <4> QED BY <1>4, <1>5, <4>1
    <3> QED BY <1>1, <3>1
  <2>5. LastOfWord <=> flow + 1 = Popped * WordBytes
    <3>1. PICK q \in Nat : Popped = q + 1
      <4>1. Popped - 1 \in Nat /\ Popped = (Popped - 1) + 1
        BY <1>1, <2>4
      <4> QED BY <4>1
    <3>2. /\ Given - 1 = q /\ Given = q + 1 /\ flow \in Nat
      BY <1>4, <2>2, <3>1
    <3>3. q * WordBytes <= flow /\ flow < (q + 1) * WordBytes
      BY <1>5, <3>2
    <3>4. LastOfWord <=> flow + 1 = (q + 1) * WordBytes
      BY <3>2, <3>3, Split DEF LastOfWord
    <3> QED BY <3>1, <3>4
  <2>6. \/ ~reqSet' /\ cntFall' = cntFall - 1 /\ state' = "SEND"
             /\ flow' = flow /\ outEn' = outEn
        \/ ~reqSet' /\ flow = cnt /\ state' = "END"
        \/ ~reqSet' /\ ~LastOfWord /\ NextByte /\ state' = "SEND"
             /\ flow # cnt /\ outEn' = outEn
        \/ reqSet' /\ LastOfWord /\ NextByte /\ state' = "SEND" /\ flow # cnt
             /\ outEn' /\ rxQ # <<>>
        \/ ~reqSet' /\ LastOfWord /\ state' = "SEND" /\ flow' = flow
    BY <1>2 DEF SendData
  <2>7. NextByte /\ flow # cnt => flow' = flow + 1 /\ cntFall' = ByteBits - 1
    <3>1. flow # cnt => flow + 1 \in 0 .. PageBytes - 1
      BY <1>4
    <3> QED BY <1>4, <3>1, ModSmall DEF NextByte
  <2>8. ~outEn => LastOfWord
    BY DEF PhaseOK
  <2>9. CASE ~reqSet' /\ flow = cnt /\ state' = "END"
    <3>1. Popped = PageWords
      <4>1. flow = PageBytes - 1
        BY <1>1, <2>9
      <4> QED BY <1>1, <1>5, <2>2, <4>1, LastByte
    <3>2. ~Asked'
      BY <2>9 DEF Asked
    <3> QED BY <1>1, <2>1, <2>9, <3>1, <3>2 DEF FetchOK
  <2>10. CASE ~reqSet' /\ state' = "SEND" /\ flow' = flow
                /\ (~outEn' => LastOfWord)
    <3>1. Given' = Popped /\ ~Asked'
      BY <2>1, <2>10 DEF Given, Asked
    <3> QED BY <1>1, <1>5, <2>1, <2>2, <2>3, <2>5, <2>10, <3>1 DEF FetchOK
  <2>11. CASE ~reqSet' /\ ~LastOfWord /\ NextByte /\ state' = "SEND"
                /\ flow # cnt /\ outEn' = outEn
    <3>1. Given' = Popped /\ ~Asked'
      BY <2>1, <2>11 DEF Given, Asked
    <3>2. flow' = flow + 1
      BY <2>7, <2>11
    <3>3. flow + 1 < Popped * WordBytes /\ (Popped - 1) * WordBytes <= flow + 1
      <4>1. /\ Popped * WordBytes \in Nat /\ (Popped - 1) * WordBytes \in Nat
            /\ flow \in Nat
        BY <1>1, <1>4, <1>5, <2>4
      <4> QED BY <1>5, <2>2, <2>5, <2>11, <4>1
    <3>4. outEn'
      BY <2>8, <2>11
    <3> QED BY <1>1, <2>1, <2>3, <2>11, <3>1, <3>2, <3>3, <3>4 DEF FetchOK
  <2>12. CASE reqSet' /\ LastOfWord /\ NextByte /\ state' = "SEND"
                /\ flow # cnt /\ outEn' /\ rxQ # <<>>
    <3>1. Given' = Popped + 1 /\ Asked'
      BY <2>1, <2>12 DEF Given, Asked
    <3>2. flow' = flow + 1 /\ flow + 1 = Popped * WordBytes
            /\ cntFall' = ByteBits - 1
      BY <2>5, <2>7, <2>12
    <3>3. (Popped + 1) * WordBytes = Popped * WordBytes + WordBytes
            /\ Popped * WordBytes \in Nat /\ (Popped + 1) - 1 = Popped
      BY <1>1, <1>5
    <3>4. flow' # 0 /\ Stage(SinceFall') = "IDLE"
      <4>1. flow' # 0
        BY <1>4, <3>2
      <4> QED BY <1>3, <4>1 DEF Stage
    <3>5. rxQ' # <<>>
      BY <1>1, <2>1, <2>12 DEF RxMoved
    <3>6. /\ flow' = (Given' - 1) * WordBytes
          /\ (Given' - 1) * WordBytes <= flow' /\ flow' < Given' * WordBytes
      BY <1>5, <3>1, <3>2, <3>3
    <3> QED BY <1>1, <2>1, <2>12, <3>1, <3>2, <3>4, <3>5, <3>6 DEF FetchOK
  <2> QED BY <2>6, <2>8, <2>9, <2>10, <2>11, <2>12
<1> QED BY <1>6, <1>7

LEMMA RxStep ==
  ASSUME ControlInv, ControlInv', PhaseOK, PhaseOK', RxOK, Next
  PROVE  RxOK'
<1>1. rdReq' <=> fetchState' = "DEASSERT"
  BY EveryEdge, FetchFacts DEF RxOK
<1>2. ASSUME ~InPP \/ pc = "off", ~InPP' \/ NewCommand PROVE RxOK'
  <2>1. rxQ' = <<>> /\ ~reqSet' /\ fetchState' = "IDLE"
    BY <1>2, RxQuiet
  <2>2. rxQ' \in Seq(Words) /\ Len(rxQ') = 0
    BY <2>1
  <2>3. ASSUME InPP' PROVE Popped' = 0 /\ FetchOK'
    <3>1. moved' = 0 /\ ~rxWr' /\ ~Armed'
      BY <1>2, <2>3 DEF NewCommand, InPP
    <3>2. Popped' = 0
      <4>1. Popped' = moved' - Len(rxQ') - 0
        BY <3>1 DEF Popped
      <4>2. \A m, n \in Int : m = 0 /\ n = 0 => m - n - 0 = 0
        OBVIOUS
      <4> QED BY <2>2, <3>1, <4>1, <4>2
    <3>3. state' \in {"IDLE", "DONE"}
      BY <3>1 DEF ControlInv, HandOK
    <3> QED BY <2>1, <3>1, <3>2, <3>3 DEF FetchOK, Asked
  <2> QED BY <1>1, <2>1, <2>2, <2>3, QspiAssumption DEF RxOK
<1>3. ASSUME InPP, SameCommand, Armed => Armed', (moved' = moved /\ ~rxWr') \/ Push
      PROVE  RxOK'
  <2>1. RxMoved
    BY <1>3, RxSame
  <2>2. InPP' /\ Here' = Here
    BY <1>3 DEF InPP, SameCommand
  <2>3. FetchOK'
    <3>1. state \in {"IDLE", "CS", "CMD", "ADDR", "SEND", "END", "DONE"}
      BY <1>3, <2>1, ProgrammingFacts
         DEF ControlInv, HandOK, ActsOnRise, ActsOnFall
    <3>2. CASE state = "IDLE" /\ state' # "IDLE"
      BY <1>3, <2>1, <3>2, FetchStarts
    <3>3. CASE state \in {"IDLE", "END", "DONE"}
                 /\ (state = "IDLE" => state' = "IDLE")
      BY <1>3, <2>1, <3>3, FetchRests
    <3>4. CASE state \in {"CS", "CMD", "ADDR"}
      BY <1>3, <2>1, <3>4, FetchHead
    <3>5. CASE state = "SEND"
      BY <1>3, <2>1, <3>5, FetchWaits, FetchFalls
    <3> QED BY <3>1, <3>2, <3>3, <3>4, <3>5
  <2> QED BY <1>1, <2>1, <2>2, <2>3 DEF RxOK, RxMoved
<1>4. InPP => Here.pulls = 0 /\ pc \notin {"take", "status"}
  BY PushedWords, ProgramPlaces DEF ControlInv, InPP
<1>5. ProgInv /\ ProgInv'
  BY DEF ControlInv
<1>6. CASE SameCommand /\ moved' = moved /\ ~rxWr'
             /\ (Armed /\ ~Armed' => pc = "off" /\ pc' = "pop" /\ Here.pulls > 0)
  <2>1. CASE InPP
    BY <1>3, <1>4, <1>6, <2>1
  <2>2. CASE ~InPP
    <3>1. ~InPP'
      BY <1>6, <2>2 DEF SameCommand, InPP
    <3> QED BY <1>2, <2>2, <3>1
  <2> QED BY <2>1, <2>2
<1>7. CASE SameCommand /\ Push /\ (Armed => Armed')
  <2>1. InPP
    BY <1>5, <1>7, PushFacts, ProgramPlaces DEF InPP, SameCommand
  <2> QED BY <1>3, <1>7, <2>1
<1>8. CASE SameCommand /\ Take
  <2>1. ~InPP
    BY <1>4, <1>5, <1>8, ReadingFacts
  <2>2. ~InPP'
    BY <1>8, <2>1 DEF SameCommand, InPP
  <2> QED BY <1>2, <2>1, <2>2
<1>9. CASE /\ NewCommand
           /\ \/ ~Active
              \/ pc = "off"
              \/ pc \in {"take", "status"}
  <2>1. ~InPP \/ pc = "off"
    BY <1>4, <1>9 DEF InPP
  <2> QED BY <1>2, <1>9, <2>1
<1>10. CASE ~Active /\ ~Active'
  BY <1>2, <1>10 DEF InPP
<1> QED BY <1>5, <1>6, <1>7, <1>8, <1>9, <1>10, CallMoves

-----------------------------------------------------------------------------
(* The controller and the words for the chip.                              *)
RxInv == ControlInv /\ PhaseOK /\ RxOK

LEMMA RxInit == Init => RxInv
<1> SUFFICES ASSUME Init PROVE RxInv
  OBVIOUS
<1>1. PhaseOK
  BY DEF Init, ControllerInit, PhaseOK
<1>2. RxOK
  <2>1. <<>> \in Seq(Words)
    OBVIOUS
  <2>2. ~InPP
    BY DEF Init, InPP, Active
  <2> QED BY <2>1, <2>2 DEF Init, ControllerInit, RxOK
<1> QED BY <1>1, <1>2, ControlInit DEF RxInv

LEMMA RxStutters ==
  ASSUME RxInv, UNCHANGED vars
  PROVE  RxInv'
<1>1. /\ UNCHANGED <<call, blk, pc, moved>> /\ UNCHANGED regVars
      /\ UNCHANGED fsmVars /\ UNCHANGED fetchVars /\ UNCHANGED queueVars
      /\ UNCHANGED clockVars
  BY DEF vars, progVars
<1>2. Here' = Here /\ (Active' <=> Active) /\ (Armed' <=> Armed)
  BY <1>1 DEF Here, Active, Armed
<1>3. PhaseOK'
  BY <1>1, <1>2 DEF RxInv, PhaseOK, fsmVars, regVars, LastOfWord
<1>4. Popped' = Popped /\ (InPP' <=> InPP)
  BY <1>1, <1>2 DEF Popped, InPP, regVars, queueVars
<1>5. Given' = Given /\ (Asked' <=> Asked)
  BY <1>1, <1>4 DEF Given, Asked, fsmVars, fetchVars
<1>6. FetchOK => FetchOK'
  BY <1>1, <1>2, <1>4, <1>5
     DEF FetchOK, fsmVars, fetchVars, queueVars, clockVars, SinceRise, SinceFall
<1>7. RxOK'
  BY <1>1, <1>2, <1>4, <1>6 DEF RxInv, RxOK, fsmVars, fetchVars, queueVars
<1>8. ControlInv'
  BY ControlStep DEF RxInv
<1> QED BY <1>3, <1>7, <1>8 DEF RxInv

LEMMA RxInvStep == RxInv /\ [Next]_vars => RxInv'
<1> SUFFICES ASSUME RxInv, [Next]_vars PROVE RxInv'
  OBVIOUS
<1>1. CASE Next
  <2>1. ControlInv'
    BY <1>1, ControlStep DEF RxInv
  <2>2. PhaseOK'
    BY <1>1, <2>1, PhaseStep DEF RxInv
  <2> QED BY <1>1, <2>1, <2>2, RxStep DEF RxInv
<1>2. CASE UNCHANGED vars
  BY <1>2, RxStutters
<1> QED BY <1>1, <1>2

(* The words queued for the chip, asked for, fetched ahead and being sent   *)
(* are those the program has stored for the command, in their order.       *)
THEOREM RxCorrect == Spec => []RxInv
BY RxInit, RxInvStep, PTL DEF Spec

(* The clock stops for want of words only while words are still to come:   *)
(* once the program has stored them all the transaction goes on.           *)
THEOREM StallEndsCorrect == Spec => []StallEnds
<1>1. RxInv => StallEnds
  <2> SUFFICES ASSUME RxInv, At("poll"), state = "SEND", ~outEn
               PROVE  rxQ # <<>> \/ rxWr
    BY DEF StallEnds
  <2> USE QspiAssumption
  <2>1. InPP /\ Armed /\ ControlInv /\ pc = "poll"
    BY DEF RxInv, PhaseOK, InPP, Active, Armed, At
  <2>2. moved = PageWords /\ cnt = PageBytes - 1
    BY <2>1, PushedWords, CtrlFacts DEF ControlInv, ProgInv
  <2>3. /\ cntFall = 0 /\ flow # cnt /\ flow \in 0 .. cnt
    BY DEF RxInv, PhaseOK
  <2>4. /\ FetchOK /\ Popped \in 0 .. PageWords /\ Len(rxQ) \in Nat
    BY <2>1, QueueLemma DEF RxInv, RxOK
  <2>5. Given = Popped /\ flow + 1 = Popped * WordBytes
    BY <2>3, <2>4 DEF FetchOK, Given, Asked
  <2>6. Popped # PageWords
    BY <2>2, <2>3, <2>5, Sizes DEF PageBytes
  <2> QED BY <2>2, <2>4, <2>6 DEF Popped
<1> QED BY <1>1, RxCorrect, PTL

-----------------------------------------------------------------------------
(* The command on the wires.                                               *)
LEMMA HeadFacts ==
  ASSUME NEW b, CommandOK(b)
  PROVE  /\ HeadBits(b.cmd) \in Nat /\ HeadBits(b.cmd) >= CmdBits
         /\ ~Addressed(b.cmd) => HeadBits(b.cmd) = CmdBits
         /\ Addressed(b.cmd) => HeadBits(b.cmd) >= CmdBits + AddrBits
         /\ Addressed(b.cmd) /\ b.cmd # "FAST" =>
              HeadBits(b.cmd) = CmdBits + AddrBits
         /\ b.cmd = "FAST" => HeadBits(b.cmd) = CmdBits + AddrBits + DummyBits
BY QspiAssumption DEF HeadBits, Addressed

(* The serial clock does not rise at the edges at which the transaction    *)
(* machine acts, and falls a half period after it rose.                    *)
LEMMA EdgeKinds ==
  ASSUME ControlInv, Next, state # "IDLE"
  PROVE  /\ Tick => ~rise /\ ~fall
         /\ ~Tick => /\ clk' <=> clk
                     /\ div' # 0
                     /\ ~clk /\ div = 0 => fall
         /\ Tick => /\ clk' <=> ~clk
                    /\ div' = 0 /\ div # 0
         /\ rise => clk
         /\ fall => ~clk /\ div = 0
         /\ {clk, rise, fall} \subseteq BOOLEAN
<1>1. /\ div \in 0 .. Div - 1 /\ Div \in Nat /\ Div >= 2
      /\ rise <=> clk /\ div = 0
      /\ fall => ~clk /\ div = 0
      /\ ~clk /\ div = 0 => fall \/ state = "IDLE"
  BY QspiAssumption DEF ControlInv, ClockOK
<1>2. /\ Tick => div' = 0 /\ (clk' <=> ~clk)
      /\ ~Tick => div' = div + 1 /\ (clk' <=> clk)
      /\ Tick <=> div = Div - 1
      /\ {clk, rise, fall} \subseteq BOOLEAN
  BY EveryEdge, Zenon DEF ControlInv, ClockOK, ClockEdge, Tick
<1> QED BY <1>1, <1>2

Frozen ==
  /\ state' = state /\ cntFall' = cntFall /\ flow' = flow /\ mosi' = mosi
  /\ cntRise' = cntRise /\ readReg' = readReg /\ wrData' = wrData
  /\ (outEn' <=> outEn) /\ (csN' <=> csN) /\ (doWrite' <=> doWrite)
  /\ (done' <=> done) /\ (reqSet' <=> reqSet)

LEMMA FrozenFacts == UNCHANGED fsmVars => Frozen
BY DEF fsmVars, Frozen

(* What an edge at which the serial clock has not fallen does.             *)
LEMMA MachineKeeps ==
  ASSUME FsmEdge, {rise, fall} \subseteq BOOLEAN
  PROVE  /\ ~rise /\ ~fall => Frozen
         /\ rise /\ ~fall /\ state \in Busy \ {"READ"} => Frozen
         /\ fall /\ ~rise /\ state \in {"CS", "DONE", "IDLE"} => Frozen
         /\ rise /\ ~fall /\ state = "READ" => Sample
         /\ rise /\ ~fall /\ state = "DONE" => Complete
         /\ rise /\ ~fall /\ state = "CS" => Select
         /\ rise /\ ~fall /\ state = "IDLE" => Idle
         /\ fall /\ ~rise /\ state \in Busy =>
              \/ SendCmd \/ SendAddress \/ SendDummy \/ ReadPre \/ SendData
              \/ ReadData \/ End
<1>0. UNCHANGED fsmVars => Frozen
  BY FrozenFacts
<1> USE DEF FsmEdge, Rest
<1>1. ~rise /\ ~fall => Frozen
  BY <1>0 DEF Idle, Select, Sample, Complete, SendCmd, SendAddress, SendDummy,
      ReadPre, SendData, ReadData, End
<1>2. rise /\ ~fall /\ state \in Busy \ {"READ"} => Frozen
  BY <1>0 DEF Busy, Idle, Select, Sample, Complete, SendCmd, SendAddress,
      SendDummy, ReadPre, SendData, ReadData, End
<1>3. fall /\ ~rise /\ state \in {"CS", "DONE", "IDLE"} => Frozen
  BY <1>0 DEF Idle, Select, Sample, Complete, SendCmd, SendAddress, SendDummy,
      ReadPre, SendData, ReadData, End
<1>4. /\ rise /\ ~fall /\ state = "READ" => Sample
      /\ rise /\ ~fall /\ state = "DONE" => Complete
      /\ rise /\ ~fall /\ state = "CS" => Select
      /\ rise /\ ~fall /\ state = "IDLE" => Idle
  BY DEF ActsOnRise, Idle, Select, Sample, Complete, SendCmd, SendAddress,
      SendDummy, ReadPre, SendData, ReadData, End
<1>5. fall /\ ~rise /\ state \in Busy =>
        \/ SendCmd \/ SendAddress \/ SendDummy \/ ReadPre \/ SendData
        \/ ReadData \/ End
  BY DEF ActsOnFall, Busy, Idle, Select, Sample, Complete
<1> QED BY <1>1, <1>2, <1>3, <1>4, <1>5

LEMMA BusyFacts ==
  ASSUME RxInv, RxInv', Next, state \in Busy
  PROVE  /\ Armed /\ Armed' /\ Active /\ Here' = Here /\ CommandOK(Here)
         /\ UNCHANGED <<ctrl, instr, addr, cnt>>
         /\ ctrl.addr <=> Here.page # Nil
         /\ ctrl.mode = Here.mode /\ ctrl.dir = Here.dir
         /\ ctrl.dummy = Here.dummy
         /\ instr = Here.cmd /\ cnt = Here.count /\ cnt \in 0 .. PageBytes - 1
         /\ Here.page # Nil => addr = Here.page
         /\ Here.page # Nil <=> Addressed(Here.cmd)
         /\ ~csN /\ ~done /\ runs = 0 /\ pc # "off"
<1>1. state \notin {"IDLE", "DONE"}
  BY DEF Busy
<1>2. Armed /\ Moves
  BY <1>1, MachineRuns DEF RxInv
<1>3. ~csN /\ ~done /\ runs = 0 /\ pc # "off"
  BY <1>2 DEF RxInv, ControlInv, HandOK, Busy
<1>4. Armed'
  BY <1>2, <1>3 DEF Moves
<1> QED BY <1>2, <1>3, <1>4, MachineRuns DEF RxInv, Armed, Active, CommandOK

(* The word at hand when the serial clock falls.                           *)
LEMMA WordAtHand ==
  ASSUME RxInv, RxInv', Next, fall, state = "SEND"
  PROVE  /\ dataToWrite[flow % WordBytes] = ByteAt(flow)
         /\ flow \div WordBytes + 1 \in 1 .. PageWords
         /\ flow % WordBytes \in 0 .. WordBytes - 1
<1> USE QspiAssumption
<1>1. InPP /\ FetchOK /\ Popped \in 0 .. PageWords /\ state \in Busy
        /\ flow \in 0 .. cnt /\ cnt \in 0 .. PageBytes - 1
        /\ PageBytes \in Nat /\ WordBytes \in Nat \ {0}
  <2>1. state \in Busy /\ Here.cmd = "PP" /\ flow \in 0 .. cnt
    BY DEF Busy, RxInv, PhaseOK
  <2>2. InPP
    BY <2>1, BusyFacts DEF InPP
  <2> QED BY <2>1, <2>2, BusyFacts, Sizes DEF RxInv, RxOK
<1>2. SinceFall = 2 * Div
  BY <1>1, EveryEdge, ClockStep DEF RxInv, ControlInv, Busy
<1>3. reqSet => fetchState = "DONE"
  <2>1. Stage(SinceFall) = "DONE"
    BY <1>2 DEF Stage
  <2> QED BY <1>1, <2>1 DEF FetchOK
<1>4. dataToWrite = Here.data[Popped]
  BY <1>1, <1>3 DEF FetchOK
<1>5. Given = Popped
  BY <1>3 DEF Given, Asked
<1>6. (Popped - 1) * WordBytes <= flow /\ flow < Popped * WordBytes
  BY <1>1, <1>5 DEF FetchOK
<1>7. Popped # 0
  <2>1. Popped = 0 => Popped * WordBytes = 0
    BY <1>1
  <2> QED BY <1>1, <1>6, <2>1
<1>8. PICK q \in Nat : Popped = q + 1 /\ Popped - 1 = q
  <2>1. Popped - 1 \in Nat /\ Popped = (Popped - 1) + 1
    BY <1>1, <1>7
  <2> QED BY <2>1
<1>9. flow \div WordBytes = q
  <2>1. q * WordBytes <= flow /\ flow < (q + 1) * WordBytes /\ flow \in Nat
    BY <1>1, <1>6, <1>8
  <2> QED BY <2>1, Split
<1>10. flow % WordBytes \in 0 .. WordBytes - 1
  BY <1>1
<1>11. flow \div WordBytes + 1 = Popped
  BY <1>8, <1>9
<1>12. Popped \in 1 .. PageWords
  BY <1>1, <1>7
<1>13. dataToWrite[flow % WordBytes] = ByteAt(flow)
  BY <1>4, <1>11 DEF ByteAt
<1> QED BY <1>10, <1>11, <1>12, <1>13

(* How many bits have been sent in each state.                             *)
LEMMA SentFacts ==
  /\ state = "CMD" => Sent = CmdBits - 1 - cntFall
  /\ state = "ADDR" => Sent = CmdBits + AddrBits - 1 - cntFall
  /\ state = "DUMMY" => Sent = CmdBits + AddrBits + DummyBits - 1 - cntFall
  /\ state = "PRE" => Sent = HeadBits(Here.cmd) + 0
  /\ state = "SEND" =>
       Sent = HeadBits(Here.cmd) + (flow * ByteBits + (ByteBits - 1 - cntFall))
  /\ state = "READ" =>
       Sent = HeadBits(Here.cmd)
                + (flow * ByteBits + (ByteBits - 1 - cntFall) + 1)
  /\ state \in {"END", "DONE"} => Sent = HeadBits(Here.cmd) + DataBits
BY DEF Sent

LEMMA SentNext ==
  ASSUME Here' = Here
  PROVE  /\ state' = "CMD" => Sent' = CmdBits - 1 - cntFall'
         /\ state' = "ADDR" => Sent' = CmdBits + AddrBits - 1 - cntFall'
         /\ state' = "DUMMY" =>
              Sent' = CmdBits + AddrBits + DummyBits - 1 - cntFall'
         /\ state' = "PRE" => Sent' = HeadBits(Here.cmd) + 0
         /\ state' = "SEND" =>
              Sent' = HeadBits(Here.cmd)
                        + (flow' * ByteBits + (ByteBits - 1 - cntFall'))
         /\ state' = "READ" =>
              Sent' = HeadBits(Here.cmd)
                        + (flow' * ByteBits + (ByteBits - 1 - cntFall') + 1)
         /\ state' \in {"END", "DONE"} =>
              Sent' = HeadBits(Here.cmd) + DataBits
<1>1. DataBits' = DataBits
  BY DEF DataBits
<1> QED BY <1>1 DEF Sent

(* A falling edge puts the next bit on the wires, if the clock goes on.    *)
LEMMA HeadSent ==
  ASSUME RxInv, RxInv', Next, SendCmd \/ SendAddress \/ SendDummy, fall
  PROVE  /\ Sent \in Nat /\ Sent' = Sent + 1 /\ outEn'
         /\ \A n : n = Sent => MosiIs(n)'
<1>0. /\ CmdBits \in Nat \ {0} /\ AddrBits \in Nat \ {0}
      /\ DummyBits \in Nat \ {0} /\ ByteBits \in Nat \ {0}
  BY QspiAssumption
<1> USE <1>0
<1> DEFINE b == Here
<1>1. /\ state \in {"CMD", "ADDR", "DUMMY"} /\ Here' = b /\ CommandOK(b)
      /\ ctrl.addr <=> b.page # Nil
      /\ ctrl.mode = b.mode /\ ctrl.dir = b.dir /\ ctrl.dummy = b.dummy
      /\ instr = b.cmd
      /\ b.page # Nil => addr = b.page
      /\ b.page # Nil <=> Addressed(b.cmd)
  <2>1. state \in {"CMD", "ADDR", "DUMMY"}
    BY DEF SendCmd, SendAddress, SendDummy
  <2> QED BY <2>1, BusyFacts DEF Busy
<1>2. /\ HeadBits(b.cmd) \in Nat /\ HeadBits(b.cmd) >= CmdBits
      /\ ~Addressed(b.cmd) => HeadBits(b.cmd) = CmdBits
      /\ Addressed(b.cmd) => HeadBits(b.cmd) >= CmdBits + AddrBits
      /\ Addressed(b.cmd) /\ b.cmd # "FAST" =>
           HeadBits(b.cmd) = CmdBits + AddrBits
      /\ b.cmd = "FAST" => HeadBits(b.cmd) = CmdBits + AddrBits + DummyBits
  BY <1>1, HeadFacts
<1>3. /\ state = "CMD" => cntFall \in 0 .. CmdBits - 1
      /\ state = "ADDR" => cntFall \in 0 .. AddrBits - 1 /\ outEn
                           /\ Addressed(b.cmd)
      /\ state = "DUMMY" => cntFall \in 0 .. DummyBits - 1 /\ outEn
                            /\ b.cmd = "FAST"
  BY DEF RxInv, PhaseOK
<1>4. Here' = b /\ (b.mode = 0 => DataBits = 0)
  BY <1>1 DEF DataBits
<1>5. CASE SendCmd
  <2>1. /\ state = "CMD" /\ outEn' /\ mosi' = Bit("instr", instr)
        /\ \/ state' = "CMD" /\ cntFall' = cntFall - 1
           \/ state' = "ADDR" /\ ctrl.addr /\ cntFall' = AddrBits - 1
              /\ cntFall = 0
           \/ state' = DataPhase /\ ~ctrl.addr /\ ctrl.mode = 1
              /\ cntFall' = ByteBits - 1 /\ flow' = 0 /\ cntFall = 0
           \/ state' = "END" /\ ~ctrl.addr /\ ctrl.mode # 1 /\ cntFall = 0
    BY <1>5 DEF SendCmd
  <2>2. Sent = CmdBits - 1 - cntFall /\ cntFall \in 0 .. CmdBits - 1
    BY <1>3, <2>1, SentFacts
  <2>3. ASSUME state' = "CMD" /\ cntFall' = cntFall - 1
         PROVE  Sent' = Sent + 1
    <3>1. Sent' = CmdBits - 1 - cntFall'
      BY <1>1, <2>3, SentNext
    <3> QED BY <2>1, <2>2, <2>3, <3>1
  <2>4. ASSUME state' = "ADDR" /\ cntFall' = AddrBits - 1 /\ cntFall = 0
         PROVE  Sent' = Sent + 1
    <3>1. Sent' = CmdBits + AddrBits - 1 - cntFall'
      BY <1>1, <2>4, SentNext
    <3> QED BY <2>1, <2>2, <2>4, <3>1
  <2>5. ASSUME state' = DataPhase /\ ~ctrl.addr /\ ctrl.mode = 1
           /\ cntFall' = ByteBits - 1 /\ flow' = 0 /\ cntFall = 0
         PROVE  Sent' = Sent + 1
    <3>1. b.dir = "read" /\ ~Addressed(b.cmd)
      BY <1>1, <2>5 DEF CommandOK, Addressed
    <3>2. state' = "PRE"
      BY <1>1, <2>5, <3>1 DEF DataPhase
    <3>3. Sent' = HeadBits(b.cmd)
      BY <1>1, <1>2, <3>2, SentNext
    <3> QED BY <1>2, <2>2, <2>5, <3>1, <3>3
  <2>6. ASSUME state' = "END" /\ ~ctrl.addr /\ ctrl.mode # 1 /\ cntFall = 0
         PROVE  Sent' = Sent + 1
    <3>1. b.mode = 0 /\ ~Addressed(b.cmd)
      BY <1>1, <2>6 DEF CommandOK
    <3>2. Sent' = HeadBits(b.cmd) + DataBits
      BY <1>1, <2>6, SentNext
    <3>3. Sent' = CmdBits
      BY <1>2, <1>4, <3>1, <3>2
    <3> QED BY <2>2, <2>6, <3>3
  <2>7. Sent \in Nat /\ Sent' = Sent + 1
    BY <2>1, <2>2, <2>3, <2>4, <2>5, <2>6
  <2>8. ASSUME NEW n, n = Sent PROVE MosiIs(n)'
    <3>1. /\ n < CmdBits /\ cntFall = CmdBits - 1 - n /\ n \in Nat
          /\ HeadBits("PP") >= CmdBits
      BY <2>2, <2>8 DEF HeadBits, Addressed
    <3>2. mosi' = [field |-> "instr", value |-> Here'.cmd,
                   bit |-> CmdBits - 1 - n]
      BY <1>1, <2>1, <3>1 DEF Bit
    <3>3. ~(CmdBits <= n) /\ (Here'.cmd = "PP" => ~(HeadBits("PP") <= n))
      <4>1. HeadBits("PP") \in Nat
        BY DEF HeadBits
      <4> QED BY <3>1, <4>1
    <3> QED BY <3>2, <3>3 DEF MosiIs
  <2> QED BY <2>1, <2>7, <2>8
<1>6. CASE SendAddress
  <2>1. /\ state = "ADDR" /\ outEn' = outEn /\ mosi' = Bit("addr", addr)
        /\ \/ state' = "ADDR" /\ cntFall' = cntFall - 1
           \/ state' = DataPhase /\ ctrl.mode = 1 /\ ctrl.dummy = 0
              /\ cntFall' = ByteBits - 1 /\ flow' = 0 /\ cntFall = 0
           \/ state' = "DUMMY" /\ cntFall' = ctrl.dummy - 1 /\ ctrl.dummy # 0
              /\ cntFall = 0
           \/ state' = "END" /\ ctrl.mode = 0 /\ cntFall = 0
           \/ ctrl.mode \notin {0, 1}
    BY <1>6 DEF SendAddress
  <2>2. /\ Sent = CmdBits + AddrBits - 1 - cntFall
        /\ cntFall \in 0 .. AddrBits - 1 /\ outEn /\ Addressed(b.cmd)
    BY <1>3, <2>1, SentFacts
  <2>3. ASSUME state' = "ADDR" /\ cntFall' = cntFall - 1
         PROVE  Sent' = Sent + 1
    <3>1. Sent' = CmdBits + AddrBits - 1 - cntFall'
      BY <1>1, <2>3, SentNext
    <3> QED BY <2>1, <2>2, <2>3, <3>1
  <2>4. ASSUME state' = DataPhase /\ ctrl.mode = 1 /\ ctrl.dummy = 0
           /\ cntFall' = ByteBits - 1 /\ flow' = 0 /\ cntFall = 0
         PROVE  Sent' = Sent + 1
    <3>1. b.cmd # "FAST" /\ state' \in {"PRE", "SEND"}
      BY <1>1, <2>4 DEF CommandOK, DataPhase
    <3>2. Sent' = HeadBits(b.cmd)
      <4>1. state' = "SEND" => Sent' = HeadBits(b.cmd) + (0 * ByteBits + 0)
        BY <1>1, <2>4, SentNext
      <4> QED BY <1>1, <1>2, <3>1, <4>1, SentNext
    <3> QED BY <1>2, <2>1, <2>2, <2>4, <3>1, <3>2
  <2>5. ASSUME state' = "DUMMY" /\ cntFall' = ctrl.dummy - 1 /\ ctrl.dummy # 0
           /\ cntFall = 0
         PROVE  Sent' = Sent + 1
    <3>1. ctrl.dummy = DummyBits
      BY <1>1, <2>5 DEF CommandOK
    <3>2. Sent' = CmdBits + AddrBits + DummyBits - 1 - cntFall'
      BY <1>1, <2>5, SentNext
    <3>3. Sent = CmdBits + AddrBits - 1
      BY <2>2, <2>5
    <3>4. Sent' = CmdBits + AddrBits
      BY <2>5, <3>1, <3>2
    <3> QED BY <3>3, <3>4
  <2>6. ASSUME state' = "END" /\ ctrl.mode = 0 /\ cntFall = 0
         PROVE  Sent' = Sent + 1
    <3>1. b.mode = 0 /\ b.cmd # "FAST"
      BY <1>1, <2>6 DEF CommandOK
    <3>2. Sent' = HeadBits(b.cmd) + DataBits
      BY <1>1, <2>6, SentNext
    <3>3. Sent' = CmdBits + AddrBits
      BY <1>2, <1>4, <2>2, <3>1, <3>2
    <3> QED BY <2>2, <2>6, <3>3
  <2>7. ctrl.mode \in {0, 1}
    BY <1>1 DEF CommandOK
  <2>8. Sent \in Nat /\ Sent' = Sent + 1
    <3>1. Sent \in Nat
      BY <2>2
    <3>2. Sent' = Sent + 1
      BY <2>1, <2>3, <2>4, <2>5, <2>6, <2>7
    <3> QED BY <3>1, <3>2
  <2>9. ASSUME NEW n, n = Sent PROVE MosiIs(n)'
    <3>1. /\ CmdBits <= n /\ n < CmdBits + AddrBits /\ n \in Nat
          /\ cntFall = CmdBits + AddrBits - 1 - n
      BY <2>2, <2>9
    <3>2. HeadBits("PP") = CmdBits + AddrBits
      BY DEF HeadBits, Addressed
    <3>3. mosi' = [field |-> "addr", value |-> Here'.page,
                   bit |-> CmdBits + AddrBits - 1 - n]
      BY <1>1, <2>1, <2>2, <3>1 DEF Bit
    <3>4. ~(n < CmdBits)
      BY <3>1
    <3>5. ~(HeadBits("PP") <= n)
      BY <3>1, <3>2
    <3> QED BY <3>3, <3>4, <3>5 DEF MosiIs
  <2> QED BY <2>1, <2>2, <2>8, <2>9
<1>7. CASE SendDummy
  <2>1. /\ state = "DUMMY" /\ outEn' = outEn
        /\ \/ state' = "PRE" /\ cntFall = 0
           \/ state' = "DUMMY" /\ cntFall' = cntFall - 1
    BY <1>7 DEF SendDummy
  <2>2. /\ Sent = CmdBits + AddrBits + DummyBits - 1 - cntFall
        /\ cntFall \in 0 .. DummyBits - 1 /\ outEn /\ b.cmd = "FAST"
    BY <1>3, <2>1, SentFacts
  <2>3. Sent' = Sent + 1
    <3>1. CASE state' = "PRE" /\ cntFall = 0
      <4>1. Sent' = HeadBits(b.cmd)
        BY <1>1, <1>2, <3>1, SentNext
      <4> QED BY <1>2, <2>2, <3>1, <4>1
    <3>2. CASE state' = "DUMMY" /\ cntFall' = cntFall - 1
      <4>1. Sent' = CmdBits + AddrBits + DummyBits - 1 - cntFall'
        BY <1>1, <3>2, SentNext
      <4> QED BY <2>2, <3>2, <4>1
    <3> QED BY <2>1, <3>1, <3>2
  <2>4. ASSUME NEW n, n = Sent PROVE MosiIs(n)'
    <3>1. ~(n < CmdBits) /\ ~(n < CmdBits + AddrBits) /\ Here'.cmd # "PP"
      BY <1>1, <2>2, <2>4
    <3> QED BY <3>1 DEF MosiIs
  <2> QED BY <2>1, <2>2, <2>3, <2>4
<1> QED BY <1>5, <1>6, <1>7

(* ... and stays behind where the clock stops.                             *)
LEMMA DataSent ==
  ASSUME RxInv, RxInv', Next, ReadPre \/ SendData \/ ReadData \/ End, fall
  PROVE  /\ Sent \in Nat
         /\ outEn' => Sent' = Sent + 1
         /\ ~outEn' => Sent' = Sent
         /\ outEn' => \A n : n = Sent => MosiIs(n)'
<1>0. /\ {ByteBits, CmdBits, AddrBits, DummyBits, WordBytes} \subseteq Nat
      /\ ByteBits \in Nat /\ ByteBits >= 2
  BY QspiAssumption
<1> DEFINE b == Here
           h == HeadBits(Here.cmd)
<1>1. /\ state \in {"PRE", "SEND", "READ", "END"} /\ Here' = b /\ CommandOK(b)
      /\ cnt = b.count /\ cnt \in 0 .. PageBytes - 1 /\ PageBytes \in Nat
  <2>1. state \in {"PRE", "SEND", "READ", "END"}
    BY DEF ReadPre, SendData, ReadData, End
  <2> QED BY <2>1, BusyFacts, Sizes DEF Busy
<1>2. /\ h \in Nat /\ h >= CmdBits
      /\ Addressed(b.cmd) => h >= CmdBits + AddrBits
  BY <1>1, HeadFacts, QspiAssumption
<1>3. /\ state = "PRE" => cntFall = ByteBits - 1 /\ flow = 0 /\ outEn
                          /\ b.dir = "read"
      /\ state = "SEND" =>
           /\ cntFall \in 0 .. ByteBits - 1 /\ flow \in 0 .. cnt /\ b.cmd = "PP"
           /\ ~outEn => cntFall = 0 /\ flow # cnt /\ LastOfWord
      /\ state = "READ" => /\ cntFall \in 0 .. ByteBits - 1 /\ flow \in 0 .. cnt
                           /\ outEn /\ b.mode = 1 /\ b.dir = "read"
  BY DEF RxInv, PhaseOK
<1>4. /\ b.dir = "read" => b.cmd # "PP"
      /\ b.cmd = "PP" => b.dir = "write" /\ b.mode = 1
      /\ b.mode \in {0, 1} /\ b.count \in Nat
  BY <1>1 DEF CommandOK
<1>5. /\ b.mode = 0 => DataBits = 0
      /\ b.mode = 1 /\ b.dir = "write" => DataBits = (cnt + 1) * ByteBits
      /\ b.mode = 1 /\ b.dir = "read" => DataBits = (cnt + 1) * ByteBits + 1
      /\ DataBits \in Nat
  <2>1. (b.count + 1) * ByteBits \in Nat
    BY <1>0, <1>4
  <2>2. b.mode = 1 => DataBits = (cnt + 1) * ByteBits
                                   + (IF b.dir = "write" THEN 0 ELSE 1)
    BY <1>1 DEF DataBits
  <2>3. b.mode = 0 => DataBits = 0
    BY DEF DataBits
  <2> QED BY <1>1, <1>4, <2>1, <2>2, <2>3
<1>6. PICK p : /\ flow * ByteBits = p
               /\ flow \in Nat =>
                    p \in Nat /\ (flow + 1) * ByteBits = p + ByteBits
  <2>1. flow \in Nat => /\ flow * ByteBits \in Nat
                        /\ (flow + 1) * ByteBits = flow * ByteBits + ByteBits
    BY <1>0
  <2> QED BY <2>1
<1>7. flow \in 0 .. cnt /\ flow # cnt => (flow + 1) % PageBytes = flow + 1
  <2>1. flow \in 0 .. cnt /\ flow # cnt => flow + 1 \in 0 .. PageBytes - 1
    BY <1>1
  <2>2. PageBytes \in Nat \ {0}
    BY <1>1
  <2> QED BY <2>1, <2>2, ModSmall
<1>8. ASSUME b.cmd # "PP", NEW n \in Nat, n >= h PROVE MosiIs(n)'
  <2>1. ~(n < CmdBits) /\ ~(n < CmdBits + AddrBits /\ Addressed(Here'.cmd))
        /\ Here'.cmd # "PP"
    BY <1>0, <1>1, <1>2, <1>8
  <2> QED BY <2>1 DEF MosiIs
<1>9. CASE ReadPre
  <2>1. state = "PRE" /\ state' = "READ" /\ outEn' = outEn
        /\ flow' = flow /\ cntFall' = cntFall
    BY <1>9 DEF ReadPre
  <2>2. Sent = h + 0
    BY <2>1, SentFacts
  <2>3. Sent' = h + (p + (ByteBits - 1 - cntFall) + 1) /\ p = 0
    <3>1. Sent' = h + (flow' * ByteBits + (ByteBits - 1 - cntFall') + 1)
      BY <1>1, <2>1, SentNext
    <3>2. 0 * ByteBits = 0
      BY <1>0
    <3> QED BY <1>3, <1>6, <2>1, <3>1, <3>2
  <2>4. Sent \in Nat /\ Sent' = Sent + 1 /\ Sent >= h
    BY <1>0, <1>2, <1>3, <2>1, <2>2, <2>3
  <2>5. b.cmd # "PP" /\ outEn
    BY <1>3, <1>4, <2>1
  <2> QED BY <1>8, <2>1, <2>4, <2>5
<1>10. CASE ReadData
  <2>1. /\ state = "READ" /\ outEn' = outEn
        /\ \/ cntFall # 0 /\ cntFall' = cntFall - 1 /\ flow' = flow
              /\ state' = "READ"
           \/ cntFall = 0 /\ flow # cnt /\ state' = "READ"
              /\ flow' = (flow + 1) % PageBytes /\ cntFall' = ByteBits - 1
           \/ cntFall = 0 /\ flow = cnt /\ state' = "END"
    BY <1>10 DEF ReadData, NextByte
  <2>2. Sent = h + (p + (ByteBits - 1 - cntFall) + 1)
    BY <1>6, <2>1, SentFacts
  <2>3. state' = "READ" =>
          Sent' = h + (flow' * ByteBits + (ByteBits - 1 - cntFall') + 1)
    BY <1>1, SentNext
  <2>4. state' = "END" => Sent' = h + ((cnt + 1) * ByteBits + 1)
    BY <1>1, <1>3, <1>5, <2>1, SentNext
  <2>5. flow \in 0 .. cnt /\ flow \in Nat /\ cntFall \in 0 .. ByteBits - 1
        /\ cntFall \in Nat /\ p \in Nat /\ ByteBits - 1 - cntFall \in Nat
    BY <1>0, <1>1, <1>3, <1>6, <2>1
  <2>6. Sent \in Nat /\ Sent >= h
    BY <1>0, <1>2, <2>2, <2>5
  <2>7. Sent' = Sent + 1
    <3>1. CASE cntFall # 0 /\ cntFall' = cntFall - 1 /\ flow' = flow
               /\ state' = "READ"
      <4>1. Sent' = h + (p + (ByteBits - 1 - cntFall') + 1)
        BY <1>6, <2>3, <3>1
      <4> QED BY <1>0, <1>2, <2>2, <2>5, <3>1, <4>1
    <3>2. CASE cntFall = 0 /\ flow # cnt /\ state' = "READ"
               /\ flow' = (flow + 1) % PageBytes /\ cntFall' = ByteBits - 1
      <4>1. flow' = flow + 1
        BY <1>7, <2>5, <3>2
      <4>2. Sent' = h + (p + ByteBits + (ByteBits - 1 - (ByteBits - 1)) + 1)
        BY <1>0, <1>6, <2>3, <2>5, <3>2, <4>1
      <4> QED BY <1>0, <1>2, <2>2, <2>5, <3>2, <4>2
    <3>3. CASE cntFall = 0 /\ flow = cnt /\ state' = "END"
      <4>1. Sent' = h + (p + ByteBits + 1)
        BY <1>6, <2>4, <2>5, <3>3
      <4> QED BY <1>0, <1>2, <2>2, <2>5, <3>3, <4>1
    <3> QED BY <2>1, <3>1, <3>2, <3>3
  <2>8. b.cmd # "PP" /\ outEn
    BY <1>3, <1>4, <2>1
  <2> QED BY <1>8, <2>1, <2>6, <2>7, <2>8
<1>11. CASE SendData
  <2>1. /\ state = "SEND"
        /\ mosi' = Bit("data", dataToWrite[flow % WordBytes])
        /\ \/ cntFall # 0 /\ cntFall' = cntFall - 1 /\ flow' = flow
              /\ state' = "SEND" /\ outEn' = outEn
           \/ cntFall = 0 /\ flow # cnt /\ state' = "SEND"
              /\ flow' = (flow + 1) % PageBytes /\ cntFall' = ByteBits - 1
              /\ (outEn' \/ (~LastOfWord /\ outEn' = outEn))
           \/ cntFall = 0 /\ flow = cnt /\ state' = "END" /\ outEn' = outEn
           \/ cntFall' = cntFall /\ flow' = flow /\ state' = "SEND" /\ ~outEn'
    <3>1. /\ state = "SEND"
          /\ mosi' = Bit("data", dataToWrite[flow % WordBytes])
      BY <1>11 DEF SendData
    <3>2. CASE cntFall # 0
      BY <1>11, <3>1, <3>2 DEF SendData
    <3>3. CASE cntFall = 0 /\ flow = cnt
      BY <1>11, <3>1, <3>3 DEF SendData
    <3>4. CASE cntFall = 0 /\ flow # cnt /\ ~LastOfWord
      BY <1>11, <3>1, <3>4 DEF SendData, NextByte
    <3>5. CASE cntFall = 0 /\ flow # cnt /\ LastOfWord /\ rxQ # <<>>
      <4>1. NextByte /\ outEn' = TRUE /\ state' = state
        BY <1>11, <3>5 DEF SendData
      <4>2. outEn'
        BY <4>1
      <4>3. state' = "SEND" /\ cntFall' = ByteBits - 1
            /\ flow' = (flow + 1) % PageBytes
        BY <3>1, <4>1 DEF NextByte
      <4> QED BY <3>1, <3>5, <4>2, <4>3
    <3>6. CASE cntFall = 0 /\ flow # cnt /\ LastOfWord /\ rxQ = <<>>
      BY <1>11, <3>1, <3>6 DEF SendData
    <3> QED BY <3>2, <3>3, <3>4, <3>5, <3>6
  <2>2. Sent = h + (p + (ByteBits - 1 - cntFall))
    BY <1>6, <2>1, SentFacts
  <2>3. state' = "SEND" =>
          Sent' = h + (flow' * ByteBits + (ByteBits - 1 - cntFall'))
    BY <1>1, SentNext
  <2>4. state' = "END" => Sent' = h + (cnt + 1) * ByteBits
    BY <1>1, <1>3, <1>4, <1>5, <2>1, SentNext
  <2>5. flow \in 0 .. cnt /\ flow \in Nat /\ cntFall \in 0 .. ByteBits - 1
        /\ cntFall \in Nat /\ p \in Nat /\ ByteBits - 1 - cntFall \in Nat
    BY <1>0, <1>1, <1>3, <1>6, <2>1
  <2>6. Sent \in Nat
    BY <1>0, <1>2, <2>2, <2>5
  <2>7. (outEn' => Sent' = Sent + 1) /\ (~outEn' => Sent' = Sent)
    <3>1. CASE cntFall # 0 /\ cntFall' = cntFall - 1 /\ flow' = flow
               /\ state' = "SEND" /\ outEn' = outEn
      <4>1. Sent' = h + (p + (ByteBits - 1 - cntFall'))
        BY <1>6, <2>3, <3>1
      <4>3. Sent' = Sent + 1
        BY <1>0, <1>2, <2>2, <2>5, <3>1, <4>1
      <4>2. outEn'
        BY <1>3, <2>1, <3>1
      <4> QED BY <4>2, <4>3
    <3>2. CASE cntFall = 0 /\ flow # cnt /\ state' = "SEND"
               /\ flow' = (flow + 1) % PageBytes /\ cntFall' = ByteBits - 1
               /\ (outEn' \/ (~LastOfWord /\ outEn' = outEn))
      <4>1. flow' = flow + 1
        BY <1>7, <2>5, <3>2
      <4>2. Sent' = h + (p + ByteBits + (ByteBits - 1 - (ByteBits - 1)))
        BY <1>0, <1>6, <2>3, <2>5, <3>2, <4>1
      <4>3. Sent' = Sent + 1
        BY <1>0, <1>2, <2>2, <2>5, <3>2, <4>2
      <4>4. outEn'
        BY <1>3, <2>1, <3>2
      <4> QED BY <4>3, <4>4
    <3>3. CASE cntFall = 0 /\ flow = cnt /\ state' = "END" /\ outEn' = outEn
      <4>1. Sent' = h + (p + ByteBits)
        BY <1>6, <2>4, <2>5, <3>3
      <4>2. Sent' = Sent + 1
        BY <1>0, <1>2, <2>2, <2>5, <3>3, <4>1
      <4>3. outEn'
        BY <1>3, <2>1, <3>3
      <4> QED BY <4>2, <4>3
    <3>4. CASE cntFall' = cntFall /\ flow' = flow /\ state' = "SEND" /\ ~outEn'
      <4>1. Sent' = h + (p + (ByteBits - 1 - cntFall))
        BY <1>6, <2>3, <3>4
      <4> QED BY <2>2, <3>4, <4>1
    <3> QED BY <2>1, <3>1, <3>2, <3>3, <3>4
  <2>8. ASSUME NEW n, n = Sent PROVE MosiIs(n)'
    <3>1. b.cmd = "PP" /\ Addressed(b.cmd) /\ h = HeadBits("PP")
      BY <1>3, <2>1 DEF Addressed
    <3>2. /\ n \in Nat /\ n - h = flow * ByteBits + (ByteBits - 1 - cntFall)
          /\ ~(n < CmdBits) /\ ~(n < CmdBits + AddrBits)
      <4>1. n = h + (p + (ByteBits - 1 - cntFall))
        BY <2>2, <2>8
      <4>2. n \in Nat /\ n - h = p + (ByteBits - 1 - cntFall) /\ n >= h
        BY <1>0, <1>2, <2>5, <4>1
      <4>3. h >= CmdBits + AddrBits /\ h \in Nat /\ h >= CmdBits
        BY <1>2, <3>1
      <4> QED BY <1>0, <1>6, <4>2, <4>3
    <3>3. (n - h) % ByteBits = ByteBits - 1 - cntFall
          /\ (n - h) \div ByteBits = flow
      <4>1. ByteBits - 1 - cntFall \in 0 .. ByteBits - 1 /\ ByteBits # 0
        BY <1>0, <2>5
      <4>2. (flow * ByteBits + (ByteBits - 1 - cntFall)) % ByteBits
              = ByteBits - 1 - cntFall
            /\ (flow * ByteBits + (ByteBits - 1 - cntFall)) \div ByteBits = flow
        BY <1>0, <2>5, <4>1, DivUnique
      <4> QED BY <3>2, <4>2
    <3>4. ByteBits - 1 - ((n - h) % ByteBits) = cntFall
      BY <1>0, <2>5, <3>3
    <3>5. dataToWrite[flow % WordBytes]
            = Here'.data[flow \div WordBytes + 1][flow % WordBytes]
      BY <1>1, <2>1, WordAtHand DEF ByteAt
    <3>6. mosi' = [field |-> "data",
                   value |-> Here'.data[((n - h) \div ByteBits) \div WordBytes + 1]
                               [((n - h) \div ByteBits) % WordBytes],
                   bit |-> ByteBits - 1 - ((n - h) % ByteBits)]
      BY <2>1, <3>3, <3>4, <3>5 DEF Bit
    <3> QED BY <3>1, <3>2, <3>6 DEF MosiIs, ByteAt
  <2> QED BY <2>6, <2>7, <2>8
<1>12. CASE End
  <2>1. state = "END" /\ state' = "DONE" /\ ~outEn'
    BY <1>12 DEF End
  <2>2. Sent = h + DataBits /\ Sent' = h + DataBits
    BY <1>1, <2>1, SentFacts, SentNext
  <2> QED BY <1>0, <1>2, <1>5, <2>1, <2>2
<1> QED BY <1>9, <1>10, <1>11, <1>12

(* What the chip makes of a bit: of the command ...                        *)
LEMMA TakesInstr ==
  ASSUME Receive, NEW k \in Nat, NEW v, NEW c,
         Expected(frame.bits).field = "instr", Expected(frame.bits).bit = k,
         mosi.field = "instr", mosi.value = v, mosi.bit = k,
         frame.ok, c = CmdBits - 1, k = c \/ frame.cmd = v
  PROVE  /\ frame' = [bits |-> frame.bits + 1, ok |-> TRUE, cmd |-> v,
                      addr |-> frame.addr, data |-> frame.data]
BY DEF Receive

(* ... of the address ...                                                  *)
LEMMA TakesAddr ==
  ASSUME Receive, NEW k \in Nat, NEW v, NEW c,
         Expected(frame.bits).field = "addr", Expected(frame.bits).bit = k,
         mosi.field = "addr", mosi.value = v, mosi.bit = k,
         frame.ok, c = AddrBits - 1, k = c \/ frame.addr = v
  PROVE  /\ frame' = [bits |-> frame.bits + 1, ok |-> TRUE, cmd |-> frame.cmd,
                      addr |-> v, data |-> frame.data]
BY DEF Receive

(* ... of the data ...                                                     *)
LEMMA TakesData ==
  ASSUME Receive, NEW k \in Nat, NEW v, NEW c,
         Expected(frame.bits).field = "data", Expected(frame.bits).bit = k,
         mosi.field = "data", mosi.value = v, mosi.bit = k,
         frame.ok, c = ByteBits - 1,
         k = c \/ frame.data[Len(frame.data)] = v
  PROVE  /\ k = c =>
              frame' = [bits |-> frame.bits + 1, ok |-> TRUE,
                        cmd |-> frame.cmd, addr |-> frame.addr,
                        data |-> Append(frame.data, v)]
         /\ k # c =>
              frame' = [bits |-> frame.bits + 1, ok |-> TRUE,
                        cmd |-> frame.cmd, addr |-> frame.addr,
                        data |-> frame.data]
BY DEF Receive

(* ... and of one that it does not look at.                                *)
LEMMA TakesAny ==
  ASSUME Receive, frame.ok,
         Expected(frame.bits).field = "any"
  PROVE  frame' = [bits |-> frame.bits + 1, ok |-> TRUE, cmd |-> frame.cmd,
                   addr |-> frame.addr, data |-> frame.data]
BY DEF Receive

LEMMA QuotientRemainder ==
  ASSUME NEW a \in Nat, NEW b \in Nat \ {0}, NEW q \in Nat, q = a \div b,
         NEW r \in Nat, r = a % b
  PROVE  a = q * b + r /\ r \in 0 .. b - 1
OBVIOUS

(* How many bytes the chip holds before and after bit r of byte q.         *)
LEMMA ByteCount ==
  ASSUME Here.cmd = "PP", NEW q \in Nat, NEW r \in 0 .. ByteBits - 1,
         NEW n, n = HeadBits("PP") + (q * ByteBits + r)
  PROVE  /\ DataBytes(n) = IF r = 0 THEN q ELSE q + 1
         /\ DataBytes(n + 1) = q + 1
<1>1. /\ ByteBits \in Nat \ {0} /\ ByteBits >= 2
      /\ HeadBits("PP") \in Nat
  BY QspiAssumption DEF HeadBits, Addressed
<1>2. PICK p \in Nat : /\ p = q * ByteBits
                       /\ (q + 1) * ByteBits = p + ByteBits
  <2>1. q * ByteBits \in Nat /\ (q + 1) * ByteBits = q * ByteBits + ByteBits
    BY <1>1
  <2> QED BY <2>1
<1>3. n \in Nat /\ n = HeadBits("PP") + (p + r)
  BY <1>1, <1>2
<1>4. DataBytes(n + 1) = q + 1
  <2>1. n + 1 > HeadBits("PP")
        /\ n + 1 - HeadBits("PP") + ByteBits - 1 = p + ByteBits + r
    BY <1>1, <1>3
  <2>2. n + 1 - HeadBits("PP") + ByteBits - 1 = (q + 1) * ByteBits + r
    BY <1>2, <2>1
  <2>3. \A k \in Nat : (k * ByteBits + r) \div ByteBits = k
    BY <1>1, DivUnique
  <2>4. q + 1 \in Nat
    OBVIOUS
  <2>5. ((q + 1) * ByteBits + r) \div ByteBits = q + 1
    BY <2>3, <2>4
  <2>6. DataBytes(n + 1)
          = (n + 1 - HeadBits("PP") + ByteBits - 1) \div ByteBits
    BY <1>1, <1>3, <2>1 DEF DataBytes
  <2> QED BY <2>2, <2>5, <2>6
<1>5. r # 0 => DataBytes(n) = q + 1
  <2> SUFFICES ASSUME r # 0 PROVE DataBytes(n) = q + 1
    OBVIOUS
  <2>1. n > HeadBits("PP")
        /\ n - HeadBits("PP") + ByteBits - 1 = p + ByteBits + (r - 1)
    BY <1>1, <1>3
  <2>2. r - 1 \in 0 .. ByteBits - 1
    BY <1>1
  <2>3. n - HeadBits("PP") + ByteBits - 1 = (q + 1) * ByteBits + (r - 1)
    BY <1>2, <2>1
  <2>4. \A k \in Nat : (k * ByteBits + (r - 1)) \div ByteBits = k
    BY <1>1, <2>2, DivUnique
  <2>5. q + 1 \in Nat
    OBVIOUS
  <2>6. ((q + 1) * ByteBits + (r - 1)) \div ByteBits = q + 1
    BY <2>4, <2>5
  <2> QED BY <2>1, <2>3, <2>6 DEF DataBytes
<1>6. r = 0 /\ q # 0 => DataBytes(n) = q
  <2> SUFFICES ASSUME r = 0, q # 0 PROVE DataBytes(n) = q
    OBVIOUS
  <2>1. p > 0
    BY <1>1, <1>2
  <2>2. n > HeadBits("PP")
        /\ n - HeadBits("PP") + ByteBits - 1 = p + (ByteBits - 1)
    BY <1>1, <1>3, <2>1
  <2>3. ByteBits - 1 \in 0 .. ByteBits - 1
    BY <1>1
  <2>4. (q * ByteBits + (ByteBits - 1)) \div ByteBits = q
    BY <1>1, <2>3, DivUnique
  <2> QED BY <1>2, <2>2, <2>4 DEF DataBytes
<1>7. r = 0 /\ q = 0 => DataBytes(n) = 0
  <2>1. 0 * ByteBits = 0
    BY <1>1
  <2>2. r = 0 /\ q = 0 => ~(n > HeadBits("PP"))
    BY <1>1, <1>2, <1>3, <2>1
  <2> QED BY <2>2 DEF DataBytes
<1> QED BY <1>4, <1>5, <1>6, <1>7

LEMMA ReceiveHolds ==
  ASSUME CommandOK(Here), NEW n \in Nat, Holds(frame, n), MosiIs(n), Receive,
         Here.cmd = "PP" /\ n >= HeadBits("PP") =>
           ByteAt((n - HeadBits("PP")) \div ByteBits) \in Bytes
  PROVE  Holds(frame', n + 1)
<1> DEFINE h == HeadBits(Here.cmd)
<1>0. /\ {ByteBits, CmdBits, AddrBits, DummyBits, WordBytes} \subseteq Nat \ {0}
      /\ ByteBits \in Nat /\ ByteBits >= 2
      /\ HeadBits("PP") = CmdBits + AddrBits
  BY QspiAssumption DEF HeadBits, Addressed
<1>1. /\ h \in Nat /\ h >= CmdBits
      /\ ~Addressed(Here.cmd) => h = CmdBits
      /\ Here.cmd = "PP" => Addressed(Here.cmd)
      /\ Here.page # Nil <=> Addressed(Here.cmd)
  <2>1. Here.page # Nil <=> Addressed(Here.cmd)
    BY DEF CommandOK
  <2> QED BY <2>1, HeadFacts DEF Addressed
<1>2. /\ frame.ok /\ frame.bits = n
      /\ n = 0 => frame.cmd = Nil
      /\ n # 0 => frame.cmd = Here.cmd
      /\ n <= CmdBits => frame.addr = Nil
      /\ ~(n <= CmdBits) => frame.addr = Here.page
      /\ frame.data \in Seq(Bytes) /\ Len(frame.data) = DataBytes(n)
      /\ \A j \in 1 .. Len(frame.data) : frame.data[j] = ByteAt(j - 1)
  BY DEF Holds
<1>3. ~(Here.cmd = "PP" /\ n > HeadBits("PP")) => DataBytes(n) = 0
  BY DEF DataBytes
<1>4. ~(Here.cmd = "PP" /\ n + 1 > HeadBits("PP")) => DataBytes(n + 1) = 0
  BY DEF DataBytes
<1>5. CASE n < CmdBits
  <2>1. Expected(n).field = "instr" /\ Expected(n).bit = CmdBits - 1 - n
    BY <1>5 DEF Expected
  <2>2. mosi.field = "instr" /\ mosi.value = Here.cmd
        /\ mosi.bit = CmdBits - 1 - n
    BY <1>5 DEF MosiIs
  <2>3. CmdBits - 1 - n \in Nat
        /\ (CmdBits - 1 - n = CmdBits - 1 \/ frame.cmd = Here.cmd)
    BY <1>0, <1>2, <1>5
  <2>4. frame' = [bits |-> frame.bits + 1, ok |-> TRUE, cmd |-> Here.cmd,
                  addr |-> frame.addr, data |-> frame.data]
    BY <1>2, <2>1, <2>2, <2>3, TakesInstr
  <2>5. /\ n <= CmdBits /\ n + 1 <= CmdBits /\ n + 1 # 0
        /\ ~(n > HeadBits("PP")) /\ ~(n + 1 > HeadBits("PP"))
    BY <1>0, <1>5
  <2> QED BY <1>2, <1>3, <1>4, <2>4, <2>5 DEF Holds
<1>6. CASE ~(n < CmdBits) /\ Addressed(Here.cmd) /\ n < CmdBits + AddrBits
  <2>0. n # 0 /\ CmdBits <= n /\ frame.cmd = Here.cmd
    BY <1>0, <1>2, <1>6
  <2>1. Expected(n).field = "addr" /\ Expected(n).bit = CmdBits + AddrBits - 1 - n
    BY <1>6, <2>0 DEF Expected
  <2>2. mosi.field = "addr" /\ mosi.value = Here.page
        /\ mosi.bit = CmdBits + AddrBits - 1 - n
    BY <1>6, <2>0 DEF MosiIs
  <2>3. CmdBits + AddrBits - 1 - n \in Nat
        /\ (\/ CmdBits + AddrBits - 1 - n = AddrBits - 1
            \/ frame.addr = Here.page)
    BY <1>0, <1>2, <1>6
  <2>4. frame' = [bits |-> frame.bits + 1, ok |-> TRUE, cmd |-> frame.cmd,
                  addr |-> Here.page, data |-> frame.data]
    BY <1>2, <2>1, <2>2, <2>3, TakesAddr
  <2>5. /\ ~(n + 1 <= CmdBits) /\ n + 1 # 0
        /\ ~(n > HeadBits("PP")) /\ ~(n + 1 > HeadBits("PP"))
    BY <1>0, <1>6
  <2> QED BY <1>2, <1>3, <1>4, <2>0, <2>4, <2>5 DEF Holds
<1>7. CASE Here.cmd = "PP" /\ n >= HeadBits("PP")
  <2>0. /\ n # 0 /\ ~(n <= CmdBits) /\ ~(n + 1 <= CmdBits) /\ n + 1 # 0
        /\ ~(n < CmdBits) /\ ~(n < CmdBits + AddrBits)
        /\ n - HeadBits("PP") \in Nat
        /\ frame.cmd = Here.cmd /\ frame.addr = Here.page
    <3>1. /\ CmdBits \in Nat /\ CmdBits > 0 /\ AddrBits \in Nat /\ AddrBits > 0
          /\ HeadBits("PP") = CmdBits + AddrBits
      BY <1>0
    <3>2. n >= CmdBits + AddrBits
      BY <1>7, <3>1
    <3>3. /\ n # 0 /\ ~(n <= CmdBits) /\ ~(n + 1 <= CmdBits) /\ n + 1 # 0
          /\ ~(n < CmdBits) /\ ~(n < CmdBits + AddrBits)
          /\ n - HeadBits("PP") \in Nat
      BY <3>1, <3>2
    <3> QED BY <1>2, <3>3
  <2>1. PICK q \in Nat, r \in 0 .. ByteBits - 1 :
          /\ (n - HeadBits("PP")) \div ByteBits = q
          /\ (n - HeadBits("PP")) % ByteBits = r
          /\ n - HeadBits("PP") = q * ByteBits + r
    <3>1. /\ (n - HeadBits("PP")) \div ByteBits \in Nat
          /\ (n - HeadBits("PP")) % ByteBits \in Nat
      BY <1>0, <2>0
    <3> QED BY <1>0, <2>0, <3>1, QuotientRemainder
  <2>2. n = HeadBits("PP") + (q * ByteBits + r)
    <3>1. q * ByteBits \in Nat
      BY <1>0, <2>1
    <3> QED BY <1>0, <2>1, <3>1
  <2>3. /\ r = 0 => DataBytes(n) = q
        /\ r # 0 => DataBytes(n) = q + 1
        /\ DataBytes(n + 1) = q + 1
    BY <1>7, <2>2, ByteCount
  <2>4. Expected(n).field = "data" /\ Expected(n).bit = ByteBits - 1 - r
    BY <1>7, <2>0, <2>1 DEF Expected
  <2>5. mosi.field = "data" /\ mosi.value = ByteAt(q)
        /\ mosi.bit = ByteBits - 1 - r
    BY <1>7, <2>1 DEF MosiIs
  <2>6. ByteAt(q) \in Bytes
    BY <1>7, <2>1
  <2>7. ByteBits - 1 - r \in Nat /\ (ByteBits - 1 - r = ByteBits - 1 <=> r = 0)
    BY <1>0
  <2>8. CASE r = 0
    <3>1. frame' = [bits |-> frame.bits + 1, ok |-> TRUE, cmd |-> frame.cmd,
                    addr |-> frame.addr, data |-> Append(frame.data, ByteAt(q))]
      BY <1>2, <2>4, <2>5, <2>7, <2>8, TakesData
    <3>2. /\ Append(frame.data, ByteAt(q)) \in Seq(Bytes)
          /\ Len(Append(frame.data, ByteAt(q))) = q + 1
          /\ \A j \in 1 .. q + 1 : Append(frame.data, ByteAt(q))[j]
                                     = ByteAt(j - 1)
      <4>1. Len(frame.data) = q
        BY <1>2, <2>3, <2>8
      <4>2. ASSUME NEW j \in 1 .. q + 1
            PROVE  Append(frame.data, ByteAt(q))[j] = ByteAt(j - 1)
        <5>1. CASE j = q + 1
          <6>1. j - 1 = q
            BY <5>1
          <6> QED BY <1>2, <4>1, <5>1, <6>1
        <5>2. CASE j # q + 1
          BY <1>2, <4>1, <5>2
        <5> QED BY <5>1, <5>2
      <4>3. /\ Append(frame.data, ByteAt(q)) \in Seq(Bytes)
            /\ Len(Append(frame.data, ByteAt(q))) = q + 1
        <5>1. /\ Append(frame.data, ByteAt(q)) \in Seq(Bytes)
              /\ Len(Append(frame.data, ByteAt(q))) = Len(frame.data) + 1
          BY <1>2, <2>6
        <5> QED BY <4>1, <5>1
      <4> QED BY <4>2, <4>3
    <3> QED BY <1>2, <2>0, <2>3, <3>1, <3>2 DEF Holds
  <2>9. CASE r # 0
    <3>1. Len(frame.data) = q + 1 /\ frame.data[q + 1] = ByteAt(q)
      <4>1. Len(frame.data) = q + 1 /\ q + 1 \in 1 .. q + 1 /\ (q + 1) - 1 = q
        BY <1>2, <2>3, <2>9
      <4> QED BY <1>2, <4>1
    <3>2. frame' = [bits |-> frame.bits + 1, ok |-> TRUE, cmd |-> frame.cmd,
                    addr |-> frame.addr, data |-> frame.data]
      BY <1>2, <2>4, <2>5, <2>7, <2>9, <3>1, TakesData
    <3> QED BY <1>2, <2>0, <2>3, <3>1, <3>2 DEF Holds
  <2> QED BY <2>8, <2>9
<1>8. CASE /\ ~(n < CmdBits) /\ Here.cmd # "PP"
           /\ ~(Addressed(Here.cmd) /\ n < CmdBits + AddrBits)
  <2>0. n # 0 /\ n + 1 # 0 /\ ~(n + 1 <= CmdBits) /\ frame.cmd = Here.cmd
    BY <1>0, <1>2, <1>8
  <2>1. Expected(n).field = "any"
    BY <1>8, <2>0 DEF Expected
  <2>2. frame' = [bits |-> frame.bits + 1, ok |-> TRUE, cmd |-> frame.cmd,
                  addr |-> frame.addr, data |-> frame.data]
    BY <1>2, <2>1, TakesAny
  <2>3. frame.addr = Here.page
    <3>1. CASE n <= CmdBits
      <4>1. n = CmdBits
        BY <1>0, <1>8, <3>1
      <4>2. ~Addressed(Here.cmd)
        BY <1>0, <1>8, <4>1
      <4> QED BY <1>1, <1>2, <3>1, <4>2
    <3> QED BY <1>2, <3>1
  <2> QED BY <1>2, <1>3, <1>4, <1>8, <2>0, <2>2, <2>3 DEF Holds
<1> QED BY <1>0, <1>1, <1>5, <1>6, <1>7, <1>8

(* The chip is selected during a command only.                             *)
LEMMA SelectedFacts ==
  ASSUME RxInv, RxInv', Next, ~csN
  PROVE  /\ state \in Busy \cup {"DONE"} /\ Armed /\ Here' = Here
         /\ CommandOK(Here) /\ cnt = Here.count /\ cnt \in 0 .. PageBytes - 1
         /\ state = "DONE" => ~outEn /\ ~done
<1>1. Armed
  BY DEF RxInv, ControlInv, HandOK
<1>2. state \in Busy \cup {"DONE"} /\ (state = "DONE" => ~outEn /\ ~done)
      /\ pc # "off"
  BY <1>1 DEF RxInv, ControlInv, HandOK, Busy, ActsOnRise, ActsOnFall
<1>3. Armed'
  BY <1>1, <1>2, MachineRuns DEF RxInv, Moves
<1> QED BY <1>1, <1>2, <1>3, MachineRuns DEF RxInv

(* The data of a page are words of bytes.                                  *)
LEMMA BytesOfPage ==
  ASSUME CommandOK(Here), Here.cmd = "PP", NEW j \in 0 .. PageBytes - 1
  PROVE  ByteAt(j) \in Bytes
<1>1. /\ Here.data \in [1 .. PageWords -> [0 .. WordBytes - 1 -> Bytes]]
      /\ WordBytes \in Nat \ {0} /\ PageWords \in Nat \ {0}
  BY QspiAssumption DEF CommandOK, Words
<1>2. \A a \in Nat, b \in Nat \ {0}, m \in Nat : a < m * b =>
        a \div b \in Nat /\ a \div b < m /\ a % b \in 0 .. b - 1
  OBVIOUS
<1>3. j \in Nat /\ j < PageWords * WordBytes
  BY Sizes DEF PageBytes
<1>4. j \div WordBytes + 1 \in 1 .. PageWords
      /\ j % WordBytes \in 0 .. WordBytes - 1
  <2>1. j \div WordBytes \in Nat /\ j \div WordBytes < PageWords
        /\ j % WordBytes \in 0 .. WordBytes - 1
    BY <1>1, <1>2, <1>3
  <2> QED BY <1>1, <2>1
<1> QED BY <1>1, <1>4 DEF ByteAt

(* A page programmed is not longer than a page.                            *)
LEMMA SentBound ==
  ASSUME RxInv, RxInv', Next, ~csN, Here.cmd = "PP", NEW n \in Nat,
         n + 1 = Sent, n >= HeadBits("PP")
  PROVE  (n - HeadBits("PP")) \div ByteBits \in 0 .. PageBytes - 1
<1>0. /\ {ByteBits, CmdBits, AddrBits, DummyBits, WordBytes} \subseteq Nat \ {0}
      /\ ByteBits \in Nat \ {0} /\ ByteBits >= 2
      /\ HeadBits("PP") = CmdBits + AddrBits
  BY QspiAssumption DEF HeadBits, Addressed
<1>1. /\ state \in Busy \cup {"DONE"} /\ CommandOK(Here)
      /\ cnt = Here.count /\ cnt = PageBytes - 1 /\ PageBytes \in Nat \ {0}
      /\ Here.mode = 1 /\ Here.dir = "write"
  BY SelectedFacts, Sizes DEF CommandOK
<1>2. /\ state = "CMD" => cntFall \in 0 .. CmdBits - 1
      /\ state = "ADDR" => cntFall \in 0 .. AddrBits - 1
      /\ state = "SEND" => cntFall \in 0 .. ByteBits - 1 /\ flow \in 0 .. cnt
      /\ state \notin {"DUMMY", "PRE", "READ"}
  BY <1>1 DEF RxInv, PhaseOK
<1>3. PICK h \in Nat : h = HeadBits("PP") /\ h = CmdBits + AddrBits
  BY <1>0
<1>4. PICK s \in Nat : s = PageBytes * ByteBits
  BY <1>0, <1>1
<1>5. DataBits = s
  <2>1. DataBits = (PageBytes - 1 + 1) * ByteBits + 0
    BY <1>1 DEF DataBits
  <2> QED BY <1>0, <1>1, <1>4, <2>1
<1>6. state \notin {"CMD", "ADDR"}
  BY <1>0, <1>2, <1>3, SentFacts
<1>7. n - h \in Nat /\ n - h < s
  <2>1. CASE state = "SEND"
    <3>1. n + 1 = h + (flow * ByteBits + (ByteBits - 1 - cntFall))
      BY <1>3, <2>1, SentFacts
    <3>2. PICK p \in Nat : p = flow * ByteBits /\ p + ByteBits <= s
      <4>1. /\ flow * ByteBits \in Nat
            /\ flow * ByteBits + ByteBits = (flow + 1) * ByteBits
        BY <1>0, <1>1, <1>2, <2>1
      <4>2. \A a, b \in Nat : a <= b => a * ByteBits <= b * ByteBits
        BY <1>0
      <4>3. flow + 1 \in Nat /\ flow + 1 <= PageBytes
        BY <1>1, <1>2, <2>1
      <4> QED BY <1>1, <1>4, <4>1, <4>2, <4>3
    <3> QED BY <1>0, <1>2, <1>3, <2>1, <3>1, <3>2
  <2>2. CASE state \in {"END", "DONE"}
    <3>1. n + 1 = h + s
      BY <1>3, <1>5, <2>2, SentFacts
    <3> QED BY <1>3, <3>1
  <2> QED BY <1>1, <1>2, <1>6, <2>1, <2>2 DEF Busy
<1>8. \A a \in Nat, b \in Nat \ {0}, m \in Nat : a < m * b =>
        a \div b \in Nat /\ a \div b < m
  OBVIOUS
<1>9. (n - h) \div ByteBits \in Nat /\ (n - h) \div ByteBits < PageBytes
  BY <1>0, <1>1, <1>4, <1>7, <1>8
<1> QED BY <1>1, <1>3, <1>9

-----------------------------------------------------------------------------
(* What the chip has taken agrees with what has been sent.                 *)
WireInv == RxInv /\ WireOK

(* How many bits have been sent is a number.                               *)
LEMMA SentInteger ==
  ASSUME RxInv, RxInv', Next, ~csN
  PROVE  Sent \in Int
<1>0. /\ {ByteBits, CmdBits, AddrBits, DummyBits, WordBytes} \subseteq Nat
      /\ CmdBits \in Nat /\ AddrBits \in Nat /\ DummyBits \in Nat
      /\ ByteBits \in Nat
  BY QspiAssumption
<1>1. /\ state \in Busy \cup {"DONE"} /\ CommandOK(Here)
      /\ cnt \in Nat /\ Here.count \in Nat /\ HeadBits(Here.cmd) \in Nat
  BY SelectedFacts, HeadFacts, Sizes DEF CommandOK
<1>2. /\ state \in {"CMD", "ADDR", "DUMMY"} => cntFall \in Int
      /\ state \in {"SEND", "READ"} =>
           cntFall \in Nat /\ flow \in Nat /\ flow * ByteBits \in Int
  BY <1>0, <1>1 DEF RxInv, PhaseOK
<1>3. DataBits \in Int
  <2>1. (Here.count + 1) * ByteBits \in Nat
    BY <1>0, <1>1
  <2> QED BY <2>1 DEF DataBits
<1>4. CASE state \in {"CMD", "ADDR", "DUMMY"}
  BY <1>0, <1>2, <1>4, SentFacts
<1>5. CASE state \in {"SEND", "READ"}
  BY <1>0, <1>1, <1>2, <1>5, SentFacts
<1>6. CASE state \in {"PRE", "END", "DONE"}
  BY <1>1, <1>3, <1>6, SentFacts
<1> QED BY <1>1, <1>4, <1>5, <1>6 DEF Busy

(* A bit is due from the edge after the serial clock fell to the one at    *)
(* which it rises.                                                         *)
LEMMA DueFacts ==
  /\ outEn /\ ~clk /\ div # 0 => Due = 1
  /\ ~outEn \/ clk \/ div = 0 => Due = 0
BY DEF Due

LEMMA DueNext ==
  /\ outEn' /\ ~clk' /\ div' # 0 => Due' = 1
  /\ ~outEn' \/ clk' \/ div' = 0 => Due' = 0
BY DEF Due

(* The chip as it should be after a step.                                  *)
LEMMA FrameNext ==
  ASSUME Here' = Here, NEW n \in Nat, Holds(frame', n), NEW d \in {0, 1},
         Due' = d, Sent' = n + d, d = 1 => MosiIs(n)'
  PROVE  FrameOK'
<1>1. frame'.bits = n
  BY DEF Holds
<1>2. (frame.bits \in Nat /\ frame.bits = Sent - Due)'
  BY <1>1
<1>3. Holds(frame, frame.bits)'
  BY <1>1 DEF Holds, DataBytes, ByteAt
<1>4. (Due = 1 => MosiIs(frame.bits))'
  BY <1>1 DEF MosiIs, ByteAt
<1> QED BY <1>2, <1>3, <1>4 DEF FrameOK

(* Selecting the chip starts a command with no bit sent.                   *)
LEMMA WireStarts ==
  ASSUME WireInv, RxInv', Next, csN, ~csN'
  PROVE  FrameOK'
<1>0. CmdBits \in Nat \ {0} /\ AddrBits \in Nat
  BY QspiAssumption
<1>1. state \notin Busy
  BY MachineRuns DEF WireInv, RxInv, ControlInv, HandOK, Busy
<1>2. Select
  BY <1>1, EveryEdge DEF FsmEdge, Idle, Sample, Complete, SendCmd, SendAddress,
     SendDummy, ReadPre, SendData, ReadData, End, Rest, fsmVars, Busy
<1>3. state = "CS" /\ rise
  BY <1>2 DEF Select
<1>4. Armed /\ cntRise = 0 /\ ~outEn
  BY <1>3, MachineRuns DEF WireInv, RxInv, ControlInv, HandOK
<1>5. state' = "CMD" /\ cntFall' = CmdBits - 1 /\ (outEn' <=> outEn)
  BY <1>2, <1>4 DEF Select
<1>6. Sent' = 0
  BY <1>0, <1>5 DEF Sent
<1>7. Due' = 0
  BY <1>4, <1>5, DueNext
<1>8. frame' = NoFrame
  <2>1. ~SpiClk /\ ~SpiClk'
    BY <1>4, <1>5 DEF SpiClk
  <2>2. UNCHANGED frame
    BY <2>1, EveryEdge DEF ChipEdge
  <2> QED BY <2>2 DEF WireInv, WireOK
<1>9. Here' = Here
  <2>1. Armed'
    BY <1>5, MachineRuns DEF WireInv, RxInv
  <2> QED BY <1>4, <2>1, MachineRuns DEF WireInv, RxInv
<1>10. Holds(NoFrame, 0)
  <2>1. DataBytes(0) = 0
    <3>1. ~(0 > HeadBits("PP"))
      BY <1>0 DEF HeadBits, Addressed
    <3> QED BY <3>1 DEF DataBytes
  <2>2. NoFrame.data = <<>> /\ NoFrame.ok /\ NoFrame.bits = 0
        /\ NoFrame.cmd = Nil /\ NoFrame.addr = Nil
    BY DEF NoFrame
  <2> QED BY <1>0, <2>1, <2>2 DEF Holds
<1> QED BY <1>6, <1>7, <1>8, <1>9, <1>10, FrameNext

(* The chip takes a bit when the serial clock rises.                       *)
LEMMA WireTicks ==
  ASSUME WireInv, RxInv', Next, ~csN, ~csN', Tick
  PROVE  FrameOK'
<1>1. /\ Here' = Here /\ CommandOK(Here) /\ state \in Busy \cup {"DONE"}
      /\ state # "IDLE"
  BY SelectedFacts DEF WireInv, Busy
<1>2. /\ ~rise /\ ~fall /\ (clk' <=> ~clk) /\ div' = 0 /\ div # 0
      /\ {clk, rise, fall} \subseteq BOOLEAN
  BY <1>1, EdgeKinds DEF WireInv, RxInv
<1>3. Frozen
  BY <1>2, EveryEdge, MachineKeeps
<1>4. PICK n \in Nat : n = frame.bits /\ Holds(frame, n)
                       /\ (Due = 1 => MosiIs(n)) /\ n = Sent - Due
  BY DEF WireInv, WireOK, FrameOK
<1>5. Sent' = Sent
  BY <1>1, <1>3 DEF Frozen, Sent, DataBits
<1>6. Due' = 0
  BY <1>2, DueNext
<1>7. CASE ~clk /\ outEn
  <2>1. Due = 1
    BY <1>2, <1>7, DueFacts
  <2>2. ~SpiClk /\ SpiClk'
    BY <1>2, <1>3, <1>7 DEF SpiClk, Frozen
  <2>3. Receive
    BY <2>2, EveryEdge DEF ChipEdge
  <2>4. n + 1 \in Nat /\ Sent = n + 1
    <3>1. PICK s \in Int : s = Sent
      BY SentInteger DEF WireInv
    <3> QED BY <1>4, <2>1, <3>1
  <2>5. Here.cmd = "PP" /\ n >= HeadBits("PP") =>
          ByteAt((n - HeadBits("PP")) \div ByteBits) \in Bytes
    BY <1>1, <2>4, SentBound, BytesOfPage DEF WireInv
  <2>6. Holds(frame', n + 1)
    BY <1>1, <1>4, <2>1, <2>3, <2>5, ReceiveHolds
  <2>7. Sent' = (n + 1) + 0
    BY <1>5, <2>4
  <2> QED BY <1>1, <1>6, <2>4, <2>6, <2>7, FrameNext
<1>8. CASE clk \/ ~outEn
  <2>1. Due = 0
    BY <1>8, DueFacts
  <2>2. ~(~SpiClk /\ SpiClk')
    BY <1>2, <1>3, <1>8 DEF SpiClk, Frozen
  <2>3. frame' = frame
    BY <2>2, EveryEdge DEF ChipEdge
  <2>4. Sent' = n + 0
    <3>1. PICK s \in Int : s = Sent
      BY SentInteger DEF WireInv
    <3> QED BY <1>4, <1>5, <2>1, <3>1
  <2> QED BY <1>1, <1>4, <1>6, <2>3, <2>4, FrameNext
<1> QED BY <1>7, <1>8

(* Between its edges the wires change when the serial clock has fallen.    *)
LEMMA WireRests ==
  ASSUME WireInv, RxInv', Next, ~csN, ~csN', ~Tick
  PROVE  FrameOK'
<1>1. /\ Here' = Here /\ CommandOK(Here) /\ state \in Busy \cup {"DONE"}
      /\ state # "IDLE" /\ (state = "DONE" => ~outEn /\ ~done)
  BY SelectedFacts DEF WireInv, Busy
<1>2. /\ (clk' <=> clk) /\ div' # 0 /\ (~clk /\ div = 0 => fall)
      /\ (rise => clk) /\ (fall => ~clk /\ div = 0)
      /\ {clk, rise, fall} \subseteq BOOLEAN
  BY <1>1, EdgeKinds DEF WireInv, RxInv
<1>3. PICK n \in Nat : n = frame.bits /\ Holds(frame, n)
                       /\ (Due = 1 => MosiIs(n)) /\ n = Sent - Due
  BY DEF WireInv, WireOK, FrameOK
<1>4. PICK s \in Int : s = Sent
  BY SentInteger DEF WireInv
<1>5. ASSUME UNCHANGED <<state, cntFall, flow, mosi>>, outEn' <=> outEn, ~fall
      PROVE  FrameOK'
  <2>1. Sent' = Sent
    BY <1>1, <1>5 DEF Sent, DataBits
  <2>2. (Due' = 1 <=> Due = 1) /\ Due \in {0, 1} /\ Due' \in {0, 1}
    BY <1>2, <1>5 DEF Due
  <2>3. frame' = frame
    <3>1. ~(~SpiClk /\ SpiClk')
      BY <1>2, <1>5 DEF SpiClk
    <3> QED BY <3>1, EveryEdge DEF ChipEdge
  <2>4. PICK d \in {0, 1} : d = Due /\ Due' = d
    BY <2>2
  <2>5. Sent' = n + d
    BY <1>3, <1>4, <2>1, <2>4
  <2>6. d = 1 => MosiIs(n)'
    BY <1>1, <1>3, <1>5, <2>4 DEF MosiIs, ByteAt
  <2> QED BY <1>1, <1>3, <2>3, <2>4, <2>5, <2>6, FrameNext
<1>6. CASE ~fall
  <2>1. CASE Frozen
    BY <1>5, <1>6, <2>1 DEF Frozen
  <2>2. CASE Sample
    <3>1. UNCHANGED <<state, cntFall, flow, mosi>> /\ (outEn' <=> outEn)
      BY <2>2 DEF Sample
    <3> QED BY <1>5, <1>6, <3>1
  <2>3. ~Complete
    BY DEF Complete
  <2> QED BY <1>1, <1>2, <1>6, <2>1, <2>2, <2>3, EveryEdge, MachineKeeps
        DEF Busy
<1>7. CASE fall
  <2>0. Due = 0 /\ ~clk' /\ ~rise /\ n = s
    <3>1. Due = 0 /\ ~clk' /\ ~rise
      BY <1>2, <1>7, DueFacts
    <3> QED BY <1>3, <1>4, <3>1
  <2>1. frame' = frame
    <3>1. ~(~SpiClk /\ SpiClk')
      BY <2>0 DEF SpiClk
    <3> QED BY <3>1, EveryEdge DEF ChipEdge
  <2>2. CASE state = "DONE"
    <3>1. Frozen
      BY <1>2, <1>7, <2>0, <2>2, EveryEdge, MachineKeeps
    <3>2. Sent' = Sent
      BY <1>1, <3>1 DEF Frozen, Sent, DataBits
    <3>3. Due' = 0
      BY <1>1, <2>2, <3>1, DueNext DEF Frozen
    <3>4. Sent' = n + 0
      BY <1>4, <2>0, <3>2
    <3> QED BY <1>1, <1>3, <2>1, <3>3, <3>4, FrameNext
  <2>3. CASE state \in Busy
    <3>1. \/ SendCmd \/ SendAddress \/ SendDummy \/ ReadPre \/ SendData
          \/ ReadData \/ End
      BY <1>2, <1>7, <2>0, <2>3, EveryEdge, MachineKeeps
    <3>2. /\ outEn' => Sent' = Sent + 1
          /\ ~outEn' => Sent' = Sent
          /\ outEn' => \A k : k = Sent => MosiIs(k)'
      BY <1>7, <3>1, HeadSent, DataSent DEF WireInv
    <3>3. CASE outEn'
      <4>1. Due' = 1
        BY <1>2, <2>0, <3>3, DueNext
      <4>2. Sent' = n + 1
        BY <1>4, <2>0, <3>2, <3>3
      <4>3. MosiIs(n)'
        BY <1>4, <2>0, <3>2, <3>3
      <4> QED BY <1>1, <1>3, <2>1, <4>1, <4>2, <4>3, FrameNext
    <3>4. CASE ~outEn'
      <4>1. Due' = 0
        BY <3>4, DueNext
      <4>2. Sent' = n + 0
        BY <1>4, <2>0, <3>2, <3>4
      <4> QED BY <1>1, <1>3, <2>1, <4>1, <4>2, FrameNext
    <3> QED BY <3>3, <3>4
  <2> QED BY <1>1, <2>2, <2>3
<1> QED BY <1>6, <1>7

LEMMA WireStep == ASSUME WireInv, RxInv', Next PROVE WireOK'
<1>1. csN' => frame' = NoFrame
  BY EveryEdge DEF ChipEdge
<1>2. ~csN' => FrameOK'
  BY WireStarts, WireTicks, WireRests
<1> QED BY <1>1, <1>2 DEF WireOK

LEMMA WireInit == Init => WireInv
<1> SUFFICES ASSUME Init PROVE WireInv
  OBVIOUS
<1>1. csN /\ frame = NoFrame
  BY DEF Init, ControllerInit
<1> QED BY <1>1, RxInit DEF WireInv, WireOK

LEMMA WireStutters == WireInv /\ UNCHANGED vars => WireOK'
<1> SUFFICES ASSUME WireInv, UNCHANGED vars PROVE WireOK'
  OBVIOUS
<1>1. /\ UNCHANGED <<state, cntFall, flow, mosi, frame, csN, outEn, div, clk>>
      /\ UNCHANGED <<call, blk>>
  BY DEF vars, clockVars, fsmVars, chipVars, progVars
<1>2. Here' = Here /\ Due' = Due
  BY <1>1 DEF Here, CommandsOf, Due
<1>3. Sent' = Sent
  BY <1>1, <1>2 DEF Sent, DataBits
<1>4. csN' => frame' = NoFrame
  BY <1>1 DEF WireInv, WireOK
<1>5. ASSUME ~csN' PROVE FrameOK'
  <2>1. FrameOK
    BY <1>1, <1>5 DEF WireInv, WireOK
  <2>2. frame.bits \in Nat /\ frame.bits = Sent - Due /\ Due \in {0, 1}
        /\ Holds(frame, frame.bits) /\ (Due = 1 => MosiIs(frame.bits))
    BY <2>1 DEF FrameOK, Due
  <2>3. (frame.bits \in Nat /\ frame.bits = Sent - Due)'
    BY <1>1, <1>2, <1>3, <2>2
  <2>4. Holds(frame, frame.bits)'
    BY <1>1, <1>2, <2>2 DEF Holds, DataBytes, ByteAt
  <2>5. (Due = 1 => MosiIs(frame.bits))'
    BY <1>1, <1>2, <2>2 DEF MosiIs, ByteAt
  <2> QED BY <2>3, <2>4, <2>5 DEF FrameOK
<1> QED BY <1>4, <1>5 DEF WireOK

LEMMA WireInvStep == WireInv /\ [Next]_vars => WireInv'
<1> SUFFICES ASSUME WireInv, [Next]_vars PROVE WireInv'
  OBVIOUS
<1>1. RxInv'
  BY RxInvStep DEF WireInv
<1>2. CASE Next
  BY <1>1, <1>2, WireStep DEF WireInv
<1>3. CASE UNCHANGED vars
  BY <1>1, <1>3, WireStutters DEF WireInv
<1> QED BY <1>2, <1>3

(* At every step the chip has taken what the command has at that place,    *)
(* and the wire holds the bit it takes next.                               *)
THEOREM WireCorrect == Spec => []WireInv
<1>1. Init => WireInv
  BY WireInit
<1>2. WireInv /\ [Next]_vars => WireInv'
  BY WireInvStep
<1> QED BY <1>1, <1>2, PTL DEF Spec

(* BitsInOrder: the chip gets each bit of each command in its place.       *)
THEOREM BitsInOrderCorrect == Spec => []BitsInOrder
<1>1. WireInv => BitsInOrder
  BY DEF WireInv, WireOK, FrameOK, Holds, NoFrame, BitsInOrder
<1> QED BY <1>1, WireCorrect, PTL

-----------------------------------------------------------------------------
(* What the registers hold.                                                *)
LEMMA KnownWords ==
  /\ ZeroWord \in Words /\ Filler \in Words
  /\ Erased \in [1 .. PageWords -> Words]
  /\ Identity[1] \in Words
  /\ StatusByte \in Bytes
<1>1. ByteBits \in Nat
  BY QspiAssumption
<1>2. ByteOf(0) \in Bytes /\ ByteOf(1) \in Bytes
  BY DEF ByteOf, Bytes
<1>3. \A byte \in Bytes : WordOf(byte) \in Words
  BY DEF WordOf, Words
<1>4. ZeroWord \in Words /\ Erased \in [1 .. PageWords -> Words]
  BY <1>2, <1>3 DEF ZeroWord, Erased
<1>5. Filler \in Words
  <2>1. [b \in 0 .. ByteBits - 1 |-> IF b = ByteBits - 1 THEN 1 ELSE 0] \in Bytes
    BY DEF Bytes
  <2> QED BY <1>3, <2>1 DEF Filler
<1>6. Identity[1] \in Words
  <2>1. Identity[1] = [i \in 0 .. WordBytes - 1 |->
                         [b \in 0 .. ByteBits - 1 |-> (i + b) % 2]]
    BY DEF Identity
  <2>2. \A i \in 0 .. WordBytes - 1, b \in 0 .. ByteBits - 1 :
          (i + b) % 2 \in {0, 1}
    <3>1. WordBytes \in Nat
      BY QspiAssumption
    <3>2. \A k \in Nat : k % 2 \in {0, 1}
      OBVIOUS
    <3> QED BY <1>1, <3>1, <3>2
  <2> QED BY <2>1, <2>2 DEF Words, Bytes
<1>7. StatusByte \in Bytes
  BY DEF StatusByte, Bytes
<1> QED BY <1>4, <1>5, <1>6, <1>7

(* The program stores what is meant for each register.                     *)
LEMMA StoresTyped ==
  ASSUME ProgInv, Next
  PROVE  /\ instr' = instr \/ instr' \in Commands
         /\ addr' = addr \/ addr' \in Pages
         /\ cnt' = cnt \/ cnt' \in 0 .. PageBytes - 1
         /\ rxDin' = rxDin \/ rxDin' \in Words
<1>1. CASE Configure
  <2>1. /\ Active
        /\ \/ RegsEdge([reg |-> "CTRL", val |-> FlushTx])
           \/ RegsEdge([reg |-> "CTRL", val |-> CtrlOff])
           \/ RegsEdge([reg |-> "INSTR", val |-> Here.cmd])
           \/ RegsEdge([reg |-> "ADDR", val |-> Here.page]) /\ pc = "addr"
           \/ RegsEdge([reg |-> "DATA_CNT", val |-> Here.count])
           \/ RegsEdge([reg |-> "CTRL", val |-> Start(Here)])
    <3>1. \/ RegsEdge([reg |-> "CTRL", val |-> FlushTx])
          \/ RegsEdge([reg |-> "CTRL", val |-> CtrlOff])
          \/ RegsEdge([reg |-> "INSTR", val |-> Here.cmd])
          \/ RegsEdge([reg |-> "ADDR", val |-> Here.page]) /\ pc = "addr"
          \/ RegsEdge([reg |-> "DATA_CNT", val |-> Here.count])
          \/ RegsEdge([reg |-> "CTRL", val |-> Start(Here)])
      BY <1>1, Zenon DEF Configure, Set, Access, At, Edge
    <3> QED BY <1>1, <3>1, ConfigureQuiet DEF Active
  <2>2. /\ Here.cmd \in Commands /\ Here.count \in 0 .. PageBytes - 1
        /\ pc = "addr" => Here.page \in Pages
    BY <2>1, ProgramPlaces DEF CommandOK, PlaceOK
  <2>3. /\ instr' = instr \/ instr' = Here.cmd
        /\ addr' = addr \/ (addr' = Here.page /\ pc = "addr")
        /\ cnt' = cnt \/ cnt' = Here.count
    BY <2>1 DEF RegsEdge
  <2>4. rxDin' = rxDin
    BY <2>1 DEF RegsEdge
  <2> QED BY <2>2, <2>3, <2>4
<1>2. CASE Push
  <2>1. RegsEdge([reg |-> "DATA", val |-> Here.data[moved + 1]])
    BY <1>2, Zenon DEF Push, Set, Access, Edge
  <2>2. Active /\ pc \in {"ahead", "rest"}
    BY <1>2, PushFacts DEF Active
  <2>3. /\ Here.data \in [1 .. PageWords -> Words]
        /\ moved \in Nat /\ moved < PageWords /\ PageWords \in Nat
    BY <2>2, ProgramPlaces, QspiAssumption DEF CommandOK
  <2>4. Here.data[moved + 1] \in Words
    BY <2>3
  <2>5. rxDin' \in {rxDin, Here.data[moved + 1]}
        /\ UNCHANGED <<instr, addr, cnt>>
    BY <2>1 DEF RegsEdge
  <2> QED BY <2>4, <2>5
<1>3. CASE Clear
  <2>1. RegsEdge([reg |-> "CTRL", val |-> CtrlOff])
    BY <1>3, Zenon DEF Clear, Set, Access, Edge
  <2> QED BY <2>1 DEF RegsEdge
<1>4. CASE Wait \/ Begin \/ Return \/ Poll \/ Pop \/ Take \/ Status
  <2>1. RegsEdge(NoStore) \/ RegsEdge([reg |-> "POP"])
    BY <1>4, Zenon DEF Wait, Begin, Return, Poll, Pop, Take, Status, Access, Edge
  <2> QED BY <2>1, QuietFacts
<1> QED BY <1>1, <1>2, <1>3, <1>4 DEF Next, Program

LEMMA QueuesTyped ==
  ASSUME QueueEdge, rxQ \in Seq(Words), WordsOK
  PROVE  rxOut' \in Words /\ txOut' \in Words /\ txQ' \in Seq(Words)
<1>1. /\ rxOut' = IF ~rdReq THEN rxOut
                  ELSE IF rxQ = <<>> THEN Filler ELSE Head(rxQ)
      /\ txOut' = IF ~rdEn THEN txOut
                  ELSE IF txQ = <<>> THEN Filler ELSE Head(txQ)
      /\ txQ' \in {<<>>, Append(txQ, wrData), Append(Tail(txQ), wrData), txQ,
                   Tail(txQ)}
      /\ txQ = <<>> => txQ' \in {<<>>, Append(txQ, wrData)}
  BY DEF QueueEdge, RxFifo!Cycle, TxFifo!Cycle, TxFifo!AfterPop
<1>2. wrData \in Words /\ txQ \in Seq(Words) /\ rxOut \in Words /\ txOut \in Words
  BY DEF WordsOK
<1>3. rxOut' \in Words
  BY <1>1, <1>2, KnownWords, QueueLemma
<1>4. txOut' \in Words
  BY <1>1, <1>2, KnownWords, QueueLemma
<1>5. /\ <<>> \in Seq(Words) /\ Append(txQ, wrData) \in Seq(Words)
      /\ txQ # <<>> => /\ Tail(txQ) \in Seq(Words)
                       /\ Append(Tail(txQ), wrData) \in Seq(Words)
  BY <1>2, QueueLemma, TailAppend
<1> QED BY <1>1, <1>2, <1>3, <1>4, <1>5

LEMMA FetchTyped ==
  ASSUME FetchEdge, WordsOK, FlagsOK
  PROVE  /\ dataToWrite' \in Words /\ rdReq' \in BOOLEAN
         /\ fetchState' \in {"IDLE", "DEASSERT", "LATCH", "DONE"}
<1>1. dataToWrite' \in {dataToWrite, rxOut}
      /\ fetchState' \in {"IDLE", "DEASSERT", "LATCH", "DONE"}
  BY DEF FetchEdge
<1>2. rdReq' = TRUE \/ rdReq' = FALSE \/ rdReq' = rdReq
  BY Zenon DEF FetchEdge
<1>3. rdReq \in BOOLEAN
  BY Zenon DEF FlagsOK
<1>4. rdReq' \in BOOLEAN
  BY <1>2, <1>3, Zenon
<1> QED BY <1>1, <1>4 DEF WordsOK

(* What the transaction machine counts and holds.                          *)
LEMMA MachineTyped ==
  ASSUME FsmEdge, WordsOK, CountersOK, FlagsOK, ctrl.dummy \in Nat
  PROVE  /\ cntRise' \in 0 .. ByteBits - 1 /\ flow' \in 0 .. PageBytes - 1
         /\ cntFall' \in Nat /\ readReg' \in Words /\ wrData' \in Words
<1>0. /\ ByteBits \in Nat /\ ByteBits >= 2 /\ CmdBits \in Nat \ {0}
      /\ AddrBits \in Nat \ {0} /\ PageBytes \in Nat \ {0}
      /\ WordBytes \in Nat \ {0}
  BY QspiAssumption, Sizes
<1>1. /\ cntRise \in 0 .. ByteBits - 1 /\ flow \in 0 .. PageBytes - 1
      /\ cntFall \in Nat /\ readReg \in Words /\ wrData \in Words
      /\ miso \in {0, 1}
  BY DEF CountersOK, WordsOK
<1>2. \A f \in Nat : (f + 1) % PageBytes \in 0 .. PageBytes - 1
  BY <1>0
<1>3. flow' \in 0 .. PageBytes - 1
  <2>1. flow' \in {0, flow, (flow + 1) % PageBytes}
    BY DEF FsmEdge, Idle, Select, Sample, Complete, SendCmd, SendAddress,
       SendDummy, ReadPre, SendData, ReadData, NextByte, End, Rest, fsmVars
  <2> QED BY <1>0, <1>1, <1>2, <2>1
<1>4. cntFall' \in Nat
  <2>1. \/ cntFall' \in {cntFall, ByteBits - 1, CmdBits - 1, AddrBits - 1}
        \/ cntFall' = cntFall - 1 /\ cntFall # 0
        \/ cntFall' = ctrl.dummy - 1 /\ ctrl.dummy # 0
    BY DEF FsmEdge, Idle, Select, Sample, Complete, SendCmd, SendAddress,
       SendDummy, ReadPre, SendData, ReadData, NextByte, End, Rest, fsmVars
  <2> QED BY <1>0, <1>1, <2>1
<1>5. cntRise' \in 0 .. ByteBits - 1
  <2>1. \/ cntRise' \in {cntRise, ByteBits - 1, 0}
        \/ cntRise' = cntRise - 1 /\ cntRise # 0
    BY DEF FsmEdge, Idle, Select, Sample, Complete, SendCmd, SendAddress,
       SendDummy, ReadPre, SendData, ReadData, End, Rest, fsmVars
  <2> QED BY <1>0, <1>1, <2>1
<1>6. wrData' \in {wrData, readReg}
  BY DEF FsmEdge, Idle, Select, Sample, Complete, SendCmd, SendAddress,
       SendDummy, ReadPre, SendData, ReadData, End, Rest, fsmVars
<1>7. readReg' \in Words
  <2>1. CASE Sample
    <3>1. readReg' = [readReg EXCEPT ![flow % WordBytes][cntRise] = miso]
      BY <2>1 DEF Sample
    <3>2. flow % WordBytes \in 0 .. WordBytes - 1
      BY <1>0, <1>1
    <3> QED BY <1>1, <3>1, <3>2 DEF Words, Bytes
  <2>2. CASE ~Sample
    <3>1. readReg' \in {readReg, ZeroWord}
      BY <2>2 DEF FsmEdge, Idle, Select, Complete, SendCmd, SendAddress,
         SendDummy, ReadPre, SendData, ReadData, End, Rest, fsmVars
    <3> QED BY <1>1, <3>1, KnownWords
  <2> QED BY <2>1, <2>2
<1> QED BY <1>1, <1>3, <1>4, <1>5, <1>6, <1>7

LEMMA MachineFlags ==
  ASSUME FsmEdge, FlagsOK
  PROVE  /\ reqSet' \in BOOLEAN /\ csN' \in BOOLEAN /\ outEn' \in BOOLEAN
         /\ done' \in BOOLEAN /\ doWrite' \in BOOLEAN
<1>1. /\ reqSet \in BOOLEAN /\ csN \in BOOLEAN /\ outEn \in BOOLEAN
      /\ done \in BOOLEAN /\ doWrite \in BOOLEAN
  BY Zenon DEF FlagsOK
<1>2. CASE Idle
  BY <1>1, <1>2, Zenon DEF Idle
<1>3. CASE Select
  BY <1>1, <1>3, Zenon DEF Select
<1>4. CASE Sample
  BY <1>1, <1>4, Zenon DEF Sample
<1>5. CASE Complete
  BY <1>1, <1>5, Zenon DEF Complete
<1>6. CASE SendCmd
  BY <1>1, <1>6, Zenon DEF SendCmd
<1>7. CASE SendAddress
  BY <1>1, <1>7, Zenon DEF SendAddress
<1>8. CASE SendDummy
  BY <1>1, <1>8, Zenon DEF SendDummy
<1>9. CASE ReadPre
  BY <1>1, <1>9, Zenon DEF ReadPre
<1>10. CASE SendData
  BY <1>1, <1>10, Zenon DEF SendData
<1>11. CASE ReadData
  BY <1>1, <1>11, Zenon DEF ReadData
<1>12. CASE End
  BY <1>1, <1>12, Zenon DEF End
<1>13. CASE Rest
  BY <1>1, <1>13, Zenon DEF Rest, fsmVars
<1> QED BY <1>2, <1>3, <1>4, <1>5, <1>6, <1>7, <1>8, <1>9, <1>10, <1>11,
           <1>12, <1>13 DEF FsmEdge

LEMMA RequestFlags ==
  ASSUME Next
  PROVE  rxWr' \in BOOLEAN /\ rdEn' \in BOOLEAN
<1>1. \E store : Edge(store)
  BY Zenon DEF Next, Wait, Begin, Program, Return, Configure, Push, Poll,
               Clear, Pop, Take, Status, Set, Access
<1> QED BY <1>1, Zenon DEF Edge, RegsEdge

(* What the chip sends and stores.                                         *)
LEMMA ChipTyped ==
  ASSUME WireInv, RxInv', Next, WordsOK, FlagsOK
  PROVE  /\ miso' \in {0, 1} /\ pages' \in [Pages -> [1 .. PageWords -> Words]]
         /\ busy' \in BOOLEAN /\ wel' \in BOOLEAN
<1>0. /\ ByteBits \in Nat \ {0} /\ CmdBits \in Nat \ {0}
      /\ AddrBits \in Nat \ {0} /\ PageBytes \in Nat \ {0}
      /\ WordBytes \in Nat \ {0} /\ PageWords \in Nat \ {0}
      /\ DummyBits \in Nat
  BY QspiAssumption, Sizes
<1>1. /\ miso \in {0, 1} /\ pages \in [Pages -> [1 .. PageWords -> Words]]
      /\ ChipEdge
  BY EveryEdge DEF WordsOK
<1>2. busy \in BOOLEAN /\ wel \in BOOLEAN
  BY Zenon DEF FlagsOK
<1>3. busy' \in BOOLEAN /\ wel' \in BOOLEAN
  BY <1>1, <1>2, Zenon DEF ChipEdge, Work, Execute, Modifies
<1>4. CASE ~csN
  <2>1. /\ FrameOK /\ CommandOK(Here) /\ frame.data \in Seq(Bytes)
        /\ frame.bits \in Nat
    BY <1>4, SelectedFacts DEF WireInv, WireOK, FrameOK, Holds
  <2>2. ~(frame.bits <= CmdBits) => /\ frame.cmd = Here.cmd
                                    /\ frame.addr = Here.page
    BY <1>0, <2>1 DEF FrameOK, Holds
  <2>3. miso' \in {0, 1}
    <3>1. \A i, b : i \in Nat /\ b \in 0 .. ByteBits - 1 /\ frame.bits >= HeadBits(frame.cmd)
             /\ frame.cmd \in {"RDSR", "JEDEC", "READ", "FAST"}
             => AnswerByte(i)[b] \in {0, 1}
      <4> SUFFICES ASSUME NEW i \in Nat, NEW b \in 0 .. ByteBits - 1,
                          frame.bits >= HeadBits(frame.cmd),
                          frame.cmd \in {"RDSR", "JEDEC", "READ", "FAST"}
                   PROVE  AnswerByte(i) \in Bytes
        BY DEF Bytes
      <4>1. CASE frame.cmd = "RDSR"
        BY <4>1, KnownWords DEF AnswerByte
      <4>2. i % WordBytes \in 0 .. WordBytes - 1
        BY <1>0
      <4>3. CASE frame.cmd = "JEDEC"
        <5>1. Identity[1][i % WordBytes] \in Bytes
          BY <4>2, KnownWords DEF Words
        <5> QED BY <4>3, <5>1 DEF AnswerByte
      <4>4. CASE frame.cmd \in {"READ", "FAST"}
        <5>1. HeadBits(frame.cmd) >= CmdBits + AddrBits
          BY <1>0, <4>4 DEF HeadBits, Addressed
        <5>2. ~(frame.bits <= CmdBits)
          <6>1. HeadBits(frame.cmd) \in Nat
            BY <1>0 DEF HeadBits
          <6> QED BY <1>0, <2>1, <5>1, <6>1
        <5>3. frame.addr \in Pages
          BY <2>1, <2>2, <4>4, <5>2 DEF CommandOK, Addressed
        <5>4. (i % PageBytes) \div WordBytes + 1 \in 1 .. PageWords
          <6>1. i % PageBytes \in Nat /\ i % PageBytes < PageWords * WordBytes
            BY <1>0 DEF PageBytes
          <6>2. \A a \in Nat, k \in Nat \ {0}, m \in Nat :
                  a < m * k => a \div k \in Nat /\ a \div k < m
            OBVIOUS
          <6>3. (i % PageBytes) \div WordBytes \in Nat
                /\ (i % PageBytes) \div WordBytes < PageWords
            BY <1>0, <6>1, <6>2
          <6> QED BY <1>0, <6>3
        <5>5. pages[frame.addr][(i % PageBytes) \div WordBytes + 1]
                   [i % WordBytes] \in Bytes
          <6>1. \A page \in [1 .. PageWords -> Words], w \in 1 .. PageWords,
                   k \in 0 .. WordBytes - 1 : page[w][k] \in Bytes
            BY DEF Words
          <6>2. pages[frame.addr] \in [1 .. PageWords -> Words]
            BY <1>1, <5>3
          <6> QED BY <4>2, <5>4, <6>1, <6>2
        <5> QED BY <4>4, <5>5 DEF AnswerByte
      <4> QED BY <4>1, <4>3, <4>4
    <3>2. ASSUME frame.bits >= HeadBits(frame.cmd)
          PROVE  /\ (frame.bits - HeadBits(frame.cmd)) \div ByteBits \in Nat
                 /\ ByteBits - 1 - ((frame.bits - HeadBits(frame.cmd)) % ByteBits)
                      \in 0 .. ByteBits - 1
      <4>1. HeadBits(frame.cmd) \in Nat
        BY <1>0 DEF HeadBits
      <4>2. PICK m \in Nat : m = frame.bits - HeadBits(frame.cmd)
        BY <2>1, <3>2, <4>1
      <4> QED BY <1>0, <4>2
    <3>3. miso' = miso \/ Drive
      BY <1>1 DEF ChipEdge
    <3> QED BY <1>1, <3>1, <3>2, <3>3 DEF Drive
  <2>4. pages' \in [Pages -> [1 .. PageWords -> Words]]
    <3>1. ASSUME NEW old \in [1 .. PageWords -> Words],
                 NEW new \in [1 .. PageWords -> Words]
          PROVE  Combine(old, new) \in [1 .. PageWords -> Words]
      <4>1. \A w \in 1 .. PageWords, i \in 0 .. WordBytes - 1,
               b \in 0 .. ByteBits - 1 : old[w][i][b] * new[w][i][b] \in {0, 1}
        <5>1. \A w \in 1 .. PageWords, i \in 0 .. WordBytes - 1,
                 b \in 0 .. ByteBits - 1 :
                   old[w][i][b] \in {0, 1} /\ new[w][i][b] \in {0, 1}
          <6>1. \A page \in [1 .. PageWords -> Words], w \in 1 .. PageWords,
                   i \in 0 .. WordBytes - 1 : page[w][i] \in Bytes
            BY DEF Words
          <6>2. \A byte \in Bytes, b \in 0 .. ByteBits - 1 : byte[b] \in {0, 1}
            BY DEF Bytes
          <6> QED BY <6>1, <6>2
        <5>2. \A x, y \in {0, 1} : x * y \in {0, 1}
          OBVIOUS
        <5> QED BY <5>1, <5>2
      <4> QED BY <4>1 DEF Combine, Words, Bytes
    <3>2. WordsOf(frame.data) \in [1 .. PageWords -> Words]
      <4>1. \A k \in Nat : k >= 1 /\ k <= Len(frame.data) =>
              frame.data[k] \in Bytes
        BY <2>1
      <4>2. ByteOf(1) \in Bytes
        BY DEF ByteOf, Bytes
      <4>3. \A w \in 1 .. PageWords, i \in 0 .. WordBytes - 1 :
              /\ (w - 1) * WordBytes + i + 1 \in Nat
              /\ (w - 1) * WordBytes + i + 1 >= 1
        <5>1. \A v \in Nat : v * WordBytes \in Nat
          BY <1>0
        <5> QED BY <1>0, <5>1
      <4> QED BY <4>1, <4>2, <4>3 DEF WordsOf, Words
    <3>3. pages' = pages \/ Execute
      BY <1>1 DEF ChipEdge, Work
    <3>4. Execute => \A p \in Pages : pages'[p] \in [1 .. PageWords -> Words]
      BY <1>1, <3>1, <3>2, KnownWords DEF Execute
    <3>5. Execute => pages' = [p \in Pages |-> pages'[p]]
      BY <1>1 DEF Execute
    <3> QED BY <1>1, <3>3, <3>4, <3>5
  <2> QED BY <1>3, <2>3, <2>4
<1>5. CASE csN
  <2>1. miso' = miso /\ pages' = pages
    BY <1>1, <1>5 DEF ChipEdge, Work, Deselected
  <2> QED BY <1>1, <1>3, <2>1
<1> QED BY <1>4, <1>5

(* How often the chip was used and changed are numbers.                    *)
LEMMA HistoryTyped ==
  ASSUME Next, CountersOK
  PROVE  runs' \in Nat /\ times' \in Nat
<1>1. runs \in Nat /\ times \in Nat
  BY DEF CountersOK
<1>2. \E store : Edge(store)
  BY Zenon DEF Next, Wait, Begin, Program, Return, Configure, Push, Poll,
               Clear, Pop, Take, Status, Set, Access
<1>3. runs' \in {0, runs, runs + 1}
  BY <1>2 DEF Edge
<1>4. CountChange \/ times' = 0
  BY Zenon DEF Next, Wait, Begin, Program, Return, Configure, Push, Poll,
               Clear, Pop, Take, Status, Set, Access
<1>5. times' \in {0, times, times + 1}
  BY <1>4 DEF CountChange
<1> QED BY <1>1, <1>3, <1>5

-----------------------------------------------------------------------------
DataInv == WireInv /\ DataOK

LEMMA DataStep == ASSUME DataInv, RxInv', Next PROVE DataOK'
<1>1. /\ WireInv /\ CountersOK /\ WordsOK /\ FlagsOK /\ RxInv /\ ProgInv
      /\ rxQ \in Seq(Words)
  BY DEF DataInv, DataOK, WireInv, RxInv, RxOK, ControlInv
<1>2. ctrl.dummy \in Nat
  <2>1. CASE Armed
    <3>1. ctrl = Start(Here) /\ CommandOK(Here)
      BY <1>1, <2>1, HereOK DEF ProgInv, RegsOK, Armed, Active
    <3>2. ctrl.dummy = Here.dummy
      BY <3>1 DEF Start
    <3> QED BY <3>1, <3>2, QspiAssumption DEF CommandOK
  <2>2. CASE ~Armed
    BY <1>1, <2>2 DEF ProgInv, RegsOK, FlushTx, CtrlOff
  <2> QED BY <2>1, <2>2
<1>3. QueueEdge /\ FetchEdge /\ FsmEdge /\ ChipEdge
  BY EveryEdge
<1>4. CountersOK'
  BY <1>1, <1>2, <1>3, StoresTyped, MachineTyped, HistoryTyped DEF CountersOK
<1>5. WordsOK'
  BY <1>1, <1>2, <1>3, StoresTyped, MachineTyped, QueuesTyped, FetchTyped,
     ChipTyped DEF WordsOK
<1>6. FlagsOK'
  <2>1. /\ reqSet' \in BOOLEAN /\ csN' \in BOOLEAN /\ outEn' \in BOOLEAN
        /\ done' \in BOOLEAN /\ doWrite' \in BOOLEAN
        /\ rxWr' \in BOOLEAN /\ rdEn' \in BOOLEAN /\ rdReq' \in BOOLEAN
        /\ busy' \in BOOLEAN /\ wel' \in BOOLEAN
        /\ fetchState' \in {"IDLE", "DEASSERT", "LATCH", "DONE"}
    BY <1>1, <1>3, MachineFlags, RequestFlags, FetchTyped, ChipTyped, Zenon
  <2> QED BY <2>1, ZenonT(60) DEF FlagsOK
<1> QED BY <1>4, <1>5, <1>6 DEF DataOK

LEMMA DataInit == Init => DataInv
<1> SUFFICES ASSUME Init PROVE DataInv
  OBVIOUS
<1>0. ByteBits \in Nat /\ ByteBits >= 2 /\ PageBytes \in Nat \ {0}
  BY QspiAssumption, Sizes
<1>1. CountersOK
  BY <1>0 DEF Init, ControllerInit, CountersOK
<1>2. WordsOK
  <2>1. pages \in [Pages -> [1 .. PageWords -> Words]]
    <3>1. Buffers \cup {Erased} \subseteq [1 .. PageWords -> Words]
      BY KnownWords, QspiAssumption
    <3> QED BY <3>1 DEF Init
  <2>2. txQ \in Seq(Words)
    BY DEF Init, ControllerInit
  <2> QED BY <2>1, <2>2, KnownWords DEF Init, ControllerInit, WordsOK
<1>3. FlagsOK
  <2>1. fetchState = "IDLE"
    BY DEF Init, ControllerInit
  <2> QED BY <2>1, Zenon DEF Init, ControllerInit, FlagsOK
<1> QED BY <1>1, <1>2, <1>3, WireInit DEF DataInv, DataOK

LEMMA DataInvStep == DataInv /\ [Next]_vars => DataInv'
<1> SUFFICES ASSUME DataInv, [Next]_vars PROVE DataInv'
  OBVIOUS
<1>1. WireInv' /\ RxInv'
  BY WireInvStep DEF DataInv, WireInv
<1>2. CASE Next
  BY <1>1, <1>2, DataStep DEF DataInv
<1>3. CASE UNCHANGED vars
  <2>1. CountersOK'
    BY <1>3 DEF DataInv, DataOK, CountersOK, vars, fsmVars, regVars
  <2>2. WordsOK'
    BY <1>3 DEF DataInv, DataOK, WordsOK, vars, fsmVars, regVars, queueVars,
       fetchVars, chipVars
  <2>3. FlagsOK'
    BY <1>3, Zenon DEF DataInv, DataOK, FlagsOK, vars, fsmVars, regVars,
       fetchVars, chipVars
  <2> QED BY <1>1, <2>1, <2>2, <2>3 DEF DataInv, DataOK
<1> QED BY <1>2, <1>3

-----------------------------------------------------------------------------
(* The words that were read.                                               *)
TxInv == DataInv /\ TxOK

LEMMA TxCycle ==
  ASSUME QueueEdge, txQ \in Seq(Words), wrData \in Words, PageWords \in Nat
  PROVE  /\ Len(txQ) \in Nat /\ Len(txQ') \in Nat
         /\ "tx" \in flush => Len(txQ') = 0
         /\ "tx" \notin flush =>
              /\ ~(doWrite /\ fall) /\ ~rdEn => Len(txQ') = Len(txQ)
              /\ doWrite /\ fall /\ Len(txQ) < PageWords /\ ~rdEn =>
                   Len(txQ') = Len(txQ) + 1
              /\ ~doWrite /\ rdEn /\ txQ # <<>> => Len(txQ') = Len(txQ) - 1
<1>1. txQ' = IF "tx" \in flush THEN <<>>
             ELSE IF WriteEnabled /\ Len(txQ) # PageWords
             THEN Append(IF rdEn /\ txQ # <<>> THEN Tail(txQ) ELSE txQ, wrData)
             ELSE IF rdEn /\ txQ # <<>> THEN Tail(txQ) ELSE txQ
  BY DEF QueueEdge, TxFifo!Cycle, TxFifo!AfterPop
<1>2. Len(txQ) \in Nat
  BY QueueLemma
<1>3. WriteEnabled <=> doWrite /\ fall /\ Len(txQ) < PageWords
  BY DEF WriteEnabled
<1>4. CASE "tx" \in flush
  <2>1. txQ' = <<>>
    BY <1>1, <1>4
  <2> QED BY <1>2, <1>4, <2>1
<1>5. CASE "tx" \notin flush
  <2>1. \/ txQ' = txQ
        \/ txQ # <<>> /\ txQ' = Tail(txQ)
        \/ txQ' = Append(txQ, wrData)
        \/ txQ # <<>> /\ txQ' = Append(Tail(txQ), wrData)
    BY <1>1, <1>5
  <2>2. txQ' \in Seq(Words)
    <3>1. Append(txQ, wrData) \in Seq(Words)
      BY QueueLemma
    <3>2. txQ # <<>> => Tail(txQ) \in Seq(Words)
      BY QueueLemma
    <3>3. txQ # <<>> => Append(Tail(txQ), wrData) \in Seq(Words)
      BY TailAppend
    <3> QED BY <2>1, <3>1, <3>2, <3>3
  <2>3. ~(doWrite /\ fall) /\ ~rdEn => txQ' = txQ
    BY <1>1, <1>3, <1>5
  <2>4. doWrite /\ fall /\ Len(txQ) < PageWords /\ ~rdEn =>
          txQ' = Append(txQ, wrData)
    BY <1>1, <1>2, <1>3, <1>5
  <2>5. ~doWrite /\ rdEn /\ txQ # <<>> => txQ' = Tail(txQ)
    BY <1>1, <1>3, <1>5
  <2>6. Len(txQ') \in Nat
    BY <2>2, QueueLemma
  <2> QED BY <1>2, <1>5, <2>3, <2>4, <2>5, <2>6, QueueLemma
<1> QED BY <1>4, <1>5

(* A word is handed over by the falling edges of READ and END only.        *)
LEMMA HandOver ==
  ASSUME FsmEdge
  PROVE  /\ state # "READ" /\ state # "END" => (doWrite' <=> doWrite)
         /\ ~fall => (doWrite' <=> doWrite)
         /\ fall /\ state = "END" => ~doWrite'
<1>1. UNCHANGED fsmVars => (doWrite' <=> doWrite)
  BY DEF fsmVars
<1> USE DEF FsmEdge, Idle, Select, Sample, Complete, SendCmd, SendAddress,
            SendDummy, ReadPre, SendData, End, Rest
<1>2. state # "READ" /\ state # "END" => (doWrite' <=> doWrite)
  BY <1>1 DEF ReadData
<1>3. ~fall => (doWrite' <=> doWrite)
  BY <1>1 DEF ReadData
<1>4. fall /\ state = "END" => ~doWrite'
  BY DEF ReadData, ActsOnFall
<1> QED BY <1>2, <1>3, <1>4

(* Where the transaction machine goes while it reads.                      *)
LEMMA ReadSteps ==
  ASSUME FsmEdge, ctrl.mode = 1, ctrl.dir = "read", ctrl.start
  PROVE  /\ state = "IDLE" => state' \in {"IDLE", "CS"}
         /\ state = "CS" => state' \in {"CS", "CMD"}
         /\ state = "CMD" => state' \in {"CMD", "ADDR", "PRE"}
         /\ state = "ADDR" => state' \in {"ADDR", "DUMMY", "PRE"}
         /\ state = "DUMMY" => state' \in {"DUMMY", "PRE"}
         /\ state = "PRE" => state' \in {"PRE", "READ"} /\ flow' = flow
         /\ state = "END" => state' \in {"END", "DONE"}
         /\ state = "DONE" => state' = "DONE"
<1> USE DEF FsmEdge, Idle, Select, Sample, Complete, SendCmd, SendAddress,
            SendDummy, ReadPre, SendData, ReadData, End, Rest, fsmVars
<1>1. /\ state = "IDLE" => state' \in {"IDLE", "CS"}
      /\ state = "CS" => state' \in {"CS", "CMD"}
  OBVIOUS
<1>2. state = "CMD" => state' \in {"CMD", "ADDR", "PRE"}
  BY DEF DataPhase
<1>3. state = "ADDR" => state' \in {"ADDR", "DUMMY", "PRE"}
  BY DEF DataPhase
<1>4. /\ state = "DUMMY" => state' \in {"DUMMY", "PRE"}
      /\ state = "PRE" => state' \in {"PRE", "READ"} /\ flow' = flow
  OBVIOUS
<1>5. /\ state = "END" => state' \in {"END", "DONE"}
      /\ state = "DONE" => state' = "DONE"
  OBVIOUS
<1> QED BY <1>1, <1>2, <1>3, <1>4, <1>5

ReadHead == {"IDLE", "CS", "CMD", "ADDR", "DUMMY", "PRE"}
LEMMA ReadMoves ==
  ASSUME RxInv, RxInv', Next, Armed, Here.pulls > 0
  PROVE  /\ state \in ReadHead \cup {"READ", "END", "DONE"}
         /\ state \in ReadHead => \/ state' \in ReadHead
                                  \/ state' = "READ" /\ flow' = 0
         /\ state = "END" => state' \in {"END", "DONE"}
         /\ state = "DONE" => state' = "DONE"
<1>1. /\ CommandOK(Here) /\ ctrl.start /\ ctrl.mode = Here.mode
      /\ ctrl.dir = Here.dir /\ FsmEdge
  BY MachineRuns DEF RxInv
<1>2. Here.mode = 1 /\ Here.dir = "read" /\ Here.cmd # "PP"
  BY <1>1 DEF CommandOK
<1>3. state # "SEND" /\ (state = "PRE" => flow = 0)
  BY <1>2 DEF RxInv, PhaseOK
<1>4. state \in ReadHead \cup {"READ", "END", "DONE"}
  BY <1>3 DEF RxInv, ControlInv, HandOK, ActsOnRise, ActsOnFall, ReadHead
<1>5. state \in ReadHead => state' \in ReadHead \/ (state' = "READ" /\ flow' = 0)
  BY <1>1, <1>2, <1>3, ReadSteps DEF ReadHead
<1> QED BY <1>1, <1>2, <1>4, <1>5, ReadSteps

LEMMA WordUnique ==
  ASSUME NEW a \in Nat, NEW b \in Nat, NEW f \in Nat,
         a * WordBytes <= f, f < (a + 1) * WordBytes,
         b * WordBytes <= f, f < (b + 1) * WordBytes
  PROVE  a = b
BY Split

(* The count that is set is that of the bytes of the words to pull.        *)
LEMMA ReadingCounts ==
  ASSUME RxInv, Reading
  PROVE  /\ CommandOK(Here) /\ Here.pulls \in 1 .. PageWords /\ Here.cmd # "PP"
         /\ cnt \in 0 .. PageBytes - 1 /\ pc \in {"rest", "poll", "off"}
         /\ Here.pushes = 0
         /\ \A c \in Nat : c * WordBytes <= cnt /\ cnt < (c + 1) * WordBytes =>
                             c + 1 = Here.pulls
<1>1. /\ CommandOK(Here) /\ cnt = Here.count /\ pc \in {"rest", "poll", "off"}
      /\ WordBytes \in Nat \ {0} /\ PageWords \in Nat
  BY HereOK, QspiAssumption DEF RxInv, ControlInv, ProgInv, RegsOK, Reading,
     Armed, Active
<1>2. /\ Here.pulls \in 1 .. PageWords /\ Here.cmd # "PP" /\ Here.pushes = 0
      /\ cnt \in 0 .. PageBytes - 1
      /\ IF Here.cmd = "RDSR" THEN cnt = 0 /\ Here.pulls = 1
         ELSE cnt = Here.pulls * WordBytes - 1
  <2>1. Here.pulls # 0
    BY DEF Reading
  <2> QED BY <1>1, <2>1 DEF CommandOK
<1>3. ASSUME NEW c \in Nat, c * WordBytes <= cnt, cnt < (c + 1) * WordBytes
      PROVE  c + 1 = Here.pulls
  <2>1. PICK q \in Nat : Here.pulls = q + 1
    <3>1. Here.pulls - 1 \in Nat /\ Here.pulls = (Here.pulls - 1) + 1
      BY <1>1, <1>2
    <3> QED BY <3>1
  <2>2. q * WordBytes \in Nat
        /\ (q + 1) * WordBytes = q * WordBytes + WordBytes
    BY <1>1
  <2>3. q * WordBytes <= cnt /\ cnt < (q + 1) * WordBytes
    <3>1. CASE Here.cmd = "RDSR"
      <4>1. q = 0 /\ cnt = 0
        BY <1>2, <2>1, <3>1
      <4>2. 0 * WordBytes = 0
        BY <1>1
      <4> QED BY <1>1, <2>2, <4>1, <4>2
    <3>2. CASE Here.cmd # "RDSR"
      <4>1. cnt = (q + 1) * WordBytes - 1
        BY <1>2, <2>1, <3>2
      <4> QED BY <1>1, <2>2, <4>1
    <3> QED BY <3>1, <3>2
  <2>4. cnt \in Nat
    <3>1. PageBytes \in Nat
      BY Sizes
    <3> QED BY <1>2, <3>1
  <2>5. c = q
    BY <1>3, <2>3, <2>4, WordUnique
  <2> QED BY <2>1, <2>5
<1> QED BY <1>1, <1>2, <1>3

(* What there is to lose.                                                  *)
LEMMA TxFacts ==
  ASSUME TxInv
  PROVE  /\ Len(txQ) \in Nat /\ RxInv /\ txQ \in Seq(Words) /\ wrData \in Words
         /\ doWrite => Len(txQ) < PageWords /\ Armed /\ Here.pulls > 0
                       /\ state \in {"READ", "END"}
         /\ rdEn => /\ txQ # <<>> /\ ~Armed /\ Active /\ gap = MinGap - 1
                    /\ pc \in {"take", "status"}
                    /\ Len(txQ) = Here.pulls - moved
         /\ flush # {} => ~Armed /\ pc = "flushed"
<1>1. /\ RxInv /\ ControlInv /\ ProgInv /\ PhaseOK /\ TxOK
      /\ txQ \in Seq(Words) /\ wrData \in Words
  BY DEF TxInv, DataInv, WireInv, RxInv, ControlInv, DataOK, WordsOK
<1>2. Len(txQ) \in Nat /\ (txQ = <<>> => Len(txQ) = 0)
  BY <1>1, QueueLemma
<1>3. ASSUME doWrite
      PROVE  Len(txQ) < PageWords /\ Armed /\ Here.pulls > 0
             /\ state \in {"READ", "END"}
  <2>1. Reading
    BY <1>1, <1>3 DEF TxOK
  <2>2. Came = Len(txQ) + 1
    BY <1>3 DEF Came
  <2>3. Here.pulls \in 1 .. PageWords /\ cnt \in 0 .. PageBytes - 1
    BY <1>1, <2>1, ReadingCounts
  <2>4. PageWords \in Nat /\ WordBytes \in Nat \ {0} /\ PageBytes \in Nat
        /\ PageBytes = PageWords * WordBytes
    BY QspiAssumption, Sizes DEF PageBytes
  <2>5. CASE state = "READ"
    <3>1. Came * WordBytes <= flow /\ flow \in 0 .. cnt
      BY <1>1, <2>1, <2>5 DEF TxOK, PhaseOK
    <3>2. PICK c \in Nat : c = Came
      BY <1>2, <2>2
    <3>3. c * WordBytes < PageWords * WordBytes
      <4>1. c * WordBytes \in Nat
        BY <2>4
      <4> QED BY <2>3, <2>4, <3>1, <3>2, <4>1
    <3>4. \A a, b \in Nat : a * WordBytes < b * WordBytes => a < b
      BY <2>4
    <3>5. c < PageWords
      BY <2>4, <3>3, <3>4
    <3> QED BY <1>2, <2>1, <2>2, <2>4, <2>5, <3>2, <3>5 DEF Reading
  <2>6. CASE state = "END"
    <3>1. Came = Here.pulls
      BY <1>1, <2>1, <2>6 DEF TxOK
    <3> QED BY <1>2, <2>1, <2>2, <2>3, <2>4, <2>6, <3>1 DEF Reading
  <2> QED BY <1>1, <1>3, <2>5, <2>6 DEF PhaseOK
<1>4. ASSUME rdEn
      PROVE  /\ txQ # <<>> /\ ~Armed /\ Active /\ gap = MinGap - 1
             /\ pc \in {"take", "status"}
             /\ Len(txQ) = Here.pulls - moved
  <2>1. pc \in {"take", "status"} /\ gap = MinGap - 1
    BY <1>1, <1>4 DEF ProgInv, PulsesOK
  <2>2. Active /\ ~Armed
    BY <1>1, <2>1 DEF Active, Armed, ProgInv, ProgOK
  <2>3. Len(txQ) = Here.pulls - moved - 0
    BY <1>1, <1>4, <2>1, <2>2 DEF TxOK, Reading, ToPull
  <2>4. moved < Here.pulls /\ moved \in Nat /\ CommandOK(Here)
    BY <1>1, <2>1, <2>2, ProgramPlaces DEF PlaceOK
  <2>5. Here.pulls \in Nat
    BY <2>4, QspiAssumption DEF CommandOK
  <2>6. Len(txQ) # 0 /\ Len(txQ) = Here.pulls - moved
    BY <2>3, <2>4, <2>5
  <2> QED BY <1>2, <2>1, <2>2, <2>6
<1>5. flush # {} => ~Armed /\ pc = "flushed"
  BY <1>1 DEF ProgInv, PulsesOK, Armed
<1> QED BY <1>1, <1>2, <1>3, <1>4, <1>5

(* The words handed over: one more when READ has one in hand.              *)
LEMMA CameNext ==
  ASSUME TxInv, RxInv', Next, flush = {}, ~rdEn
  PROVE  /\ Came \in Nat
         /\ Came' = Came + (IF fall /\ state = "READ" /\ doWrite' THEN 1 ELSE 0)
         /\ doWrite' => \/ state = "READ" /\ fall
                        \/ doWrite /\ ~fall /\ Came' = Came
<1>1. /\ Len(txQ) \in Nat /\ txQ \in Seq(Words) /\ wrData \in Words
      /\ doWrite => Len(txQ) < PageWords /\ state \in {"READ", "END"}
  BY TxFacts
<1>2. PageWords \in Nat /\ "tx" \notin flush /\ QueueEdge /\ FsmEdge
  BY QspiAssumption, EveryEdge
<1>3. /\ ~(doWrite /\ fall) => Len(txQ') = Len(txQ)
      /\ doWrite /\ fall => Len(txQ') = Len(txQ) + 1
  BY <1>1, <1>2, TxCycle
<1>4. /\ state # "READ" /\ state # "END" => (doWrite' <=> doWrite)
      /\ ~fall => (doWrite' <=> doWrite)
      /\ fall /\ state = "END" => ~doWrite'
  BY <1>2, HandOver
<1>5. Came = Len(txQ) + (IF doWrite THEN 1 ELSE 0)
  BY DEF Came
<1>6. Came' = Len(txQ') + (IF doWrite' THEN 1 ELSE 0)
  BY DEF Came
<1>7. /\ doWrite => Came = Len(txQ) + 1
      /\ ~doWrite => Came = Len(txQ)
      /\ doWrite' => Came' = Len(txQ') + 1
      /\ ~doWrite' => Came' = Len(txQ')
  BY <1>1, <1>3, <1>5, <1>6
<1>8. CASE fall /\ state = "READ"
  <2>1. Len(txQ') = Came
    BY <1>3, <1>7, <1>8
  <2> QED BY <1>1, <1>7, <1>8, <2>1
<1>9. CASE ~(fall /\ state = "READ")
  <2>1. Came' = Came
    <3>1. CASE ~fall
      BY <1>1, <1>3, <1>4, <1>7, <3>1
    <3>2. CASE fall /\ ~doWrite
      BY <1>1, <1>3, <1>4, <1>7, <1>9, <3>2
    <3>3. CASE fall /\ doWrite
      BY <1>1, <1>3, <1>4, <1>7, <1>9, <3>3
    <3> QED BY <3>1, <3>2, <3>3
  <2>2. Came \in Nat
    BY <1>1, <1>7
  <2>3. doWrite' => doWrite /\ ~fall
    BY <1>1, <1>4, <1>9
  <2> QED BY <1>9, <2>1, <2>2, <2>3
<1> QED BY <1>8, <1>9

(* The falling edges of READ.                                              *)
LEMMA ReadFalls ==
  ASSUME TxInv, RxInv', Next, Reading, state = "READ", fall,
         NEW c, c = Came
  PROVE  \/ /\ state' = "READ" /\ ~doWrite'
            /\ c * WordBytes <= flow' /\ flow' < (c + 1) * WordBytes
         \/ /\ state' = "READ" /\ doWrite'
            /\ (c + 1) * WordBytes <= flow'
            /\ flow' < ((c + 1) + 1) * WordBytes
         \/ state' = "END" /\ doWrite' /\ c + 1 = Here.pulls
<1>0. /\ WordBytes \in Nat \ {0} /\ ByteBits \in Nat /\ ByteBits >= 2
      /\ PageBytes \in Nat \ {0}
  BY QspiAssumption, Sizes
<1>1. /\ ReadData /\ RxInv /\ PhaseOK /\ TxOK
  <2>1. FsmEdge /\ ~(rise /\ fall) /\ {rise, fall} \subseteq BOOLEAN
    BY MachineRuns, TxFacts DEF RxInv
  <2>2. ~rise
    BY <2>1
  <2>3. \/ SendCmd \/ SendAddress \/ SendDummy \/ ReadPre \/ SendData
        \/ ReadData \/ End
    BY <2>1, <2>2, MachineKeeps DEF Busy
  <2>4. ReadData
    BY <2>3 DEF SendCmd, SendAddress, SendDummy, ReadPre, SendData, End
  <2> QED BY <2>4, TxFacts DEF RxInv, TxInv
<1>2. /\ c * WordBytes <= flow /\ flow < (c + 1) * WordBytes
      /\ cntFall \in 0 .. ByteBits - 1 /\ flow \in 0 .. cnt
  BY <1>1 DEF TxOK, PhaseOK
<1>3. c \in Nat
  <2>1. Len(txQ) \in Nat
    BY TxFacts
  <2> QED BY <2>1 DEF Came
<1>4. /\ cnt \in 0 .. PageBytes - 1
      /\ c * WordBytes <= cnt /\ cnt < (c + 1) * WordBytes => c + 1 = Here.pulls
  BY <1>1, <1>3, ReadingCounts
<1>5. PICK p : p = c * WordBytes
  OBVIOUS
<1>6. /\ p \in Nat /\ (c + 1) * WordBytes = p + WordBytes
      /\ ((c + 1) + 1) * WordBytes = p + WordBytes + WordBytes
  BY <1>0, <1>3, <1>5
<1>7. CASE cntFall # 0
  <2>1. state' = "READ" /\ flow' = flow /\ ~doWrite'
    BY <1>1, <1>7 DEF ReadData
  <2> QED BY <1>2, <2>1
<1>8. CASE cntFall = 0 /\ flow = cnt
  <2>1. state' = "END" /\ doWrite'
    BY <1>1, <1>8 DEF ReadData
  <2> QED BY <1>2, <1>4, <1>8, <2>1
<1>9. CASE cntFall = 0 /\ flow # cnt
  <2>1. flow' = (flow + 1) % PageBytes
    BY <1>1, <1>9 DEF ReadData, NextByte
  <2>2. flow + 1 \in 0 .. PageBytes - 1 /\ flow \in Nat
    BY <1>0, <1>2, <1>4, <1>9
  <2>3. flow' = flow + 1
    BY <1>0, <2>1, <2>2, ModSmall
  <2>4. state' = "READ" /\ (doWrite' <=> LastOfWord)
    BY <1>1, <1>9 DEF ReadData
  <2>5. LastOfWord <=> flow + 1 = (c + 1) * WordBytes
    BY <1>2, <1>3, <2>2, Split DEF LastOfWord
  <2>6. CASE LastOfWord
    <3>1. flow' = p + WordBytes
      BY <1>6, <2>3, <2>5, <2>6
    <3> QED BY <1>0, <1>6, <2>4, <2>6, <3>1
  <2>7. CASE ~LastOfWord
    <3>1. p <= flow /\ flow + 1 # p + WordBytes /\ flow < p + WordBytes
      BY <1>2, <1>5, <1>6, <2>5, <2>7
    <3>2. p <= flow' /\ flow' < p + WordBytes
      BY <1>0, <1>6, <2>2, <2>3, <3>1
    <3> QED BY <1>5, <1>6, <2>4, <2>7, <3>2
  <2> QED BY <2>6, <2>7
<1> QED BY <1>2, <1>7, <1>8, <1>9

LEMMA TxReads ==
  ASSUME TxInv, RxInv', Next, Reading, Armed'
  PROVE  TxOK'
<1>1. /\ RxInv /\ Armed /\ Here.pulls > 0 /\ TxOK /\ PhaseOK
      /\ ControlInv /\ ControlInv' /\ ProgInv
  BY TxFacts DEF Reading, TxInv, RxInv, ControlInv
<1>2. Here' = Here /\ FsmEdge /\ {rise, fall} \subseteq BOOLEAN
      /\ ~(rise /\ fall)
  BY <1>1, MachineRuns
<1>3. flush = {} /\ ~rdEn
  BY <1>1, TxFacts
<1>4. /\ Came \in Nat
      /\ Came' = Came + (IF fall /\ state = "READ" /\ doWrite' THEN 1 ELSE 0)
  BY <1>3, CameNext
<1>5. Reading'
  BY <1>1, <1>2 DEF Reading
<1>6. /\ state \in ReadHead => \/ state' \in ReadHead
                               \/ state' = "READ" /\ flow' = 0
      /\ state = "END" => state' \in {"END", "DONE"}
      /\ state = "DONE" => state' = "DONE"
      /\ state \in ReadHead \cup {"READ", "END", "DONE"}
  BY <1>1, ReadMoves
<1>7. WordBytes \in Nat \ {0} /\ 0 * WordBytes = 0 /\ (0 + 1) * WordBytes = WordBytes
  BY QspiAssumption
<1>8. ASSUME /\ state' \in ReadHead => Came' = 0
             /\ state' = "READ" =>
                  Came' * WordBytes <= flow' /\ flow' < (Came' + 1) * WordBytes
             /\ state' \in {"END", "DONE"} => Came' = Here.pulls
      PROVE  TxOK'
  BY <1>2, <1>5, <1>8 DEF TxOK, ReadHead
<1>9. CASE state \in ReadHead
  <2>1. Came' = 0
    <3>1. Came = 0 /\ state # "READ"
      BY <1>1, <1>9 DEF TxOK, Reading, ReadHead
    <3> QED BY <1>4, <3>1
  <2>2. CASE state' \in ReadHead
    BY <1>8, <2>1, <2>2 DEF ReadHead
  <2>3. CASE state' = "READ" /\ flow' = 0
    <3>1. Came' * WordBytes <= flow' /\ flow' < (Came' + 1) * WordBytes
      BY <1>7, <2>1, <2>3
    <3> QED BY <1>8, <2>3, <3>1 DEF ReadHead
  <2> QED BY <1>6, <1>9, <2>2, <2>3
<1>10. CASE state \in {"END", "DONE"}
  <2>1. Came' = Here.pulls /\ state' \in {"END", "DONE"}
    <3>1. Came = Here.pulls /\ state # "READ"
      BY <1>1, <1>10 DEF TxOK, Reading
    <3> QED BY <1>4, <1>6, <1>10, <3>1
  <2> QED BY <1>8, <2>1 DEF ReadHead
<1>11. CASE state = "READ" /\ ~fall
  <2>1. Came' = Came
    BY <1>4, <1>11
  <2>2. state' = "READ" /\ flow' = flow
    <3>1. CASE rise
      <4>1. Sample
        BY <1>2, <1>11, <3>1, MachineKeeps
      <4> QED BY <1>11, <4>1 DEF Sample
    <3>2. CASE ~rise
      <4>1. Frozen
        BY <1>2, <1>11, <3>2, MachineKeeps
      <4> QED BY <1>11, <4>1 DEF Frozen
    <3> QED BY <3>1, <3>2
  <2>3. Came * WordBytes <= flow /\ flow < (Came + 1) * WordBytes
    BY <1>1, <1>11 DEF TxOK, Reading
  <2> QED BY <1>8, <2>1, <2>2, <2>3 DEF ReadHead
<1>12. CASE state = "READ" /\ fall
  <2>1. PICK c \in Nat : c = Came
    BY <1>4
  <2>2. \/ /\ state' = "READ" /\ ~doWrite'
           /\ c * WordBytes <= flow' /\ flow' < (c + 1) * WordBytes
        \/ /\ state' = "READ" /\ doWrite'
           /\ (c + 1) * WordBytes <= flow'
           /\ flow' < ((c + 1) + 1) * WordBytes
        \/ state' = "END" /\ doWrite' /\ c + 1 = Here.pulls
    BY <1>12, <2>1, ReadFalls
  <2>3. /\ doWrite' => Came' = c + 1
        /\ ~doWrite' => Came' = c
    BY <1>4, <1>12, <2>1
  <2> QED BY <1>8, <2>2, <2>3 DEF ReadHead
<1> QED BY <1>6, <1>9, <1>10, <1>11, <1>12

(* While no words are being read they only leave the queue, one for each   *)
(* request of the program.                                                 *)
LEMMA TxQuiet ==
  ASSUME TxInv, RxInv', Next, ~Reading
  PROVE  /\ ~doWrite' /\ Len(txQ') = (IF rdEn THEN ToPull - 1 ELSE ToPull)
         /\ ToPull \in Nat
<1>1. /\ RxInv /\ ControlInv /\ ControlInv' /\ ProgInv /\ PhaseOK /\ TxOK
      /\ PageWords \in Nat
  BY TxFacts, QspiAssumption DEF TxInv, RxInv, ControlInv
<1>2. /\ ~doWrite /\ Len(txQ) = ToPull /\ Len(txQ) \in Nat
      /\ txQ \in Seq(Words) /\ wrData \in Words
      /\ flush # {} => pc = "flushed"
      /\ rdEn => pc \in {"take", "status"} /\ txQ # <<>>
  BY <1>1, TxFacts DEF TxOK
<1>3. FsmEdge /\ QueueEdge
  BY EveryEdge
<1>4. ~doWrite'
  <2>1. state # "READ"
    <3>1. ASSUME state = "READ" PROVE FALSE
      <4>1. Armed /\ CommandOK(Here)
        BY <1>1, <3>1, MachineRuns
      <4>2. Here.mode = 1 /\ Here.dir = "read"
        BY <1>1, <3>1 DEF PhaseOK
      <4>3. Here.cmd # "PP" /\ Here.pulls \in 1 .. PageWords
        BY <4>1, <4>2 DEF CommandOK
      <4>4. Here.pulls > 0
        BY <1>1, <4>3
      <4> QED BY <4>1, <4>4 DEF Reading
    <3> QED BY <3>1
  <2> QED BY <1>2, <1>3, <2>1, HandOver
<1>5. CASE flush # {}
  <2>1. "tx" \in flush /\ ~rdEn /\ pc = "flushed"
    BY <1>1, <1>2, <1>5 DEF ProgInv, PulsesOK
  <2>2. Len(txQ') = 0
    BY <1>1, <1>2, <1>3, <2>1, TxCycle
  <2>3. ToPull = 0
    BY <2>1 DEF ToPull
  <2> QED BY <1>4, <2>1, <2>2, <2>3
<1>6. CASE flush = {}
  <2>1. "tx" \notin flush
    BY <1>6
  <2> QED BY <1>1, <1>2, <1>3, <1>4, <2>1, TxCycle
<1> QED BY <1>5, <1>6

(* START is taken back by Clear only, and set while the machine is idle.   *)
LEMMA StartMoves ==
  ASSUME RxInv, RxInv', Next
  PROVE  /\ Armed /\ ~Armed' => Clear
         /\ ~Armed /\ Armed' => state' = "IDLE" /\ pc = "start"
<1>1. /\ ControlInv /\ ControlInv' /\ ProgInv /\ ProgInv' /\ ClockOK /\ HandOK
      /\ Moves /\ FsmEdge
  BY EveryEdge, ProgramMoves DEF RxInv, ControlInv
<1>2. ASSUME Armed, ~Armed' PROVE Clear
  <2>1. pc = "off" /\ call # NoCall
    BY <1>1, <1>2 DEF Moves, Armed
  <2>2. ~Wait
    BY <1>2 DEF Wait, progVars, Armed
  <2>3. ~Begin /\ ~Return /\ ~Configure /\ ~Push
    BY <2>1, ConfigureQuiet, PushFacts DEF Begin, Return, At
  <2>4. ~Poll /\ ~Pop /\ ~Take /\ ~Status
    BY <1>1, <2>1, ReadingFacts DEF Poll, Access, At
  <2> QED BY <2>2, <2>3, <2>4 DEF Next, Program
<1>3. ASSUME ~Armed, Armed' PROVE state' = "IDLE" /\ pc = "start"
  <2>1. pc = "start" /\ gap = 0
    BY <1>1, <1>3 DEF Moves
  <2>2. Elapsed = 3 * MinGap
    BY <2>1, QspiAssumption DEF Elapsed
  <2>3. SinceRise \in 1 .. 2 * Div
    BY <1>1, EveryEdge, ClockStep
  <2>4. state # "DONE"
    BY <1>1, <1>3, <2>2, <2>3, QspiAssumption DEF HandOK
  <2>5. state = "IDLE"
    BY <1>1, <1>3, <2>4 DEF HandOK
  <2>6. ~ctrl.start
    BY <1>1, <1>3, CtrlFacts DEF ProgInv
  <2> QED BY <1>1, <2>1, <2>5, <2>6, MachineWrites
<1> QED BY <1>2, <1>3

LEMMA TxArms ==
  ASSUME TxInv, RxInv', Next, ~Reading, Armed'
  PROVE  TxOK'
<1>1. /\ RxInv /\ ControlInv /\ ControlInv'
      /\ rdEn => ~Armed /\ pc \in {"take", "status"}
  BY TxFacts DEF RxInv
<1>2. ~rdEn /\ ToPull = 0 /\ (~Reading' \/ state' = "IDLE")
  <2>1. CASE Armed
    <3>1. Here' = Here
      BY <1>1, <2>1, MachineRuns
    <3>2. ~Reading'
      BY <2>1, <3>1 DEF Reading
    <3>3. ToPull = 0
      BY <2>1 DEF Armed, ToPull
    <3> QED BY <1>1, <2>1, <3>2, <3>3
  <2>2. CASE ~Armed
    <3>1. pc = "start" /\ state' = "IDLE"
      BY <1>1, <2>2, StartMoves
    <3> QED BY <1>1, <3>1 DEF ToPull
  <2> QED BY <2>1, <2>2
<1>3. ~doWrite' /\ Len(txQ') = 0
  BY <1>2, TxQuiet
<1>4. Came' = 0 /\ ToPull' = 0
  BY <1>3 DEF Came, ToPull, Armed
<1> QED BY <1>2, <1>3, <1>4 DEF TxOK

LEMMA TxClears ==
  ASSUME TxInv, RxInv', Next, Reading, ~Armed'
  PROVE  TxOK'
<1>1. /\ RxInv /\ ControlInv /\ ProgInv /\ HandOK /\ TxOK /\ Armed
      /\ Here.pulls \in 1 .. PageWords /\ Here.pushes = 0 /\ PageWords \in Nat
  BY TxFacts, ReadingCounts, QspiAssumption
     DEF TxInv, RxInv, ControlInv, Reading
<1>2. Clear
  BY <1>1, StartMoves
<1>3. /\ pc = "off" /\ Active /\ call' = call /\ call # NoCall /\ ~Armed'
      /\ GoOn /\ pc' = "pop"
  BY <1>1, <1>2, ClearFacts
<1>4. state = "DONE"
  BY <1>1, <1>3 DEF HandOK
<1>5. /\ Len(txQ) \in Nat /\ ~doWrite /\ ~rdEn /\ flush = {}
      /\ txQ \in Seq(Words) /\ wrData \in Words
  BY <1>1, <1>4, TxFacts
<1>6. Len(txQ) = Here.pulls
  BY <1>1, <1>4, <1>5 DEF TxOK, Came
<1>7. FsmEdge /\ QueueEdge /\ "tx" \notin flush
  BY <1>5, EveryEdge
<1>8. ~doWrite' /\ Len(txQ') = Here.pulls
  BY <1>1, <1>4, <1>5, <1>6, <1>7, TxCycle, HandOver
<1>9. moved = 0
  BY <1>1, <1>3 DEF ProgInv, ProgOK, PlaceOK
<1>10. Active' /\ Here' = Here /\ moved' = 0 /\ ~Reading'
  BY <1>3, <1>9 DEF GoOn, Active, Here, Reading
<1>11. ToPull' = Here.pulls
  <2>1. ToPull' = Here.pulls - 0
    BY <1>3, <1>10 DEF ToPull
  <2> QED BY <1>1, <2>1
<1> QED BY <1>8, <1>10, <1>11 DEF TxOK

(* The program pulls what there is, and no more.                           *)
LEMMA TxPulls ==
  ASSUME TxInv, RxInv', Next, ~Reading, ~Armed'
  PROVE  TxOK'
<1>0. MinGap \in Nat /\ MinGap >= 3
  BY QspiAssumption
<1>1. /\ RxInv /\ ControlInv /\ ProgInv /\ ProgInv'
      /\ rdEn => /\ pc \in {"take", "status"} /\ gap = MinGap - 1 /\ Active
                 /\ Len(txQ) = Here.pulls - moved
  BY TxFacts DEF RxInv, ControlInv
<1>2. /\ ~doWrite' /\ Len(txQ') = (IF rdEn THEN ToPull - 1 ELSE ToPull)
      /\ ToPull \in Nat
  BY TxQuiet
<1>3. ASSUME Len(txQ') = ToPull' PROVE TxOK'
  BY <1>2, <1>3 DEF TxOK, Reading
<1>4. pc \notin {"pop", "take", "status"} => ToPull = 0 /\ ~rdEn
  BY <1>1 DEF ToPull
<1>5. pc' \notin {"pop", "take", "status"} => ToPull' = 0
  BY DEF ToPull
<1>6. gap = 0 => ~rdEn
  BY <1>0, <1>1
<1>7. Active => moved \in Nat /\ Here.pulls \in Nat
  <2>1. ASSUME Active PROVE moved \in Nat /\ Here.pulls \in Nat
    <3>1. CommandOK(Here) /\ moved \in Nat /\ PageWords \in Nat
      BY <1>1, <2>1, HereOK, QspiAssumption
    <3> QED BY <3>1 DEF CommandOK
  <2> QED BY <2>1
<1>8. CASE Wait
  <2>1. UNCHANGED <<call, blk, pc, moved>> /\ RegsEdge(NoStore)
    BY <1>8 DEF Wait, progVars, Edge
  <2>2. ~rdEn'
    BY <2>1, QuietFacts
  <2>3. Here' = Here /\ (Active' <=> Active)
    BY <2>1 DEF Active, Here
  <2>4. Len(txQ') = ToPull'
    <3>1. CASE rdEn
      <4>1. ToPull = Here.pulls - moved
        BY <1>1, <1>7, <3>1 DEF ToPull
      <4>2. ToPull' = Here.pulls - moved - 1
        BY <1>1, <2>1, <2>2, <2>3, <3>1 DEF ToPull
      <4> QED BY <1>1, <1>2, <1>7, <3>1, <4>1, <4>2
    <3>2. CASE ~rdEn
      <4>1. ToPull' = ToPull
        BY <2>1, <2>2, <2>3, <3>2 DEF ToPull
      <4> QED BY <1>2, <3>2, <4>1
    <3> QED BY <3>1, <3>2
  <2> QED BY <1>3, <2>4
<1>9. CASE Begin
  <2>1. ~Active /\ pc' \in {"return", "flush", "ahead", "instr"}
    BY <1>9, FirstPlaces DEF Begin, Active
  <2>2. ToPull = 0 /\ ~rdEn
    BY <1>1, <2>1 DEF ToPull
  <2> QED BY <1>2, <1>3, <1>5, <2>1, <2>2
<1>10. CASE Return
  BY <1>2, <1>3, <1>4, <1>5, <1>10 DEF Return, At
<1>11. CASE Configure
  BY <1>2, <1>3, <1>4, <1>5, <1>11, ConfigureQuiet
<1>12. CASE Push
  BY <1>2, <1>3, <1>4, <1>5, <1>12, PushFacts
<1>13. CASE Poll
  <2>1. pc = "poll" /\ pc' \in {"poll", "off"}
    BY <1>13 DEF Poll, Access, At
  <2> QED BY <1>2, <1>3, <1>4, <1>5, <2>1
<1>14. CASE Clear
  <2>1. pc = "off" /\ Active /\ (Here.pulls = 0 => pc' = First(blk + 1))
    BY <1>1, <1>7, <1>14, ClearFacts
  <2>2. Here.pulls = 0
    BY <1>7, <2>1 DEF Reading, Armed, Active
  <2> QED BY <1>2, <1>3, <1>4, <1>5, <2>1, <2>2, FirstPlaces
<1>15. CASE Pop
  <2>1. /\ call # NoCall /\ call' = call /\ pc = "pop" /\ Active /\ gap = 0
        /\ rdEn' /\ GoOn /\ pc' \in {"take", "status"}
    <3>1. pc = "pop"
      BY <1>15 DEF Pop, Access, At
    <3> QED BY <1>1, <1>15, <3>1, ReadingFacts
  <2>2. Here' = Here /\ Active' /\ moved' = moved
    BY <2>1 DEF GoOn, Here, Active
  <2>3. ToPull = Here.pulls - moved /\ ~rdEn
    BY <1>6, <2>1 DEF ToPull
  <2>4. ToPull' = Here.pulls - moved - 0
    BY <2>1, <2>2 DEF ToPull
  <2> QED BY <1>2, <1>3, <1>7, <2>1, <2>3, <2>4
<1>16. CASE Take
  <2>1. /\ call # NoCall /\ call' = call /\ pc = "take" /\ Active /\ gap = 0
        /\ \/ pc' = "pop" /\ moved' = moved + 1 /\ blk' = blk
           \/ pc' = First(blk + 1) /\ moved + 1 = Here.pulls
    BY <1>1, <1>16, ReadingFacts
  <2>2. ToPull = Here.pulls - moved - 1 /\ ~rdEn
    BY <1>6, <2>1 DEF ToPull
  <2>3. CASE pc' = "pop" /\ moved' = moved + 1 /\ blk' = blk
    <3>1. Here' = Here /\ Active'
      BY <2>1, <2>3 DEF Here, Active
    <3>2. ToPull' = Here.pulls - (moved + 1)
      BY <2>3, <3>1 DEF ToPull
    <3> QED BY <1>2, <1>3, <1>7, <2>1, <2>2, <3>2
  <2>4. CASE pc' = First(blk + 1) /\ moved + 1 = Here.pulls
    <3>1. ToPull = 0
      BY <1>7, <2>1, <2>2, <2>4
    <3> QED BY <1>2, <1>3, <1>5, <2>2, <2>4, <3>1, FirstPlaces
  <2> QED BY <2>1, <2>3, <2>4
<1>17. CASE Status
  <2>1. /\ pc = "status" /\ Active /\ gap = 0
        /\ pc' = "instr" \/ pc' = First(blk + 1)
    BY <1>1, <1>17, ReadingFacts
  <2>2. ToPull = Here.pulls - moved - 1 /\ ~rdEn
    BY <1>6, <2>1 DEF ToPull
  <2>3. CommandOK(Here) /\ Here.cmd = "RDSR" /\ moved < Here.pulls
    BY <1>1, <2>1, ProgramPlaces DEF PlaceOK
  <2>4. Here.pulls = 1
    BY <2>3 DEF CommandOK
  <2>5. ToPull = 0
    BY <1>7, <2>1, <2>2, <2>3, <2>4
  <2> QED BY <1>2, <1>3, <1>5, <2>1, <2>2, <2>5, FirstPlaces
<1> QED BY <1>8, <1>9, <1>10, <1>11, <1>12, <1>13, <1>14, <1>15, <1>16, <1>17
        DEF Next, Program

LEMMA TxStep == ASSUME TxInv, RxInv', Next PROVE TxOK'
BY TxReads, TxArms, TxClears, TxPulls

LEMMA TxInit == Init => TxInv
<1> SUFFICES ASSUME Init PROVE TxInv
  OBVIOUS
<1>1. ~doWrite /\ txQ = <<>> /\ call = NoCall
  BY DEF Init, ControllerInit
<1>2. ~Active /\ ~Reading /\ Len(txQ) = 0
  BY <1>1 DEF Active, Reading, Armed
<1> QED BY <1>1, <1>2, DataInit DEF TxInv, TxOK, ToPull

LEMMA TxStutters == TxInv /\ UNCHANGED vars => TxOK'
<1> SUFFICES ASSUME TxInv, UNCHANGED vars PROVE TxOK'
  OBVIOUS
<1>1. /\ UNCHANGED <<call, blk, pc, moved, rdEn, txQ>>
      /\ UNCHANGED <<state, flow, doWrite>>
  BY DEF vars, progVars, regVars, queueVars, fsmVars
<1>2. Here' = Here /\ (Reading' <=> Reading) /\ Came' = Came
      /\ ToPull' = ToPull
  BY <1>1 DEF Here, Reading, Armed, Active, Came, ToPull
<1> QED BY <1>1, <1>2 DEF TxInv, TxOK

LEMMA TxInvStep == TxInv /\ [Next]_vars => TxInv'
<1> SUFFICES ASSUME TxInv, [Next]_vars PROVE TxInv'
  OBVIOUS
<1>1. DataInv' /\ RxInv'
  BY DataInvStep DEF TxInv, DataInv, WireInv
<1>2. CASE Next
  BY <1>1, <1>2, TxStep DEF TxInv
<1>3. CASE UNCHANGED vars
  BY <1>1, <1>3, TxStutters DEF TxInv
<1> QED BY <1>2, <1>3

(* The FIFOs hold what the words written, read and in hand make, in every  *)
(* state of the transaction machine: the invariant of the controller.      *)
THEOREM TxCorrect == Spec => []TxInv
BY TxInit, TxInvStep, PTL DEF Spec

(* No word is dropped at a full FIFO, taken from an empty one or flushed   *)
(* on its way, in either direction.                                        *)
THEOREM NothingLostCorrect == Spec => []NothingLost
<1>1. TxInv => NothingLost
  <2> SUFFICES ASSUME TxInv PROVE NothingLost
    OBVIOUS
  <2>1. /\ ControlInv /\ PhaseOK /\ RxOK
        /\ doWrite => Len(txQ) < PageWords /\ Armed
        /\ rdEn => txQ # <<>>
        /\ flush # {} => ~Armed /\ pc = "flushed"
    BY TxFacts DEF RxInv
  <2>2. /\ rdReq => rxQ # <<>>
        /\ rxWr => Len(rxQ) < PageWords
    BY <2>1, RxFacts
  <2>3. rxWr => flush = {}
    BY <2>1 DEF ControlInv, ProgInv, PulsesOK
  <2> QED BY <2>1, <2>2, <2>3 DEF NothingLost
<1> QED BY <1>1, TxCorrect, PTL

LEMMA QueuesBounded ==
  ASSUME TxInv
  PROVE  Len(rxQ) <= PageWords /\ Len(txQ) <= PageWords
<1>1. /\ RxInv /\ ControlInv /\ ProgInv /\ PhaseOK /\ RxOK /\ TxOK
      /\ Len(txQ) \in Nat /\ Len(rxQ) \in Nat /\ PageWords \in Nat
      /\ WordBytes \in Nat \ {0}
  BY TxFacts, RxFacts, QspiAssumption DEF TxInv, RxInv, ControlInv
<1>2. Len(rxQ) <= PageWords
  <2>1. CASE InPP
    <3>1. Popped \in 0 .. PageWords /\ moved \in 0 .. PageWords
      BY <1>1, <2>1, PushedWords DEF RxOK
    <3> QED BY <1>1, <3>1 DEF Popped
  <2>2. CASE ~InPP
    <3>1. Len(rxQ) = 0
      BY <1>1, <2>2, QueueLemma DEF RxOK
    <3> QED BY <1>1, <3>1
  <2> QED BY <2>1, <2>2
<1>3. Len(txQ) <= PageWords
  <2>1. CASE doWrite
    BY <1>1, <2>1, TxFacts
  <2>2. CASE Reading /\ ~doWrite
    <3>1. Here.pulls \in 1 .. PageWords /\ cnt \in 0 .. PageBytes - 1
      BY <1>1, <2>2, ReadingCounts
    <3>2. Came = Len(txQ)
      BY <1>1, <2>2 DEF Came
    <3>3. Armed /\ Here.pulls > 0
      BY <2>2 DEF Reading
    <3>4. state \in ReadHead \cup {"READ", "END", "DONE"}
      <4>1. Here.mode = 1 /\ Here.dir = "read" /\ Here.cmd # "PP"
        <5>1. CommandOK(Here)
          BY <1>1, <2>2, ReadingCounts
        <5> QED BY <3>3, <5>1 DEF CommandOK
      <4> QED BY <1>1, <4>1 DEF PhaseOK, HandOK, ControlInv, ActsOnRise,
              ActsOnFall, ReadHead
    <3>5. CASE state \in ReadHead
      BY <1>1, <2>2, <3>2, <3>5 DEF TxOK, ReadHead
    <3>6. CASE state \in {"END", "DONE"}
      BY <1>1, <2>2, <3>1, <3>2, <3>6 DEF TxOK
    <3>7. CASE state = "READ"
      <4>1. PICK c \in Nat : c = Len(txQ)
        BY <1>1
      <4>2. c * WordBytes <= flow /\ flow \in 0 .. cnt
        BY <1>1, <2>2, <3>2, <3>7, <4>1 DEF TxOK, PhaseOK
      <4>3. PageBytes \in Nat /\ PageBytes = PageWords * WordBytes
        BY Sizes DEF PageBytes
      <4>4. c * WordBytes < PageWords * WordBytes
        <5>1. c * WordBytes \in Nat
          BY <1>1
        <5> QED BY <3>1, <4>2, <4>3, <5>1
      <4>5. \A a, b \in Nat : a * WordBytes < b * WordBytes => a < b
        BY <1>1
      <4> QED BY <1>1, <4>1, <4>4, <4>5
    <3> QED BY <3>4, <3>5, <3>6, <3>7
  <2>3. CASE ~Reading
    <3>1. Len(txQ) = ToPull
      BY <1>1, <2>3 DEF TxOK
    <3>2. CASE Active
      <4>1. CommandOK(Here) /\ moved \in Nat
        BY <1>1, <3>2, HereOK
      <4>2. Here.pulls \in 0 .. PageWords
        BY <1>1, <4>1 DEF CommandOK
      <4> QED BY <1>1, <3>1, <3>2, <4>1, <4>2 DEF ToPull
    <3>3. CASE ~Active
      BY <1>1, <3>1, <3>3 DEF ToPull
    <3> QED BY <3>2, <3>3
  <2> QED BY <2>1, <2>2, <2>3
<1> QED BY <1>2, <1>3

(* The registers, the counters, the FIFOs and the chip hold what their     *)
(* widths and depths allow.                                                *)
THEOREM TypeCorrect == Spec => []TypeOK
<1>1. TxInv => TypeOK
  <2> SUFFICES ASSUME TxInv PROVE TypeOK
    OBVIOUS
  <2>1. /\ ClockOK /\ ProgInv /\ ProgOK /\ RegsOK /\ HandOK /\ RxOK /\ WireOK
        /\ CountersOK /\ WordsOK /\ FlagsOK
    BY DEF TxInv, DataInv, DataOK, WireInv, RxInv, ControlInv, ProgInv
  <2>2. div \in 0 .. Div - 1 /\ {clk, rise, fall} \subseteq BOOLEAN
    BY <2>1, Zenon DEF ClockOK
  <2>3. ctrl.mode \in {0, 1}
    <3>1. CASE Armed
      <4>1. ctrl = Start(Here) /\ CommandOK(Here)
        BY <2>1, <3>1, HereOK DEF RegsOK, Armed, Active
      <4> QED BY <4>1 DEF Start, CommandOK
    <3>2. CASE ~Armed
      BY <2>1, <3>2 DEF RegsOK, FlushTx, CtrlOff
    <3> QED BY <3>1, <3>2
  <2>4. /\ {rxQ, txQ} \subseteq Seq(Words)
        /\ Len(rxQ) <= PageWords /\ Len(txQ) <= PageWords
    BY <2>1, QueuesBounded, QspiAssumption DEF RxOK, WordsOK
  <2>5. {rxDin, rxOut, txOut, dataToWrite, readReg, wrData} \subseteq Words
        /\ pages \in [Pages -> [1 .. PageWords -> Words]]
    BY <2>1, Zenon DEF WordsOK
  <2>6. /\ {rxWr, rdEn, rdReq, reqSet, csN, outEn, done, doWrite, busy, wel}
             \subseteq BOOLEAN
        /\ fetchState \in {"IDLE", "DEASSERT", "LATCH", "DONE"}
    BY <2>1, Zenon DEF FlagsOK
  <2>7. state \in ActsOnRise \cup ActsOnFall
    BY <2>1 DEF HandOK
  <2>8. /\ cntRise \in 0 .. ByteBits - 1 /\ flow \in 0 .. PageBytes - 1
        /\ cntFall \in Nat /\ runs \in Nat /\ times \in Nat
        /\ instr \in Commands \cup {Nil} /\ addr \in Pages \cup {Nil}
        /\ cnt \in 0 .. PageBytes - 1
    BY <2>1, Zenon DEF CountersOK
  <2>9. frame.bits \in Nat
    <3>1. CASE csN
      BY <2>1, <3>1 DEF WireOK, NoFrame
    <3>2. CASE ~csN
      BY <2>1, <3>2 DEF WireOK, FrameOK
    <3> QED BY <3>1, <3>2
  <2>10. call \in Calls \cup {NoCall} /\ gap \in Nat
    BY <2>1, QspiAssumption DEF ProgOK
  <2> QED BY <2>2, <2>3, <2>4, <2>5, <2>6, <2>7, <2>8, <2>9, <2>10, Zenon
          DEF TypeOK
<1> QED BY <1>1, TxCorrect, PTL

-----------------------------------------------------------------------------
(* What is right for bit b of byte k of the answer to command c, and for   *)
(* its m-th word, when the chip holds ps and is, or is not, at work.  Of   *)
(* the status it matters only that a chip said to be ready is ready.       *)
AnswerOf(c, ps, k) ==
  IF c.cmd = "JEDEC" THEN Identity[1][k % WordBytes]
  ELSE ps[c.page][(k % PageBytes) \div WordBytes + 1][k % WordBytes]
RightBit(c, ps, work, k, b, x) ==
  IF c.cmd = "RDSR" THEN k = 0 /\ b = 0 /\ x = 0 => ~work
  ELSE x = AnswerOf(c, ps, k)[b]
RightWord(c, ps, work, m, word) ==
  \A i \in 0 .. WordBytes - 1, b \in 0 .. ByteBits - 1 :
     (c.cmd = "RDSR" => m = 0 /\ i = 0)
       => RightBit(c, ps, work, m * WordBytes + i, b, word[i][b])

(* clk_rise has been seen since the last clk_fall that was.                *)
Sampled == IF clk THEN div # 0 ELSE div = 0

MisoOK ==
  /\ state = "PRE" /\ fall =>
       RightBit(Here, pages, busy, 0, ByteBits - 1, miso)
  /\ state = "READ" =>
       IF ~fall THEN RightBit(Here, pages, busy, flow, cntFall, miso)
       ELSE IF cntFall # 0
       THEN RightBit(Here, pages, busy, flow, cntFall - 1, miso)
       ELSE flow # cnt =>
              RightBit(Here, pages, busy, flow + 1, ByteBits - 1, miso)

SampleOK ==
  /\ state \in {"CMD", "ADDR", "DUMMY", "PRE"} => cntRise = ByteBits - 1
  /\ state = "READ" =>
       /\ cntRise = IF ~Sampled THEN cntFall
                    ELSE IF cntFall = 0 THEN ByteBits - 1 ELSE cntFall - 1
       /\ \A i \in 0 .. flow % WordBytes, b \in 0 .. ByteBits - 1 :
            i < flow % WordBytes \/ b > cntFall \/ (b = cntFall /\ Sampled)
              => RightBit(Here, pages, busy,
                          (flow \div WordBytes) * WordBytes + i, b,
                          readReg[i][b])

(* The words pulled are the first, the words queued come behind them.      *)
Pulled == IF pc \in {"take", "status"} /\ ~rdEn THEN moved + 1
          ELSE IF pc \in {"pop", "take", "status"} THEN moved ELSE 0
WordsRight ==
  /\ doWrite => RightWord(Here, pages, busy, Len(txQ), wrData)
  /\ Active => \A j \in 1 .. Len(txQ) :
                 RightWord(Here, pages, busy, Pulled + j - 1, txQ[j])
  /\ Active /\ pc \in {"take", "status"} /\ ~rdEn =>
       RightWord(Here, pages, busy, moved, txOut)

AnswerOK == MisoOK /\ SampleOK /\ WordsRight

-----------------------------------------------------------------------------
(* What the call in progress has made of the chip.                         *)
Executed == IF Armed THEN state = "DONE" /\ csN
            ELSE pc \in {"pop", "take", "status"}
Changing == call # NoCall /\ call.op \in {"erase", "program"}
CallOK ==
  /\ pc = "return" => blk > Len(CommandsOf(call))
  /\ ~Changing => ~busy
  /\ Changing =>
       /\ blk \in Nat \ {0}
       /\ blk = 1 => ~busy /\ times = 0 /\ (Executed => wel)
       /\ blk = 2 /\ ~Executed => ~busy /\ times = 0 /\ wel
       /\ blk = 2 /\ Executed => times = 1
       /\ blk > 2 => times = 1
       /\ pc = "return" => ~busy

BufOK ==
  /\ buf \in Seq(Words)
  /\ call # NoCall /\ ~Changing =>
       Len(buf) = IF pc # "return" THEN moved
                  ELSE IF call.op = "init" THEN 1 ELSE call.words

-----------------------------------------------------------------------------
(* Which command each call has at each place.                              *)
LEMMA CommandAt ==
  ASSUME NEW c \in Calls, NEW n \in 1 .. Len(CommandsOf(c))
  PROVE  /\ n \in 1 .. 3
         /\ c.op = "init" =>
              /\ CommandsOf(c)[n].cmd = IF n = 1 THEN "RSTEN"
                                        ELSE IF n = 2 THEN "RST" ELSE "JEDEC"
              /\ n = 3 => CommandsOf(c)[n].pulls = 1
         /\ c.op \in {"erase", "program"} =>
              /\ n = 1 => CommandsOf(c)[n].cmd = "WREN"
              /\ n = 2 => CommandsOf(c)[n].page = c.page
              /\ n = 3 => CommandsOf(c)[n].cmd = "RDSR"
         /\ c.op = "erase" /\ n = 2 => CommandsOf(c)[n].cmd = "SE"
         /\ c.op = "program" /\ n = 2 =>
              CommandsOf(c)[n].cmd = "PP" /\ CommandsOf(c)[n].data = c.data
         /\ c.op \in {"read", "fast"} =>
              /\ n = 1 /\ CommandsOf(c)[n].cmd \in {"READ", "FAST"}
              /\ CommandsOf(c)[n].page = c.page
              /\ CommandsOf(c)[n].pulls = c.words
<1>1. c.op \in {"init", "erase", "program", "read", "fast"}
  BY CommandsAre
<1>2. CASE c.op = "init"
  <2>1. CommandsOf(c) = FlashInit /\ n \in 1 .. 3
    BY <1>2, CommandsAre
  <2> QED BY <1>2, <2>1 DEF FlashInit, Plain, Command
<1>3. CASE c.op = "erase"
  <2>1. CommandsOf(c) = FlashSectorErase(c.page) /\ n \in 1 .. 3
    BY <1>3, CommandsAre
  <2> QED BY <1>3, <2>1 DEF FlashSectorErase, WriteEnable, WaitFlashReady,
             Plain, Command
<1>4. CASE c.op = "program"
  <2>1. /\ CommandsOf(c) = FlashPageProgram(c.page, c.data, c.ahead)
        /\ n \in 1 .. 3
    BY <1>4, CommandsAre
  <2> QED BY <1>4, <2>1 DEF FlashPageProgram, WriteEnable, WaitFlashReady,
             ProgramPage, Plain, Command
<1>5. CASE c.op = "read"
  <2>1. /\ CommandsOf(c) = ReadFlash("READ", c.page, c.words, 0)
        /\ Len(CommandsOf(c)) = 1
    BY <1>5, CommandsAre
  <2> QED BY <1>5, <2>1 DEF ReadFlash, Command
<1>6. CASE c.op = "fast"
  <2>1. /\ CommandsOf(c) = ReadFlash("FAST", c.page, c.words, DummyBits)
        /\ Len(CommandsOf(c)) = 1
    BY <1>6, CommandsAre
  <2> QED BY <1>6, <2>1 DEF ReadFlash, Command
<1> QED BY <1>1, <1>2, <1>3, <1>4, <1>5, <1>6

LEMMA HereIs ==
  ASSUME ProgInv, Active
  PROVE  /\ call \in Calls /\ call # NoCall /\ blk \in 1 .. 3
         /\ blk <= Len(CommandsOf(call)) /\ CommandOK(Here)
         /\ call.op \in {"init", "erase", "program", "read", "fast"}
         /\ call.op = "init" =>
              /\ Here.cmd = IF blk = 1 THEN "RSTEN"
                            ELSE IF blk = 2 THEN "RST" ELSE "JEDEC"
              /\ blk = 3 => Here.pulls = 1
         /\ Changing =>
              /\ blk = 1 => Here.cmd = "WREN"
              /\ blk = 2 => Here.page = call.page
                            /\ Here.cmd = IF call.op = "erase" THEN "SE" ELSE "PP"
              /\ blk = 2 /\ call.op = "program" => Here.data = call.data
              /\ blk = 3 => Here.cmd = "RDSR"
         /\ call.op \in {"read", "fast"} =>
              /\ blk = 1 /\ Here.cmd \in {"READ", "FAST"}
              /\ Here.page = call.page /\ Here.pulls = call.words
<1>1. /\ call \in Calls /\ call # NoCall /\ CommandOK(Here)
      /\ blk \in 1 .. Len(CommandsOf(call))
  BY HereOK DEF Active, ProgInv, ProgOK, PlaceOK
<1>2. call.op \in {"init", "erase", "program", "read", "fast"}
  BY <1>1, CommandsAre
<1>3. blk \in 1 .. 3 /\ blk <= Len(CommandsOf(call))
  <2>1. Len(CommandsOf(call)) \in Nat
    BY <1>1, <1>2, CommandsAre
  <2> QED BY <1>1, <2>1, CommandAt
<1> QED BY <1>1, <1>2, <1>3, CommandAt DEF Here, Changing

-----------------------------------------------------------------------------
(* The chip is deselected at one edge only, and has the whole command then. *)
LEMMA Deselects ==
  ASSUME WireInv, RxInv', Next, Deselected
  PROVE  /\ Armed /\ Armed' /\ Active /\ call' = call /\ blk' = blk
         /\ Here' = Here /\ CommandOK(Here)
         /\ state = "DONE" /\ state' = "DONE" /\ ~outEn /\ ~csN /\ csN'
         /\ FrameOK
<1>1. RxInv /\ ControlInv /\ ControlInv' /\ ~csN /\ csN' /\ WireOK
  BY DEF WireInv, RxInv, Deselected
<1>2. /\ state \in Busy \cup {"DONE"} /\ Armed /\ Here' = Here
      /\ CommandOK(Here) /\ (state = "DONE" => ~outEn)
  BY <1>1, SelectedFacts
<1>3. FsmEdge /\ ctrl.start /\ {rise, fall} \subseteq BOOLEAN
      /\ ~(rise /\ fall)
  BY <1>1, <1>2, MachineRuns
<1>4. state = "DONE"
  BY <1>1, <1>2, <1>3, FsmControl
<1>5. state' = "DONE"
  BY <1>3, <1>4, MachineWrites
<1>6. Armed'
  <2>1. pc # "off"
    BY <1>1, <1>2, <1>4 DEF ControlInv, HandOK
  <2>2. Moves
    BY <1>1, MachineRuns
  <2> QED BY <1>2, <2>1, <2>2 DEF Moves
<1>7. call' = call /\ blk' = blk
  BY <1>1, <1>2, <1>6, MachineRuns
<1> QED BY <1>1, <1>2, <1>4, <1>5, <1>6, <1>7 DEF WireOK, Armed, Active

LEMMA WholeCommand ==
  ASSUME WireInv, RxInv', Next, Deselected
  PROVE  /\ frame.ok /\ frame.cmd = Here.cmd
         /\ Here.mode = 0 \/ Here.cmd = "PP" => Whole
         /\ Addressed(Here.cmd) => frame.addr = Here.page
         /\ Here.cmd = "PP" =>
              /\ frame.data \in Seq(Bytes) /\ Len(frame.data) = PageBytes
              /\ \A j \in 1 .. PageBytes : frame.data[j] = ByteAt(j - 1)
<1>0. /\ {CmdBits, AddrBits, DummyBits} \subseteq Nat \ {0}
      /\ ByteBits \in Nat \ {0} /\ PageBytes \in Nat \ {0}
      /\ Nil \notin Commands
  BY QspiAssumption, Sizes
<1>1. /\ Armed /\ CommandOK(Here) /\ state = "DONE" /\ ~outEn /\ FrameOK
  BY Deselects
<1>2. /\ HeadBits(Here.cmd) \in Nat /\ HeadBits(Here.cmd) >= CmdBits
      /\ Addressed(Here.cmd) => HeadBits(Here.cmd) >= CmdBits + AddrBits
  BY <1>1, HeadFacts
<1>3. frame.bits = HeadBits(Here.cmd) + DataBits /\ frame.bits \in Nat
      /\ Holds(frame, frame.bits)
  <2>1. Due = 0
    BY <1>1, DueFacts
  <2>2. Sent = HeadBits(Here.cmd) + DataBits
    BY <1>1, SentFacts
  <2> QED BY <1>1, <2>1, <2>2 DEF FrameOK
<1>4. PICK n \in Nat : n = frame.bits
  BY <1>3
<1>5. /\ frame.ok
      /\ frame.cmd = IF n = 0 THEN Nil ELSE Here.cmd
      /\ frame.addr = IF n <= CmdBits THEN Nil ELSE Here.page
      /\ frame.data \in Seq(Bytes) /\ Len(frame.data) = DataBytes(n)
      /\ \A j \in 1 .. Len(frame.data) : frame.data[j] = ByteAt(j - 1)
  BY <1>3, <1>4 DEF Holds
<1>6. /\ Here.mode \in {0, 1}
      /\ Here.count \in 0 .. PageBytes - 1
      /\ Here.mode = 0 => DataBits = 0
      /\ Here.mode = 1 => DataBits = (Here.count + 1) * ByteBits
                            + (IF Here.dir = "write" THEN 0 ELSE 1)
  BY <1>1 DEF CommandOK, DataBits
<1>7. DataBits \in Nat
  <2>1. (Here.count + 1) * ByteBits \in Nat
    BY <1>0, <1>6
  <2> QED BY <1>6, <2>1
<1>8. n # 0 /\ frame.cmd = Here.cmd
  BY <1>0, <1>2, <1>3, <1>4, <1>5, <1>7
<1>9. ASSUME Addressed(Here.cmd) PROVE frame.addr = Here.page
  BY <1>0, <1>2, <1>3, <1>4, <1>5, <1>7, <1>9
<1>10. ASSUME Here.cmd = "PP"
       PROVE  /\ frame.data \in Seq(Bytes) /\ Len(frame.data) = PageBytes
              /\ \A j \in 1 .. PageBytes : frame.data[j] = ByteAt(j - 1)
              /\ frame.bits > HeadBits("PP")
              /\ (frame.bits - HeadBits("PP")) % ByteBits = 0
  <2>1. Here.count = PageBytes - 1 /\ Here.dir = "write" /\ Here.mode = 1
    BY <1>1, <1>10 DEF CommandOK
  <2>2. Here.count + 1 = PageBytes
    BY <1>0, <2>1
  <2>3. DataBits = PageBytes * ByteBits + 0
    BY <1>6, <2>1, <2>2
  <2>4. n = HeadBits("PP") + (PageBytes * ByteBits + 0)
    BY <1>3, <1>4, <1>10, <2>3
  <2>5. 0 \in 0 .. ByteBits - 1
    BY <1>0
  <2>6. DataBytes(n) = PageBytes
    BY <1>0, <1>10, <2>4, <2>5, ByteCount
  <2>7. PICK p : p = PageBytes * ByteBits + 0
    OBVIOUS
  <2>8. p \in Nat \ {0} /\ p % ByteBits = 0
    <3>1. (PageBytes * ByteBits + 0) % ByteBits = 0
      BY <1>0, <2>5, DivUnique
    <3>2. PageBytes * ByteBits \in Nat \ {0}
      BY <1>0
    <3> QED BY <2>7, <3>1, <3>2
  <2>9. frame.bits - HeadBits("PP") = p /\ HeadBits("PP") \in Nat
    BY <1>2, <1>4, <1>10, <2>4, <2>7, <2>8
  <2>10. frame.bits > HeadBits("PP")
    BY <1>3, <2>8, <2>9
  <2> QED BY <1>5, <2>6, <2>8, <2>9, <2>10
<1>11. ASSUME Here.mode = 0 PROVE Whole
  <2>1. frame.bits = HeadBits(Here.cmd) + 0
    BY <1>3, <1>6, <1>11
  <2>2. frame.bits = HeadBits(frame.cmd) /\ frame.cmd # Nil
    BY <1>0, <1>1, <1>2, <1>8, <2>1 DEF CommandOK
  <2>3. frame.cmd # "PP"
    BY <1>1, <1>8, <1>11 DEF CommandOK
  <2> QED BY <1>5, <2>2, <2>3 DEF Whole
<1>12. ASSUME Here.cmd = "PP" PROVE Whole
  <2>1. frame.cmd = "PP" /\ frame.cmd # Nil
    BY <1>0, <1>1, <1>8, <1>12 DEF CommandOK
  <2> QED BY <1>5, <1>10, <1>12, <2>1 DEF Whole
<1> QED BY <1>5, <1>8, <1>9, <1>10, <1>11, <1>12

-----------------------------------------------------------------------------
(* The bytes the chip has taken are those of the page to be programmed.    *)
LEMMA WholePage ==
  ASSUME WireInv, RxInv', Next, Deselected, Here.cmd = "PP"
  PROVE  WordsOf(frame.data) = Here.data
<1>0. /\ WordBytes \in Nat \ {0} /\ PageWords \in Nat \ {0}
      /\ PageBytes = PageWords * WordBytes
  BY QspiAssumption DEF PageBytes
<1>1. /\ Len(frame.data) = PageBytes
      /\ \A j \in 1 .. PageBytes : frame.data[j] = ByteAt(j - 1)
      /\ Here.data \in [1 .. PageWords -> Words]
  BY Deselects, WholeCommand DEF CommandOK
<1>2. ASSUME NEW w \in 1 .. PageWords, NEW i \in 0 .. WordBytes - 1,
             NEW k, k = (w - 1) * WordBytes + i + 1
      PROVE  /\ k <= Len(frame.data)
             /\ frame.data[k] = Here.data[w][i]
  <2>1. PICK v \in Nat : v = w - 1
    BY <1>0
  <2>2. (v * WordBytes + i) % WordBytes = i
          /\ (v * WordBytes + i) \div WordBytes = v
    BY <1>0, DivUnique
  <2>3. v + 1 <= PageWords
    BY <2>1
  <2>4. (v + 1) * WordBytes <= PageWords * WordBytes
    BY <1>0, <2>3
  <2>5. (v + 1) * WordBytes = v * WordBytes + WordBytes
    BY <1>0
  <2>6. PICK p \in Nat : p = v * WordBytes
    BY <1>0
  <2>7. k = p + i + 1 /\ k \in Nat
    BY <1>0, <1>2, <2>1, <2>6
  <2>8. PageBytes \in Nat /\ p + WordBytes <= PageBytes
    BY <1>0, <2>4, <2>5, <2>6
  <2>9. k \in 1 .. PageBytes /\ k - 1 = v * WordBytes + i
    BY <1>0, <2>6, <2>7, <2>8
  <2>10. frame.data[k] = Here.data[v + 1][i]
    BY <1>1, <2>2, <2>9 DEF ByteAt
  <2> QED BY <1>1, <2>1, <2>8, <2>9, <2>10
<1>3. ASSUME NEW w \in 1 .. PageWords
      PROVE  WordsOf(frame.data)[w] = Here.data[w]
  <2>1. WordsOf(frame.data)[w] = [i \in 0 .. WordBytes - 1 |-> Here.data[w][i]]
    BY <1>2 DEF WordsOf
  <2>2. Here.data[w] \in Words
    BY <1>1
  <2> QED BY <2>1, <2>2 DEF Words
<1>4. WordsOf(frame.data) = [w \in 1 .. PageWords |-> WordsOf(frame.data)[w]]
  BY DEF WordsOf
<1> QED BY <1>1, <1>3, <1>4

-----------------------------------------------------------------------------
(* What a step does to the chip.                                           *)
LEMMA ChipKeeps ==
  ASSUME Next, FlagsOK
  PROVE  /\ ~Deselected => pages' = pages /\ (busy' => busy)
         /\ ~Deselected /\ ~busy => (wel' <=> wel)
         /\ busy => pages' = pages
         /\ Deselected /\ ~busy => Execute
<1>1. ChipEdge
  BY EveryEdge
<1>2. busy => Work
  BY <1>1 DEF ChipEdge
<1>3. ~busy => IF Deselected THEN Execute ELSE UNCHANGED <<busy, wel, pages>>
  BY <1>1 DEF ChipEdge
<1> QED BY <1>2, <1>3 DEF Work

(* How often the call changes the contents is counted as it happens.       *)
LEMMA TimesCounted == Next => Begin \/ CountChange
<1>1. \A place, store, to : Access(place, store, to) => CountChange
  BY DEF Access
<1>2. \A place, reg, val, to : Set(place, reg, val, to) => CountChange
  BY <1>1 DEF Set
<1>3. Configure \/ Push \/ Poll \/ Clear => CountChange
  BY <1>1, <1>2 DEF Configure, Push, Poll, Clear
<1>4. Pop \/ Take \/ Status => CountChange
  BY <1>1 DEF Pop, Take, Status
<1>5. Return \/ Wait => CountChange
  BY DEF Return, Wait
<1> QED BY <1>3, <1>4, <1>5 DEF Next, Program

(* A command that changes nothing ...                                      *)
LEMMA ChipAnswers ==
  ASSUME WireInv, RxInv', Next, FlagsOK,
         Deselected => Here.cmd \notin {"SE", "PP"}
  PROVE  /\ pages' = pages /\ (busy' => busy) /\ (Begin \/ times' = times)
         /\ ~Deselected /\ ~busy => (wel' <=> wel)
         /\ Deselected /\ ~busy /\ Here.cmd = "WREN" => wel'
<1>1. Begin \/ CountChange
  BY TimesCounted
<1>2. CASE ~Deselected
  BY <1>1, <1>2, ChipKeeps DEF CountChange, Changes
<1>3. CASE Deselected /\ busy
  BY <1>1, <1>3, ChipKeeps DEF CountChange, Changes
<1>4. CASE Deselected /\ ~busy
  <2>1. Execute /\ frame.cmd = Here.cmd /\ CommandOK(Here)
    BY <1>4, ChipKeeps, WholeCommand, Deselects
  <2>2. ~Modifies(frame.cmd)
    BY <1>4, <2>1 DEF Modifies
  <2>3. busy' = FALSE /\ pages' = pages
    BY <2>1, <2>2 DEF Execute
  <2>4. Begin \/ times' = times
    BY <1>1, <2>2 DEF CountChange, Changes
  <2>5. ASSUME Here.cmd = "WREN" PROVE wel'
    <3>1. Whole
      BY <1>4, <2>1, <2>5, WholeCommand DEF CommandOK
    <3> QED BY <2>1, <2>5, <3>1 DEF Execute
  <2> QED BY <1>4, <2>3, <2>4, <2>5
<1> QED BY <1>2, <1>3, <1>4

(* ... and one that does.                                                  *)
LEMMA ChipChanges ==
  ASSUME WireInv, RxInv', Next, FlagsOK, Deselected, ~busy, wel,
         Here.cmd \in {"SE", "PP"}
  PROVE  /\ busy' /\ times' = times + 1
         /\ pages' = [p \in Pages |->
              IF Here.cmd = "SE" /\ SectorOf[p] = SectorOf[Here.page]
              THEN Erased
              ELSE IF Here.cmd = "PP" /\ p = Here.page
              THEN Combine(pages[p], Here.data) ELSE pages[p]]
<1>1. /\ Execute /\ frame.cmd = Here.cmd /\ CommandOK(Here)
      /\ frame.addr = Here.page /\ Active
  BY ChipKeeps, WholeCommand, Deselects DEF Addressed
<1>2. Modifies(frame.cmd)
  BY <1>1, WholeCommand DEF Modifies, CommandOK
<1>3. ~Begin
  BY <1>1 DEF Begin, Active
<1>4. times' = times + 1
  BY <1>2, <1>3, TimesCounted DEF CountChange, Changes
<1>5. CASE Here.cmd = "SE"
  BY <1>1, <1>2, <1>4, <1>5 DEF Execute
<1>6. CASE Here.cmd = "PP"
  <2>1. WordsOf(frame.data) = Here.data
    BY <1>6, WholePage
  <2> QED BY <1>1, <1>2, <1>4, <1>6, <2>1 DEF Execute
<1> QED BY <1>5, <1>6

-----------------------------------------------------------------------------
(* A command is executed when the chip is deselected, and stays executed.  *)
LEMMA ExecutedMoves ==
  ASSUME RxInv, RxInv', Next, Armed, Armed'
  PROVE  (Executed' => Executed \/ Deselected) /\ (Executed => Executed')
<1>1. /\ ControlInv /\ HandOK /\ HandOK' /\ ControlInv'
      /\ FsmEdge /\ ctrl.start
  BY MachineRuns DEF RxInv, ControlInv
<1>2. state \in Busy => ~csN
  BY <1>1 DEF HandOK
<1>3. Executed <=> state = "DONE" /\ csN
  BY DEF Executed
<1>4. Executed' <=> state' = "DONE" /\ csN'
  BY DEF Executed
<1>5. CASE state = "DONE"
  BY <1>1, <1>3, <1>4, <1>5, FsmControl DEF Still, Deselected
<1>6. CASE state \in Busy
  <2>1. ~csN /\ state # "DONE"
    BY <1>2, <1>6 DEF Busy
  <2>2. ~csN'
    BY <1>1, <1>6, <2>1, FsmControl
  <2> QED BY <1>3, <1>4, <2>1, <2>2
<1>7. CASE state \in {"IDLE", "CS"}
  <2>1. state = "CS" => cntRise = 0
    BY <1>1 DEF HandOK
  <2>2. state' # "DONE"
    BY <1>1, <1>7, <2>1, FsmControl DEF Still
  <2> QED BY <1>3, <1>4, <1>7, <2>2
<1> QED BY <1>1, <1>5, <1>6, <1>7 DEF HandOK, ActsOnRise, ActsOnFall, Busy

(* What each step does to the place in the call.                           *)
SameStep == /\ call' = call /\ blk' = blk
            /\ pc' = "return" <=> pc = "return"
            /\ Executed' => Executed \/ Deselected
            /\ Active /\ Executed /\ ~Executed' => Status
NextStep == /\ Active /\ call' = call /\ blk' = blk + 1 /\ moved' = 0
            /\ Executed /\ ~Executed' /\ ~Armed' /\ ~Deselected
            /\ pc' = First(blk + 1)
            /\ \/ Clear /\ Here.pulls = 0
               \/ Take /\ moved + 1 = Here.pulls
               \/ Status /\ txOut[0][0] # 1

LEMMA ArmedPlaces ==
  ASSUME WireInv, RxInv', Next
  PROVE  /\ Deselected => Armed /\ Armed' /\ ~Executed
         /\ Armed => Active
         /\ ~Armed => (Executed <=> pc \in {"pop", "take", "status"})
         /\ ~Armed' => (Executed' <=> pc' \in {"pop", "take", "status"})
         /\ Armed /\ ~Armed' => Clear /\ Executed
         /\ ~Armed /\ Armed' => ~Executed'
         /\ Armed /\ Armed' => /\ Executed' => Executed \/ Deselected
                               /\ Executed => Executed'
<1>1. RxInv /\ ControlInv /\ HandOK /\ ProgInv
  BY DEF WireInv, RxInv, ControlInv
<1>2. Deselected => Armed /\ Armed' /\ ~Executed
  BY Deselects DEF Executed
<1>3. Armed => Active
  BY DEF Armed, Active
<1>4. /\ ~Armed => (Executed <=> pc \in {"pop", "take", "status"})
      /\ ~Armed' => (Executed' <=> pc' \in {"pop", "take", "status"})
  BY DEF Executed
<1>5. Armed /\ ~Armed' => Clear /\ Executed
  <2>1. Armed /\ ~Armed' => Clear
    BY <1>1, StartMoves
  <2>2. Clear => pc = "off"
    BY <1>1, ClearFacts
  <2>3. Armed /\ pc = "off" => state = "DONE" /\ csN
    BY <1>1 DEF HandOK
  <2> QED BY <2>1, <2>2, <2>3 DEF Executed
<1>6. ~Armed /\ Armed' => ~Executed'
  <2>1. ~Armed /\ Armed' => state' = "IDLE"
    BY <1>1, StartMoves
  <2> QED BY <2>1 DEF Executed
<1> QED BY <1>1, <1>2, <1>3, <1>4, <1>5, <1>6, ExecutedMoves

(* Every step begins a call, returns from one, goes on with a command or   *)
(* goes on to the next one, once the one before has been executed.         *)
LEMMA Advances ==
  ASSUME WireInv, RxInv', Next
  PROVE  Begin \/ Return \/ SameStep \/ NextStep
<1>1. RxInv /\ ControlInv /\ HandOK /\ ProgInv
  BY DEF WireInv, RxInv, ControlInv
<1>2. /\ Armed => call # NoCall /\ pc \in {"rest", "poll", "off"}
      /\ pc \notin {"rest", "poll", "off"} => ~Armed
      /\ pc' \notin {"rest", "poll", "off"} => ~Armed'
      /\ call # NoCall /\ pc \in {"rest", "poll", "off"} => Armed
      /\ call' # NoCall /\ pc' \in {"rest", "poll", "off"} => Armed'
  BY DEF Armed
<1>3. First(blk + 1) \in {"return", "flush", "ahead", "instr"}
  BY FirstPlaces
<1>4. CASE Wait
  <2>1. call' = call /\ blk' = blk /\ pc' = pc
    BY <1>4 DEF Wait, progVars
  <2>2. Armed' <=> Armed
    BY <2>1 DEF Armed
  <2> QED BY <2>1, <2>2, ArmedPlaces DEF SameStep
<1>5. CASE Configure
  <2>1. /\ call' = call /\ blk' = blk
        /\ pc \in {"flush", "flushed", "instr", "addr", "count", "start"}
        /\ pc' \in {"flushed", "instr", "addr", "count", "start", "rest",
                    "poll"}
    BY <1>5, ConfigureQuiet
  <2>2. ~Executed /\ ~Executed'
    BY <1>2, <2>1, ArmedPlaces
  <2> QED BY <2>1, <2>2 DEF SameStep
<1>6. CASE Push
  <2>1. /\ call' = call /\ blk' = blk /\ call # NoCall
        /\ \/ pc = "ahead" /\ pc' \in {"ahead", "instr"}
           \/ pc = "rest" /\ pc' \in {"rest", "poll"}
    BY <1>6, PushFacts
  <2>2. CASE pc = "ahead"
    BY <1>2, <2>1, <2>2, ArmedPlaces DEF SameStep
  <2>3. CASE pc = "rest"
    <3>1. Armed /\ Armed' /\ pc # "return" /\ pc' # "return"
      BY <1>2, <2>1, <2>3
    <3> QED BY <2>1, <3>1, ArmedPlaces DEF SameStep
  <2> QED BY <2>1, <2>2, <2>3
<1>7. CASE Poll
  <2>1. /\ call' = call /\ blk' = blk /\ call # NoCall
        /\ pc = "poll" /\ pc' \in {"poll", "off"}
    BY <1>7, AccessFacts DEF Poll, GoOn
  <2>2. Armed /\ Armed' /\ pc # "return" /\ pc' # "return"
    BY <1>2, <2>1
  <2> QED BY <2>1, <2>2, ArmedPlaces DEF SameStep
<1>8. CASE Clear
  <2>1. /\ call # NoCall /\ call' = call /\ pc = "off" /\ Active /\ ~Armed'
        /\ \/ NextCommand /\ pc' = First(blk + 1) /\ Here.pulls = 0
           \/ GoOn /\ pc' = "pop"
    BY <1>1, <1>8, ClearFacts
  <2>2. Armed /\ Executed /\ ~Deselected
    BY <1>2, <2>1, ArmedPlaces
  <2>3. CASE NextCommand /\ pc' = First(blk + 1) /\ Here.pulls = 0
    <3>1. ~Executed'
      BY <1>3, <2>1, <2>3, ArmedPlaces
    <3> QED BY <1>8, <2>1, <2>2, <2>3, <3>1 DEF NextStep, NextCommand
  <2>4. CASE GoOn /\ pc' = "pop"
    <3>1. Executed'
      BY <2>1, <2>4, ArmedPlaces
    <3> QED BY <2>1, <2>2, <2>4, <3>1 DEF SameStep, GoOn
  <2> QED BY <2>1, <2>3, <2>4
<1>9. CASE Pop \/ Take \/ Status
  <2>1. /\ call # NoCall /\ call' = call
        /\ pc \in {"pop", "take", "status"} /\ Active /\ ~Armed'
    BY <1>1, <1>9, ReadingFacts
  <2>2. ~Armed /\ Executed /\ ~Deselected
    BY <1>2, <2>1, ArmedPlaces
  <2>3. \/ blk' = blk /\ pc' \in {"status", "take", "pop"}
        \/ blk' = blk /\ pc' = "instr" /\ Status
        \/ NextCommand /\ pc' = First(blk + 1)
              /\ \/ Take /\ moved + 1 = Here.pulls
                 \/ Status /\ txOut[0][0] # 1
    <3>1. CASE Pop
      BY <1>1, <3>1, ReadingFacts DEF GoOn
    <3>2. CASE Take
      <4>1. \/ blk' = blk /\ pc' = "pop"
            \/ NextCommand /\ pc' = First(blk + 1) /\ moved + 1 = Here.pulls
        BY <1>1, <3>2, ReadingFacts
      <4>2. CASE blk' = blk /\ pc' = "pop"
        BY <4>2
      <4>3. CASE NextCommand /\ pc' = First(blk + 1) /\ moved + 1 = Here.pulls
        BY <3>2, <4>3
      <4> QED BY <4>1, <4>2, <4>3
    <3>3. CASE Status
      <4>1. \/ blk' = blk /\ pc' = "instr"
            \/ NextCommand /\ pc' = First(blk + 1) /\ txOut[0][0] # 1
        BY <1>1, <3>3, ReadingFacts DEF GoOn
      <4> QED BY <3>3, <4>1
    <3> QED BY <1>9, <3>1, <3>2, <3>3
  <2>4. CASE blk' = blk /\ pc' \in {"status", "take", "pop"}
    <3>1. Executed'
      BY <2>1, <2>4, ArmedPlaces
    <3> QED BY <2>1, <2>2, <2>4, <3>1 DEF SameStep
  <2>5. CASE blk' = blk /\ pc' = "instr" /\ Status
    <3>1. ~Executed'
      BY <2>1, <2>5, ArmedPlaces
    <3> QED BY <2>1, <2>2, <2>5, <3>1 DEF SameStep
  <2>6. CASE NextCommand /\ pc' = First(blk + 1)
               /\ (\/ Take /\ moved + 1 = Here.pulls
                   \/ Status /\ txOut[0][0] # 1)
    <3>1. ~Executed'
      BY <1>3, <2>1, <2>6, ArmedPlaces
    <3> QED BY <2>1, <2>2, <2>6, <3>1 DEF NextStep, NextCommand
  <2> QED BY <2>3, <2>4, <2>5, <2>6
<1> QED BY <1>4, <1>5, <1>6, <1>7, <1>8, <1>9 DEF Next, Program

-----------------------------------------------------------------------------
(* Which commands change the contents of the chip.                         *)
LEMMA Deselecting ==
  ASSUME WireInv, RxInv', Next, CallOK, Deselected
  PROVE  /\ Active /\ ~Executed
         /\ Here.cmd \in {"SE", "PP"} <=> Changing /\ blk = 2
         /\ Changing /\ blk = 2 =>
              ~busy /\ wel /\ times = 0 /\ Here.page = call.page
         /\ Changing /\ blk = 1 => Here.cmd = "WREN" /\ ~busy
<1>1. Active /\ ~Executed /\ ProgInv
  BY Deselects, ArmedPlaces DEF WireInv, RxInv, ControlInv
<1>2. Here.cmd \in {"SE", "PP"} <=> Changing /\ blk = 2
  <2>1. CASE Changing
    BY <1>1, <2>1, HereIs
  <2>2. CASE ~Changing
    BY <1>1, <2>2, HereIs DEF Changing
  <2> QED BY <2>1, <2>2
<1> QED BY <1>1, <1>2, HereIs DEF CallOK

(* What a step that goes on with a command does to the chip.               *)
LEMMA SameChip ==
  ASSUME DataInv, RxInv', Next, CallOK, ~(Deselected /\ Changing /\ blk = 2)
  PROVE  /\ pages' = pages /\ (busy' => busy)
         /\ Begin \/ times' = times
         /\ ~Deselected /\ ~busy => (wel' <=> wel)
         /\ Deselected /\ Changing /\ blk = 1 => wel'
<1>1. WireInv /\ FlagsOK
  BY DEF DataInv, DataOK
<1>2. Deselected => Here.cmd \notin {"SE", "PP"}
  BY <1>1, Deselecting
<1> QED BY <1>1, <1>2, ChipAnswers, Deselecting

LEMMA CallBegins ==
  ASSUME DataInv, RxInv', CallOK, Begin
  PROVE  CallOK' /\ pages' = pages /\ (busy' <=> busy)
<1>1. /\ call = NoCall /\ call' \in Calls /\ pc' = First(1)' /\ blk' = 1
      /\ times' = 0 /\ Next
  BY DEF Begin, Next
<1>2. WireInv /\ FlagsOK /\ FlagsOK
  BY DEF DataInv, DataOK
<1>3. ~Changing /\ ~busy /\ ~Deselected
  BY <1>1, <1>2, Deselects DEF Changing, CallOK, Active
<1>4. pages' = pages /\ ~busy'
  BY <1>1, <1>3, SameChip
<1>5. ~Executed'
  <2>1. ~Armed' /\ pc' \notin {"pop", "take", "status"}
    BY <1>1, FirstPlaces DEF Armed
  <2> QED BY <1>1, <1>2, <2>1, ArmedPlaces
<1>6. pc' = "return" => blk' > Len(CommandsOf(call'))
  BY <1>1 DEF First
<1> QED BY <1>1, <1>3, <1>4, <1>5, <1>6 DEF CallOK

LEMMA CallReturns ==
  ASSUME DataInv, RxInv', CallOK, Return
  PROVE  /\ CallOK' /\ pages' = pages /\ (busy' <=> busy)
         /\ times' = times /\ ~busy
<1>1. call' = NoCall /\ pc = "return" /\ pc' = "idle" /\ Next
  BY DEF Return, Next, Program, At
<1>2. WireInv /\ FlagsOK /\ ~Begin
  BY <1>1 DEF DataInv, DataOK, Return, At, Begin
<1>3. ~busy /\ ~Deselected
  BY <1>1, <1>2, Deselects DEF CallOK, Active
<1>4. pages' = pages /\ ~busy' /\ times' = times
  BY <1>1, <1>2, <1>3, SameChip
<1> QED BY <1>1, <1>3, <1>4 DEF CallOK, Changing

(* The step in which the chip starts to change.                            *)
StartsChange == Deselected /\ Changing /\ blk = 2
LEMMA CallPerforms ==
  ASSUME DataInv, RxInv', CallOK, Next, StartsChange
  PROVE  /\ CallOK' /\ times = 0 /\ times' = 1 /\ busy' /\ call' = call
         /\ pages' = [p \in Pages |->
              IF call.op = "erase" /\ SectorOf[p] = SectorOf[call.page]
              THEN Erased
              ELSE IF call.op = "program" /\ p = call.page
              THEN Combine(pages[p], call.data) ELSE pages[p]]
<1>1. WireInv /\ FlagsOK /\ ProgInv
  BY DEF DataInv, DataOK, WireInv, RxInv, ControlInv
<1>2. /\ Active /\ Here.cmd \in {"SE", "PP"} /\ ~busy /\ wel /\ times = 0
      /\ Here.page = call.page /\ Deselected
  BY <1>1, Deselecting DEF StartsChange
<1>3. /\ busy' /\ times' = 1
      /\ pages' = [p \in Pages |->
           IF Here.cmd = "SE" /\ SectorOf[p] = SectorOf[Here.page]
           THEN Erased
           ELSE IF Here.cmd = "PP" /\ p = Here.page
           THEN Combine(pages[p], Here.data) ELSE pages[p]]
  BY <1>1, <1>2, ChipChanges
<1>4. /\ Here.cmd = IF call.op = "erase" THEN "SE" ELSE "PP"
      /\ call.op = "program" => Here.data = call.data
      /\ call.op \in {"erase", "program"}
  BY <1>1, <1>2, HereIs DEF StartsChange, Changing
<1>5. /\ call' = call /\ blk' = blk /\ Armed' /\ state' = "DONE" /\ csN'
  BY <1>1, <1>2, Deselects
<1>6. Executed' /\ pc' # "return"
  BY <1>5 DEF Executed, Armed
<1>7. CallOK'
  BY <1>2, <1>3, <1>5, <1>6 DEF CallOK, Changing, StartsChange
<1>8. CASE call.op = "erase"
  BY <1>2, <1>3, <1>4, <1>5, <1>7, <1>8
<1>9. CASE call.op = "program"
  BY <1>2, <1>3, <1>4, <1>5, <1>7, <1>9
<1> QED BY <1>4, <1>8, <1>9

LEMMA CallGoesOn ==
  ASSUME DataInv, RxInv', CallOK, Next, SameStep, ~Begin, ~StartsChange
  PROVE  CallOK' /\ pages' = pages /\ (busy' => busy) /\ times' = times
<1>1. WireInv /\ FlagsOK /\ ProgInv
  BY DEF DataInv, DataOK, WireInv, RxInv, ControlInv
<1>2. /\ pages' = pages /\ (busy' => busy) /\ times' = times
      /\ ~Deselected /\ ~busy => (wel' <=> wel)
      /\ Deselected /\ Changing /\ blk = 1 => wel'
  BY SameChip DEF StartsChange
<1>3. /\ call' = call /\ blk' = blk /\ (pc' = "return" <=> pc = "return")
      /\ Executed' => Executed \/ Deselected
      /\ Active /\ Executed /\ ~Executed' => Status
  BY DEF SameStep
<1>4. Changing' <=> Changing
  BY <1>3 DEF Changing
<1>5. CASE ~Changing
  BY <1>2, <1>3, <1>4, <1>5 DEF CallOK
<1>6. CASE Changing
  <2>1. /\ blk \in Nat \ {0}
        /\ blk = 1 => ~busy /\ times = 0 /\ (Executed => wel)
        /\ blk = 2 /\ ~Executed => ~busy /\ times = 0 /\ wel
        /\ blk = 2 /\ Executed => times = 1
        /\ blk > 2 => times = 1
        /\ pc = "return" => ~busy /\ blk > Len(CommandsOf(call))
    BY <1>6 DEF CallOK
  <2>2. blk = 1 /\ Executed' => wel'
    BY <1>2, <1>3, <1>6, <2>1
  <2>3. ASSUME blk = 2, ~Executed' PROVE ~Executed
    <3>1. Active
      <4>1. call \in Calls /\ Len(CommandsOf(call)) = 3
        BY <1>1, <1>6, CommandsAre DEF Changing, ProgInv, ProgOK
      <4> QED BY <1>6, <2>1, <2>3, <4>1 DEF Active, Changing
    <3>2. Here.cmd # "RDSR"
      BY <1>1, <1>6, <2>3, <3>1, HereIs
    <3>3. ~Status
      <4>1. Status => pc = "status"
        BY <1>1, ReadingFacts
      <4>2. pc = "status" => Here.cmd = "RDSR"
        BY <1>1, <3>1 DEF ProgInv, ProgOK, PlaceOK
      <4> QED BY <3>2, <4>1, <4>2
    <3> QED BY <1>3, <2>3, <3>1, <3>3
  <2>4. ASSUME blk = 2, Executed' PROVE Executed
    BY <1>3, <1>6, <2>4 DEF StartsChange
  <2>5. ASSUME blk = 2, ~Executed' PROVE wel' /\ ~busy' /\ times' = 0
    <3>1. ~Executed /\ ~busy /\ wel /\ times = 0
      BY <2>1, <2>3, <2>5
    <3>2. ~Deselected
      BY <1>6, <2>5 DEF StartsChange
    <3> QED BY <1>2, <3>1, <3>2
  <2> QED BY <1>2, <1>3, <1>4, <1>6, <2>1, <2>2, <2>4, <2>5 DEF CallOK
<1> QED BY <1>2, <1>5, <1>6

(* A call goes on from the status of the chip only when that was ready.    *)
LEMMA ReadyStatus ==
  ASSUME TxInv, WordsRight, NextStep, Next, Changing, blk = 3
  PROVE  ~busy
<1>0. /\ WordBytes \in Nat \ {0} /\ ByteBits \in Nat \ {0} /\ 0 \in {0, 1}
  BY QspiAssumption
<1>1. ProgInv /\ Active /\ Executed /\ ~Armed' /\ PlaceOK
      /\ txOut \in Words
  BY DEF TxInv, DataInv, DataOK, WordsOK, WireInv, RxInv, ControlInv, NextStep,
         ProgInv, ProgOK
<1>2. Here.cmd = "RDSR" /\ CommandOK(Here)
  BY <1>1, HereIs
<1>3. Here.pulls = 1
  BY <1>2 DEF CommandOK
<1>4. Status /\ pc = "status" /\ txOut[0][0] # 1 /\ gap = 0
  <2>1. ~Take
    BY <1>1, <1>2, ReadingFacts DEF PlaceOK
  <2>2. Status /\ txOut[0][0] # 1
    BY <1>3, <2>1 DEF NextStep
  <2> QED BY <1>1, <2>2, ReadingFacts
<1>5. moved = 0 /\ ~rdEn
  <2>1. moved \in Nat /\ moved < Here.pulls
    BY <1>1, <1>4 DEF PlaceOK
  <2>2. rdEn => gap = MinGap - 1
    BY TxFacts
  <2>3. MinGap # 1
    BY QspiAssumption
  <2>4. MinGap \in Nat
    BY QspiAssumption
  <2> QED BY <1>3, <1>4, <2>1, <2>2, <2>3, <2>4
<1>6. RightWord(Here, pages, busy, 0, txOut)
  BY <1>1, <1>4, <1>5 DEF WordsRight
<1>7. RightBit(Here, pages, busy, 0 * WordBytes + 0, 0, txOut[0][0])
  BY <1>0, <1>2, <1>6 DEF RightWord
<1>8. 0 * WordBytes + 0 = 0
  BY <1>0
<1>9. RightBit(Here, pages, busy, 0, 0, txOut[0][0])
  BY <1>7, <1>8
<1>10. txOut[0][0] \in {0, 1}
  BY <1>0, <1>1 DEF Words, Bytes
<1> QED BY <1>2, <1>4, <1>9, <1>10 DEF RightBit

LEMMA CallAdvances ==
  ASSUME TxInv, RxInv', CallOK, WordsRight, Next, NextStep, ~Begin
  PROVE  CallOK' /\ pages' = pages /\ (busy' => busy) /\ times' = times
<1>1. DataInv /\ ProgInv
  BY DEF TxInv, DataInv, WireInv, RxInv, ControlInv
<1>2. /\ Active /\ call' = call /\ blk' = blk + 1 /\ ~Deselected
      /\ Executed /\ ~Executed' /\ pc' = First(blk + 1)
  BY DEF NextStep
<1>3. /\ pages' = pages /\ (busy' => busy) /\ times' = times
      /\ ~busy => (wel' <=> wel)
  BY <1>1, <1>2, SameChip
<1>4. /\ blk \in 1 .. 3 /\ call \in Calls /\ blk + 1 \in Nat \ {0}
      /\ Changing => Len(CommandsOf(call)) = 3
  <2>1. blk \in 1 .. 3 /\ call \in Calls
    BY <1>1, <1>2, HereIs
  <2> QED BY <2>1, CommandsAre DEF Changing
<1>5. pc' = "return" => blk + 1 > Len(CommandsOf(call))
  BY <1>2, <1>4, FirstFacts
<1>6. Changing' <=> Changing
  BY <1>2 DEF Changing
<1>7. CASE ~Changing
  BY <1>2, <1>3, <1>5, <1>6, <1>7 DEF CallOK
<1>8. CASE Changing
  <2>1. CASE blk = 1
    <3>1. ~busy /\ times = 0 /\ wel
      BY <1>2, <1>8, <2>1 DEF CallOK
    <3>2. pc' # "return"
      BY <1>4, <1>5, <1>8, <2>1
    <3>3. blk' = 2
      BY <1>2, <2>1
    <3> QED BY <1>2, <1>3, <1>6, <1>8, <3>1, <3>2, <3>3 DEF CallOK
  <2>2. CASE blk = 2
    <3>1. times = 1
      BY <1>2, <1>8, <2>2 DEF CallOK
    <3>2. pc' # "return"
      BY <1>4, <1>5, <1>8, <2>2
    <3>3. blk' = 3
      BY <1>2, <2>2
    <3> QED BY <1>2, <1>3, <1>6, <1>8, <3>1, <3>2, <3>3 DEF CallOK
  <2>3. CASE blk = 3
    <3>1. times = 1
      BY <1>2, <1>8, <2>3 DEF CallOK
    <3>2. ~busy
      BY <1>8, <2>3, ReadyStatus
    <3>3. blk' = 4
      BY <1>2, <2>3
    <3> QED BY <1>2, <1>3, <1>4, <1>5, <1>6, <1>8, <3>1, <3>2, <3>3 DEF CallOK
  <2> QED BY <1>4, <2>1, <2>2, <2>3
<1> QED BY <1>3, <1>7, <1>8

LEMMA CallStep ==
  ASSUME TxInv, RxInv', CallOK, WordsRight, Next
  PROVE  CallOK'
<1>1. DataInv /\ WireInv
  BY DEF TxInv, DataInv
<1>2. CASE Begin
  BY <1>1, <1>2, CallBegins
<1>3. CASE Return
  BY <1>1, <1>3, CallReturns
<1>4. CASE SameStep /\ ~Begin
  BY <1>1, <1>4, CallPerforms, CallGoesOn
<1>5. CASE NextStep /\ ~Begin
  BY <1>5, CallAdvances
<1> QED BY <1>1, <1>2, <1>3, <1>4, <1>5, Advances

-----------------------------------------------------------------------------
(* What is right for a bit of the answer does not change while it is read. *)
LEMMA StaysRight ==
  ASSUME NEW c, NEW ps, NEW work, NEW later, later => work
  PROVE  /\ \A k, b, x : RightBit(c, ps, work, k, b, x) =>
                           RightBit(c, ps, later, k, b, x)
         /\ \A m, word : RightWord(c, ps, work, m, word) =>
                           RightWord(c, ps, later, m, word)
<1>1. ASSUME NEW k, NEW b, NEW x, RightBit(c, ps, work, k, b, x)
      PROVE  RightBit(c, ps, later, k, b, x)
  BY <1>1 DEF RightBit
<1>2. ASSUME NEW m, NEW word, RightWord(c, ps, work, m, word)
      PROVE  RightWord(c, ps, later, m, word)
  BY <1>1, <1>2 DEF RightWord
<1> QED BY <1>1, <1>2

LEMMA AnswerKept ==
  ASSUME TxInv, RxInv', CallOK, Next, Active, call' = call, blk' = blk,
         ~StartsChange
  PROVE  /\ Here' = Here /\ pages' = pages
         /\ \A k, b, x : RightBit(Here, pages, busy, k, b, x) =>
                           RightBit(Here, pages, busy', k, b, x)
         /\ \A m, word : RightWord(Here, pages, busy, m, word) =>
                           RightWord(Here, pages, busy', m, word)
<1>1. ~Begin /\ DataInv
  BY DEF Begin, Active, TxInv
<1>2. pages' = pages /\ (busy' => busy)
  BY <1>1, SameChip DEF StartsChange
<1>3. Here' = Here
  BY DEF Here
<1> QED BY <1>2, <1>3, StaysRight

-----------------------------------------------------------------------------
(* The bit the chip drives.                                                *)
LEMMA AsksFor ==
  ASSUME WireInv, CallOK, state \in {"PRE", "READ"}
  PROVE  /\ Active /\ Armed /\ ~csN /\ outEn
         /\ Here.cmd \in {"RDSR", "JEDEC", "READ", "FAST"}
         /\ busy => Here.cmd = "RDSR"
         /\ CommandOK(Here) /\ FrameOK
<1>1. ProgInv /\ HandOK /\ PhaseOK /\ WireOK /\ RxInv /\ ControlInv
  BY DEF WireInv, RxInv, ControlInv
<1>2. Armed /\ Here.mode = 1 /\ Here.dir = "read" /\ outEn
  BY <1>1 DEF HandOK, PhaseOK
<1>3. Active /\ ~csN /\ FrameOK
  BY <1>1, <1>2 DEF Armed, Active, HandOK, Busy, WireOK
<1>4. CommandOK(Here)
  BY <1>1, <1>3, HereIs
<1>5. Here.cmd \notin {"RSTEN", "RST", "WREN", "SE", "PP"}
  BY <1>2, <1>4 DEF CommandOK
<1>6. call # NoCall /\ call.op \in {"init", "erase", "program", "read", "fast"}
      /\ blk \in 1 .. 3
  BY <1>1, <1>3, HereIs
<1>7. CASE ~Changing
  <2>1. ~busy
    BY <1>7 DEF CallOK
  <2>2. call.op \in {"init", "read", "fast"}
    BY <1>6, <1>7 DEF Changing
  <2>3. Here.cmd \in {"JEDEC", "READ", "FAST"}
    BY <1>1, <1>3, <1>5, <1>6, <2>2, HereIs
  <2> QED BY <1>2, <1>3, <1>4, <2>1, <2>3
<1>8. CASE Changing
  <2>1. Here.cmd = "RDSR"
    BY <1>1, <1>3, <1>5, <1>6, <1>8, HereIs
  <2> QED BY <1>2, <1>3, <1>4, <2>1
<1> QED BY <1>7, <1>8

LEMMA ByteRight ==
  ASSUME NEW k, NEW b \in 0 .. ByteBits - 1, NEW x, frame.cmd = Here.cmd,
         Here.cmd \in {"RDSR", "JEDEC", "READ", "FAST"},
         Here.cmd \in {"READ", "FAST"} => frame.addr = Here.page,
         x = AnswerByte(k)[b]
  PROVE  RightBit(Here, pages, busy, k, b, x)
<1>1. CASE Here.cmd = "RDSR"
  <2>1. AnswerByte(k) = StatusByte
    BY <1>1 DEF AnswerByte
  <2>2. b = 0 => StatusByte[b] = IF busy THEN 1 ELSE 0
    BY DEF StatusByte
  <2> QED BY <1>1, <2>1, <2>2 DEF RightBit
<1>2. CASE Here.cmd = "JEDEC"
  BY <1>2 DEF AnswerByte, AnswerOf, RightBit
<1>3. CASE Here.cmd \in {"READ", "FAST"}
  BY <1>3 DEF AnswerByte, AnswerOf, RightBit
<1> QED BY <1>1, <1>2, <1>3

(* Its place.                                                              *)
LEMMA PlaceOfBit ==
  ASSUME WireInv, CallOK, state \in {"PRE", "READ"}, clk
  PROVE  LET place == frame.bits - HeadBits(Here.cmd)
         IN  /\ place \in Nat /\ frame.bits \in Nat
             /\ frame.bits >= HeadBits(Here.cmd)
             /\ state = "PRE" => place \div ByteBits = 0 /\ place % ByteBits = 0
             /\ state = "READ" =>
                  /\ cntFall # 0 => /\ place \div ByteBits = flow
                                    /\ place % ByteBits = ByteBits - cntFall
                  /\ cntFall = 0 => /\ place \div ByteBits = flow + 1
                                    /\ place % ByteBits = 0
<1>0. ByteBits \in Nat \ {0} /\ ByteBits >= 2 /\ 0 \in 0 .. ByteBits - 1
      /\ 0 * ByteBits = 0
  BY QspiAssumption
<1>1. PhaseOK /\ cnt \in 0 .. PageBytes - 1
  <2>1. RxInv /\ ControlInv /\ PhaseOK /\ ProgInv /\ Armed
    BY AsksFor DEF WireInv, RxInv, ControlInv
  <2>2. cnt = Here.count /\ CommandOK(Here)
    BY <2>1, AsksFor, CtrlFacts DEF ProgInv
  <2> QED BY <2>1, <2>2 DEF CommandOK
<1>2. HeadBits(Here.cmd) \in Nat /\ frame.bits \in Nat /\ frame.bits = Sent - 0
  <2>1. CommandOK(Here) /\ FrameOK
    BY AsksFor
  <2>2. Due = 0 /\ frame.bits = Sent - Due /\ frame.bits \in Nat
    BY <2>1, DueFacts DEF FrameOK
  <2> QED BY <2>1, <2>2, HeadFacts
<1>3. CASE state = "PRE"
  <2>1. frame.bits = HeadBits(Here.cmd) + 0
    BY <1>2, <1>3, SentFacts
  <2>2. frame.bits - HeadBits(Here.cmd) = 0 * ByteBits + 0
    BY <1>0, <1>2, <2>1
  <2>3. (0 * ByteBits + 0) % ByteBits = 0 /\ (0 * ByteBits + 0) \div ByteBits = 0
    BY <1>0, DivUnique
  <2> QED BY <1>0, <1>2, <1>3, <2>1, <2>2, <2>3
<1>4. CASE state = "READ"
  <2>1. cntFall \in 0 .. ByteBits - 1 /\ flow \in Nat
    BY <1>1, <1>4 DEF PhaseOK
  <2>2. PICK p \in Nat : p = flow * ByteBits
    BY <1>0, <2>1
  <2>3. frame.bits - HeadBits(Here.cmd) = p + (ByteBits - cntFall)
    <3>1. Sent = HeadBits(Here.cmd)
                   + (flow * ByteBits + (ByteBits - 1 - cntFall) + 1)
      BY <1>4, SentFacts
    <3> QED BY <1>0, <1>2, <2>1, <2>2, <3>1
  <2>4. CASE cntFall # 0
    <3>1. ByteBits - cntFall \in 0 .. ByteBits - 1
      BY <1>0, <2>1, <2>4
    <3>2. (flow * ByteBits + (ByteBits - cntFall)) % ByteBits = ByteBits - cntFall
          /\ (flow * ByteBits + (ByteBits - cntFall)) \div ByteBits = flow
      BY <1>0, <2>1, <3>1, DivUnique
    <3>3. p + (ByteBits - cntFall) \in Nat
      BY <2>2, <3>1
    <3> QED BY <1>2, <1>4, <2>2, <2>3, <2>4, <3>2, <3>3
  <2>5. CASE cntFall = 0
    <3>1. (flow + 1) * ByteBits + 0 = p + ByteBits
      BY <1>0, <2>1, <2>2
    <3>2. flow + 1 \in Nat
      BY <2>1
    <3>3. /\ ((flow + 1) * ByteBits + 0) % ByteBits = 0
          /\ ((flow + 1) * ByteBits + 0) \div ByteBits = flow + 1
      BY <1>0, <3>2, DivUnique
    <3>4. p + (ByteBits - cntFall) = p + ByteBits /\ p + ByteBits \in Nat
      BY <1>0, <2>2, <2>5
    <3> QED BY <1>2, <1>4, <2>3, <2>5, <3>1, <3>3, <3>4
  <2> QED BY <2>4, <2>5
<1> QED BY <1>3, <1>4

LEMMA DrivesRight ==
  ASSUME WireInv, CallOK, Next, Drive, state \in {"PRE", "READ"}, clk
  PROVE  /\ state = "PRE" =>
              RightBit(Here, pages, busy, 0, ByteBits - 1, miso')
         /\ state = "READ" /\ cntFall # 0 =>
              RightBit(Here, pages, busy, flow, cntFall - 1, miso')
         /\ state = "READ" /\ cntFall = 0 =>
              RightBit(Here, pages, busy, flow + 1, ByteBits - 1, miso')
<1>0. /\ ByteBits \in Nat /\ ByteBits >= 2 /\ CmdBits \in Nat
      /\ AddrBits \in Nat \ {0} /\ CmdBits >= 1
  BY QspiAssumption
<1>1. /\ Here.cmd \in {"RDSR", "JEDEC", "READ", "FAST"} /\ CommandOK(Here)
      /\ busy => Here.cmd = "RDSR"
      /\ FrameOK /\ PhaseOK
  BY AsksFor DEF WireInv, RxInv
<1>2. PICK h \in Nat : h = HeadBits(Here.cmd) /\ h >= CmdBits
                       /\ (Addressed(Here.cmd) => h >= CmdBits + AddrBits)
  BY <1>1, HeadFacts
<1>3. PICK p \in Nat : p = frame.bits - h
  BY <1>2, PlaceOfBit
<1>4. /\ frame.bits \in Nat /\ frame.bits >= h
      /\ state = "PRE" => p \div ByteBits = 0 /\ p % ByteBits = 0
      /\ state = "READ" =>
           /\ cntFall # 0 => /\ p \div ByteBits = flow
                             /\ p % ByteBits = ByteBits - cntFall
           /\ cntFall = 0 => p \div ByteBits = flow + 1 /\ p % ByteBits = 0
  BY <1>2, <1>3, PlaceOfBit
<1>5. /\ frame.ok /\ frame.cmd = Here.cmd
      /\ Here.cmd \in {"READ", "FAST"} => frame.addr = Here.page
  <2>1. /\ frame.ok
        /\ frame.cmd = IF frame.bits = 0 THEN Nil ELSE Here.cmd
        /\ frame.addr = IF frame.bits <= CmdBits THEN Nil ELSE Here.page
    BY <1>1 DEF FrameOK, Holds
  <2>2. frame.bits # 0
    BY <1>0, <1>2, <1>4
  <2>3. Here.cmd \in {"READ", "FAST"} => ~(frame.bits <= CmdBits)
    <3>1. Here.cmd \in {"READ", "FAST"} => Addressed(Here.cmd)
      BY DEF Addressed
    <3> QED BY <1>0, <1>2, <1>4, <3>1
  <2> QED BY <2>1, <2>2, <2>3
<1>6. miso' = AnswerByte(p \div ByteBits)[ByteBits - 1 - (p % ByteBits)]
  BY <1>1, <1>2, <1>3, <1>4, <1>5 DEF Drive
<1>7. ASSUME NEW k, NEW b \in 0 .. ByteBits - 1, miso' = AnswerByte(k)[b]
      PROVE  RightBit(Here, pages, busy, k, b, miso')
  BY <1>1, <1>5, <1>7, ByteRight
<1>8. CASE state = "PRE"
  <2>1. miso' = AnswerByte(0)[ByteBits - 1] /\ ByteBits - 1 \in 0 .. ByteBits - 1
    BY <1>0, <1>4, <1>6, <1>8
  <2> QED BY <1>7, <1>8, <2>1
<1>9. CASE state = "READ" /\ cntFall # 0
  <2>1. cntFall \in 0 .. ByteBits - 1
    BY <1>1, <1>9 DEF PhaseOK
  <2>2. ByteBits - 1 - (ByteBits - cntFall) = cntFall - 1
        /\ cntFall - 1 \in 0 .. ByteBits - 1
    BY <1>0, <1>9, <2>1
  <2>3. miso' = AnswerByte(flow)[cntFall - 1]
    BY <1>4, <1>6, <1>9, <2>2
  <2> QED BY <1>7, <1>9, <2>2, <2>3
<1>10. CASE state = "READ" /\ cntFall = 0
  <2>1. miso' = AnswerByte(flow + 1)[ByteBits - 1]
        /\ ByteBits - 1 \in 0 .. ByteBits - 1
    BY <1>0, <1>4, <1>6, <1>10
  <2> QED BY <1>7, <1>10, <2>1
<1> QED BY <1>8, <1>9, <1>10

-----------------------------------------------------------------------------
(* The edges on the way through READ.                                      *)
LEMMA IntoRead ==
  ASSUME RxInv, RxInv', Next, state' \in {"PRE", "READ"}
  PROVE  /\ state \in Busy
         /\ state' = "PRE" => state \in {"CMD", "ADDR", "DUMMY", "PRE"}
         /\ state' = "PRE" /\ state # "PRE" => fall
         /\ state' = "READ" => \/ state = "PRE" /\ fall /\ ReadPre
                               \/ state = "READ"
<1>1. FsmEdge
  BY EveryEdge
<1>2. CASE Idle \/ Select \/ Sample \/ Complete \/ End
  BY <1>2 DEF Idle, Select, Sample, Complete, End, Busy
<1>3. CASE SendCmd
  BY <1>3 DEF SendCmd, DataPhase, Busy
<1>4. CASE SendAddress
  BY <1>4 DEF SendAddress, DataPhase, Busy
<1>5. CASE SendDummy \/ ReadPre
  BY <1>5 DEF SendDummy, ReadPre, Busy
<1>6. CASE SendData
  <2>1. state = "SEND" /\ state' \in {"SEND", "END"}
    BY <1>6 DEF SendData
  <2> QED BY <2>1
<1>7. CASE ReadData
  BY <1>7 DEF ReadData, Busy
<1>8. CASE Rest
  <2>1. state' = state
    BY <1>8, FrozenFacts DEF Rest, Frozen
  <2> QED BY <2>1 DEF Busy
<1> QED BY <1>1, <1>2, <1>3, <1>4, <1>5, <1>6, <1>7, <1>8 DEF FsmEdge

LEMMA ReadEdges ==
  ASSUME RxInv, RxInv', Next, state = "READ"
  PROVE  /\ ~rise /\ ~fall => Frozen
         /\ rise => Sample /\ ~fall
         /\ fall => ~rise
         /\ fall /\ cntFall # 0 =>
              /\ state' = "READ" /\ flow' = flow /\ cntFall' = cntFall - 1
              /\ ~doWrite' /\ wrData' = wrData /\ readReg' = readReg
              /\ cntRise' = cntRise
         /\ fall /\ cntFall = 0 /\ flow # cnt =>
              /\ state' = "READ" /\ flow' = flow + 1 /\ cntFall' = ByteBits - 1
              /\ (doWrite' <=> LastOfWord) /\ cntRise' = cntRise
              /\ wrData' = IF LastOfWord THEN readReg ELSE wrData
              /\ readReg' = IF LastOfWord THEN ZeroWord ELSE readReg
         /\ fall /\ cntFall = 0 /\ flow = cnt =>
              /\ state' = "END" /\ doWrite' /\ wrData' = readReg
         /\ cntFall \in 0 .. ByteBits - 1 /\ flow \in 0 .. cnt
         /\ cnt \in 0 .. PageBytes - 1
<1>1. FsmEdge /\ ~(rise /\ fall) /\ {rise, fall} \subseteq BOOLEAN
      /\ cnt \in 0 .. PageBytes - 1
  <2>1. Armed
    BY MachineRuns DEF RxInv
  <2> QED BY <2>1, MachineRuns DEF RxInv
<1>2. cntFall \in 0 .. ByteBits - 1 /\ flow \in 0 .. cnt
  BY DEF RxInv, PhaseOK
<1>3. fall => ~rise
  BY <1>1
<1>4. ~rise /\ ~fall => Frozen
  BY <1>1, MachineKeeps
<1>5. rise => Sample /\ ~fall
  BY <1>1, MachineKeeps
<1>6. fall => ReadData
  <2>1. fall => \/ SendCmd \/ SendAddress \/ SendDummy \/ ReadPre \/ SendData
                \/ ReadData \/ End
    BY <1>1, <1>3, MachineKeeps DEF Busy
  <2> QED BY <2>1 DEF SendCmd, SendAddress, SendDummy, ReadPre, SendData, End
<1>7. CASE fall /\ cntFall # 0
  <2>1. /\ state' = "READ" /\ flow' = flow /\ cntFall' = cntFall - 1
        /\ ~doWrite' /\ wrData' = wrData /\ readReg' = readReg
        /\ cntRise' = cntRise
    BY <1>6, <1>7 DEF ReadData
  <2> QED BY <1>1, <1>2, <1>3, <1>5, <1>7, <2>1
<1>8. CASE fall /\ cntFall = 0 /\ flow # cnt
  <2>1. flow' = (flow + 1) % PageBytes /\ cntFall' = ByteBits - 1
    BY <1>6, <1>8 DEF ReadData, NextByte
  <2>2. flow + 1 \in 0 .. PageBytes - 1 /\ PageBytes \in Nat \ {0}
    BY <1>1, <1>2, <1>8, Sizes
  <2>3. flow' = flow + 1
    BY <2>1, <2>2, ModSmall
  <2>4. /\ state' = "READ" /\ (doWrite' <=> LastOfWord) /\ cntRise' = cntRise
        /\ wrData' = IF LastOfWord THEN readReg ELSE wrData
        /\ readReg' = IF LastOfWord THEN ZeroWord ELSE readReg
    BY <1>6, <1>8 DEF ReadData
  <2> QED BY <1>1, <1>2, <1>3, <1>5, <1>8, <2>1, <2>3, <2>4
<1>9. CASE fall /\ cntFall = 0 /\ flow = cnt
  <2>1. state' = "END" /\ doWrite' /\ wrData' = readReg
    BY <1>6, <1>9 DEF ReadData
  <2> QED BY <1>1, <1>2, <1>3, <1>5, <1>9, <2>1
<1>10. CASE ~fall
  BY <1>1, <1>2, <1>4, <1>5, <1>10
<1> QED BY <1>7, <1>8, <1>9, <1>10

(* While the command is read its answer stays the same.                    *)
LEMMA ReadKept ==
  ASSUME TxInv, RxInv', CallOK, Next, state \in Busy, state' \in Busy
  PROVE  /\ Here' = Here /\ pages' = pages /\ Armed /\ Armed'
         /\ \A k, b, x : RightBit(Here, pages, busy, k, b, x) =>
                           RightBit(Here, pages, busy', k, b, x)
         /\ \A m, word : RightWord(Here, pages, busy, m, word) =>
                           RightWord(Here, pages, busy', m, word)
<1>1. RxInv /\ RxInv' /\ ControlInv' /\ ControlInv /\ HandOK'
  BY TxFacts DEF RxInv, ControlInv
<1>2. Armed /\ Armed' /\ Active
  BY <1>1, BusyFacts
<1>3. call' = call /\ blk' = blk
  BY <1>1, <1>2, MachineRuns
<1>4. ~csN'
  BY <1>1, <1>2 DEF HandOK
<1>5. ~StartsChange
  BY <1>4 DEF StartsChange, Deselected
<1> QED BY <1>1, <1>2, <1>3, <1>5, AnswerKept

LEMMA ClockedRead ==
  ASSUME TxInv, RxInv', CallOK, Next, state \in Busy,
         state' \in {"PRE", "READ"}
  PROVE  /\ Tick /\ clk => fall' /\ Drive /\ Frozen /\ clk
         /\ ~(Tick /\ clk) => ~fall' /\ miso' = miso
         /\ Tick => Frozen /\ ~fall /\ ~rise
<1>1. /\ RxInv /\ ControlInv /\ HandOK /\ HandOK' /\ PhaseOK' /\ WireInv
      /\ ClockEdge /\ FsmEdge /\ ChipEdge /\ Armed /\ Armed' /\ PhaseOK
  BY TxFacts, EveryEdge, BusyFacts DEF TxInv, DataInv, RxInv, ControlInv
<1>2. ~csN /\ ~csN'
  BY <1>1 DEF HandOK, Busy
<1>3. outEn' /\ state # "IDLE"
  BY <1>1 DEF PhaseOK, Busy
<1>4. /\ Tick => ~rise /\ ~fall /\ (clk' <=> ~clk)
      /\ ~Tick => (clk' <=> clk)
      /\ {clk, rise, fall} \subseteq BOOLEAN
  BY <1>1, <1>3, EdgeKinds DEF ClockOK, ControlInv
<1>5. Tick => Frozen
  BY <1>1, <1>4, MachineKeeps
<1>6. fall' <=> (Tick /\ clk)
  BY <1>1 DEF ClockEdge
<1>7. CASE Tick /\ clk
  <2>1. outEn
    BY <1>3, <1>5, <1>7 DEF Frozen
  <2>2. SpiClk /\ ~SpiClk'
    BY <1>4, <1>7, <2>1 DEF SpiClk
  <2>3. Drive
    BY <1>1, <1>2, <2>2 DEF ChipEdge
  <2> QED BY <1>4, <1>5, <1>6, <1>7, <2>3
<1>8. CASE ~(Tick /\ clk)
  <2>1. ~(SpiClk /\ ~SpiClk')
    BY <1>3, <1>4, <1>8 DEF SpiClk
  <2>2. miso' = miso
    BY <1>1, <2>1 DEF ChipEdge
  <2> QED BY <1>4, <1>5, <1>6, <1>8, <2>2
<1> QED BY <1>7, <1>8

LEMMA MisoStep ==
  ASSUME TxInv, RxInv', CallOK, MisoOK, Next
  PROVE  MisoOK'
<1>1. CASE state' \notin {"PRE", "READ"}
  BY <1>1 DEF MisoOK
<1>2. CASE state' \in {"PRE", "READ"}
  <2>1. RxInv /\ WireInv /\ state \in Busy /\ state' \in Busy
    BY <1>2, TxFacts, IntoRead DEF TxInv, DataInv, Busy
  <2>2. /\ Here' = Here /\ pages' = pages
        /\ \A k, b, x : RightBit(Here, pages, busy, k, b, x) =>
                          RightBit(Here, pages, busy', k, b, x)
    BY <2>1, ReadKept
  <2>3. SUFFICES ASSUME state' \in {"PRE", "READ"}
                 PROVE
          /\ state' = "PRE" /\ fall' =>
               RightBit(Here, pages, busy', 0, ByteBits - 1, miso')
          /\ state' = "READ" =>
               /\ ~fall' => RightBit(Here, pages, busy', flow', cntFall', miso')
               /\ fall' /\ cntFall' # 0 =>
                    RightBit(Here, pages, busy', flow', cntFall' - 1, miso')
               /\ fall' /\ cntFall' = 0 /\ flow' # cnt' =>
                    RightBit(Here, pages, busy', flow' + 1, ByteBits - 1, miso')
    <3>1. fall' => TRUE
      OBVIOUS
    <3> QED BY <1>2, <2>2, <2>3 DEF MisoOK
  <2>4. CASE Tick /\ clk
    <3>1. fall' /\ Drive /\ Frozen
      BY <1>2, <2>1, <2>4, ClockedRead
    <3>2. state \in {"PRE", "READ"} /\ state' = state /\ flow' = flow
          /\ cntFall' = cntFall
      BY <1>2, <3>1 DEF Frozen
    <3> QED BY <2>1, <2>2, <2>4, <3>1, <3>2, DrivesRight
  <2>5. CASE ~(Tick /\ clk)
    <3>1. ~fall' /\ miso' = miso
      BY <1>2, <2>1, <2>5, ClockedRead
    <3>2. CASE state' = "READ" /\ state = "PRE"
      <4>1. fall /\ ReadPre
        BY <2>1, <3>2, IntoRead
      <4>2. flow' = 0 /\ cntFall' = ByteBits - 1
        BY <2>1, <3>2, <4>1 DEF RxInv, PhaseOK, ReadPre
      <4>3. RightBit(Here, pages, busy, 0, ByteBits - 1, miso)
        BY <3>2, <4>1 DEF MisoOK
      <4> QED BY <2>2, <3>1, <3>2, <4>2, <4>3
    <3>3. CASE state' = "READ" /\ state = "READ"
      <4>1. CASE ~fall
        <5>1. flow' = flow /\ cntFall' = cntFall
          <6>1. rise => Sample
            BY <2>1, <3>3, ReadEdges
          <6>2. ~rise => Frozen
            BY <2>1, <3>3, <4>1, ReadEdges
          <6> QED BY <6>1, <6>2 DEF Sample, Frozen
        <5>2. RightBit(Here, pages, busy, flow, cntFall, miso)
          BY <3>3, <4>1 DEF MisoOK
        <5> QED BY <2>2, <3>1, <3>3, <5>1, <5>2
      <4>2. CASE fall /\ cntFall # 0
        <5>1. flow' = flow /\ cntFall' = cntFall - 1
          BY <2>1, <3>3, <4>2, ReadEdges
        <5>2. RightBit(Here, pages, busy, flow, cntFall - 1, miso)
          BY <3>3, <4>2 DEF MisoOK
        <5> QED BY <2>2, <3>1, <3>3, <5>1, <5>2
      <4>3. CASE fall /\ cntFall = 0
        <5>1. flow # cnt
          BY <2>1, <3>3, <4>3, ReadEdges
        <5>2. flow' = flow + 1 /\ cntFall' = ByteBits - 1
          BY <2>1, <3>3, <4>3, <5>1, ReadEdges
        <5>3. RightBit(Here, pages, busy, flow + 1, ByteBits - 1, miso)
          BY <3>3, <4>3, <5>1 DEF MisoOK
        <5> QED BY <2>2, <3>1, <3>3, <5>2, <5>3
      <4> QED BY <4>1, <4>2, <4>3
    <3>4. state' = "READ" => state \in {"PRE", "READ"}
      BY <2>1, IntoRead
    <3> QED BY <1>2, <3>1, <3>2, <3>3, <3>4
  <2> QED BY <2>4, <2>5
<1> QED BY <1>1, <1>2

-----------------------------------------------------------------------------
(* The bits that were sampled.                                             *)
LEMMA NextPlace ==
  ASSUME NEW f \in Nat, NEW q, q = f \div WordBytes, NEW r, r = f % WordBytes
  PROVE  /\ q \in Nat /\ r \in 0 .. WordBytes - 1 /\ q * WordBytes + r = f
         /\ r # WordBytes - 1 =>
              (f + 1) % WordBytes = r + 1 /\ (f + 1) \div WordBytes = q
         /\ r = WordBytes - 1 => (f + 1) % WordBytes = 0
<1>0. WordBytes \in Nat \ {0}
  BY QspiAssumption
<1>1. q \in Nat /\ r \in Nat
  BY <1>0
<1>2. f = q * WordBytes + r /\ r \in 0 .. WordBytes - 1
  BY <1>0, <1>1, QuotientRemainder
<1>3. PICK p \in Nat : p = q * WordBytes
  BY <1>0, <1>1
<1>4. ASSUME r # WordBytes - 1
      PROVE  (f + 1) % WordBytes = r + 1 /\ (f + 1) \div WordBytes = q
  <2>1. r + 1 \in 0 .. WordBytes - 1
    BY <1>0, <1>2, <1>4
  <2>2. /\ (q * WordBytes + (r + 1)) % WordBytes = r + 1
        /\ (q * WordBytes + (r + 1)) \div WordBytes = q
    BY <1>0, <1>1, <2>1, DivUnique
  <2>3. f + 1 = q * WordBytes + (r + 1)
    BY <1>1, <1>2, <1>3
  <2> QED BY <2>2, <2>3, Zenon
<1>5. ASSUME r = WordBytes - 1
      PROVE  (f + 1) % WordBytes = 0
  <2>1. (q + 1) * WordBytes + 0 = p + WordBytes
    BY <1>0, <1>1, <1>3
  <2>2. f + 1 = (q + 1) * WordBytes + 0
    BY <1>0, <1>2, <1>3, <1>5, <2>1
  <2>3. 0 \in 0 .. WordBytes - 1 /\ q + 1 \in Nat
    BY <1>0, <1>1
  <2>4. ((q + 1) * WordBytes + 0) % WordBytes = 0
    BY <1>0, <2>3, DivUnique
  <2> QED BY <2>2, <2>4, Zenon
<1>6. q * WordBytes + r = f
  BY <1>2
<1> QED BY <1>1, <1>2, <1>4, <1>5, <1>6, Zenon

LEMMA SampledNext ==
  ASSUME RxInv, Next, state = "READ"
  PROVE  /\ Tick => (Sampled' <=> Sampled) /\ ~rise /\ ~fall
         /\ rise => ~Sampled /\ Sampled'
         /\ fall => Sampled /\ ~Sampled'
         /\ ~rise /\ ~fall => (Sampled' <=> Sampled)
<1>1. ControlInv /\ ClockOK /\ state # "IDLE"
  BY DEF RxInv, ControlInv
<1>2. /\ Tick => ~rise /\ ~fall
      /\ ~Tick => (clk' <=> clk) /\ div' # 0 /\ (~clk /\ div = 0 => fall)
      /\ Tick => (clk' <=> ~clk) /\ div' = 0 /\ div # 0
      /\ rise => clk
      /\ fall => ~clk /\ div = 0
      /\ {clk, rise, fall} \subseteq BOOLEAN
  BY <1>1, EdgeKinds
<1>3. rise <=> clk /\ div = 0
  BY <1>1 DEF ClockOK
<1>4. CASE Tick
  BY <1>2, <1>4 DEF Sampled
<1>5. CASE ~Tick
  BY <1>2, <1>3, <1>5 DEF Sampled
<1> QED BY <1>4, <1>5

LEMMA HeadCount ==
  ASSUME RxInv, RxInv', SampleOK, Next,
         state' \in {"CMD", "ADDR", "DUMMY", "PRE"}
  PROVE  cntRise' = ByteBits - 1
<1>1. /\ FsmEdge /\ HandOK
      /\ state = "CS" => cntRise = 0
  <2>1. ControlInv /\ HandOK /\ (state = "CS" => Armed)
    BY MachineRuns DEF RxInv, ControlInv
  <2> QED BY <2>1, EveryEdge DEF HandOK
<1>2. state \in {"CMD", "ADDR", "DUMMY", "PRE"} => cntRise = ByteBits - 1
  BY DEF SampleOK
<1>3. CASE Idle \/ Sample \/ Complete \/ End \/ ReadPre
  BY <1>3 DEF Idle, Sample, Complete, End, ReadPre
<1>4. CASE Select
  BY <1>1, <1>4 DEF Select
<1>5. CASE SendCmd
  BY <1>2, <1>5 DEF SendCmd
<1>6. CASE SendAddress
  BY <1>2, <1>6 DEF SendAddress
<1>7. CASE SendDummy
  BY <1>2, <1>7 DEF SendDummy
<1>8. CASE SendData
  <2>1. state' \in {"SEND", "END"}
    BY <1>8 DEF SendData
  <2> QED BY <2>1
<1>9. CASE ReadData
  BY <1>9 DEF ReadData
<1>10. CASE Rest
  <2>1. state' = state /\ cntRise' = cntRise
    BY <1>10, FrozenFacts DEF Rest, Frozen
  <2> QED BY <1>2, <2>1
<1> QED BY <1>1, <1>3, <1>4, <1>5, <1>6, <1>7, <1>8, <1>9, <1>10 DEF FsmEdge

(* What has been sampled of byte r of word q, when bit c is the next that  *)
(* the falling edge counts; taken when that bit has been sampled, too.     *)
LEMMA SampledBits ==
  ASSUME TxInv, RxInv', CallOK, SampleOK, Next, state = "READ",
         state' \in Busy, NEW q, q = flow \div WordBytes,
         NEW r, r = flow % WordBytes
  PROVE  /\ q \in Nat /\ r \in 0 .. WordBytes - 1 /\ q * WordBytes + r = flow
         /\ cntRise = IF ~Sampled THEN cntFall
                      ELSE IF cntFall = 0 THEN ByteBits - 1 ELSE cntFall - 1
         /\ \A i \in 0 .. r, b \in 0 .. ByteBits - 1 :
              i < r \/ b > cntFall \/ (b = cntFall /\ Sampled)
                => RightBit(Here, pages, busy', q * WordBytes + i, b,
                            readReg[i][b])
<1>1. RxInv /\ flow \in Nat
  <2>1. RxInv
    BY TxFacts
  <2> QED BY <2>1, ReadEdges
<1>2. q \in Nat /\ r \in 0 .. WordBytes - 1 /\ q * WordBytes + r = flow
  BY <1>1, NextPlace
<1>3. \A k, b, x : RightBit(Here, pages, busy, k, b, x) =>
                     RightBit(Here, pages, busy', k, b, x)
  BY ReadKept DEF Busy
<1>4. /\ cntRise = IF ~Sampled THEN cntFall
                   ELSE IF cntFall = 0 THEN ByteBits - 1 ELSE cntFall - 1
      /\ \A i \in 0 .. r, b \in 0 .. ByteBits - 1 :
           i < r \/ b > cntFall \/ (b = cntFall /\ Sampled)
             => RightBit(Here, pages, busy, q * WordBytes + i, b, readReg[i][b])
  BY DEF SampleOK
<1> QED BY <1>2, <1>3, <1>4

LEMMA SampleReads ==
  ASSUME TxInv, RxInv', CallOK, MisoOK, SampleOK, Next, state = "READ",
         state' = "READ"
  PROVE  SampleOK'
<1>0. /\ WordBytes \in Nat \ {0} /\ ByteBits \in Nat /\ ByteBits >= 2
  BY QspiAssumption
<1>1. /\ RxInv /\ Here' = Here /\ pages' = pages /\ state' \in Busy
      /\ \A k, b, x : RightBit(Here, pages, busy, k, b, x) =>
                        RightBit(Here, pages, busy', k, b, x)
  BY TxFacts, ReadKept DEF Busy
<1>2. PICK q : q = flow \div WordBytes
  OBVIOUS
<1>3. PICK r : r = flow % WordBytes
  OBVIOUS
<1>4. /\ q \in Nat /\ r \in 0 .. WordBytes - 1 /\ q * WordBytes + r = flow
      /\ cntRise = IF ~Sampled THEN cntFall
                   ELSE IF cntFall = 0 THEN ByteBits - 1 ELSE cntFall - 1
      /\ \A i \in 0 .. r, b \in 0 .. ByteBits - 1 :
           i < r \/ b > cntFall \/ (b = cntFall /\ Sampled)
             => RightBit(Here, pages, busy', q * WordBytes + i, b, readReg[i][b])
  BY <1>1, <1>2, <1>3, SampledBits
<1>5. cntFall \in 0 .. ByteBits - 1 /\ flow \in Nat /\ ~(rise /\ fall)
  BY <1>1, ReadEdges
<1>6. SUFFICES
        /\ cntRise' = IF ~Sampled' THEN cntFall'
                      ELSE IF cntFall' = 0 THEN ByteBits - 1 ELSE cntFall' - 1
        /\ \A i \in 0 .. flow' % WordBytes, b \in 0 .. ByteBits - 1 :
             i < flow' % WordBytes \/ b > cntFall' \/ (b = cntFall' /\ Sampled')
               => RightBit(Here, pages, busy',
                           (flow' \div WordBytes) * WordBytes + i, b,
                           readReg'[i][b])
  BY <1>1 DEF SampleOK
<1>7. CASE ~rise /\ ~fall
  <2>1. cntRise' = cntRise /\ cntFall' = cntFall /\ flow' = flow
        /\ readReg' = readReg
    BY <1>1, <1>7, ReadEdges DEF Frozen
  <2>2. Sampled' <=> Sampled
    BY <1>1, <1>7, SampledNext
  <2> QED BY <1>2, <1>3, <1>4, <2>1, <2>2
<1>8. CASE rise
  <2>1. Sample /\ ~fall /\ cntFall' = cntFall /\ flow' = flow
    BY <1>1, <1>8, ReadEdges DEF Sample
  <2>2. ~Sampled /\ Sampled'
    BY <1>1, <1>8, SampledNext
  <2>3. cntRise = cntFall
    BY <1>4, <2>2
  <2>4. cntRise' = IF cntFall = 0 THEN ByteBits - 1 ELSE cntFall - 1
    BY <2>1, <2>3 DEF Sample
  <2>5. readReg' = [readReg EXCEPT ![r][cntFall] = miso]
    BY <1>3, <2>1, <2>3 DEF Sample
  <2>6. readReg \in Words
    BY DEF TxInv, DataInv, DataOK, WordsOK
  <2>7. RightBit(Here, pages, busy', flow, cntFall, miso)
    BY <1>1, <2>1 DEF MisoOK
  <2>8. ASSUME NEW i \in 0 .. r, NEW b \in 0 .. ByteBits - 1,
               i < r \/ b > cntFall \/ b = cntFall
        PROVE  RightBit(Here, pages, busy', q * WordBytes + i, b, readReg'[i][b])
    <3>1. i \in 0 .. WordBytes - 1
      BY <1>0, <1>4
    <3>2. readReg'[i][b] = IF i = r /\ b = cntFall THEN miso ELSE readReg[i][b]
      BY <1>4, <1>5, <2>5, <2>6, <3>1 DEF Words, Bytes
    <3>3. CASE i = r /\ b = cntFall
      BY <1>4, <2>7, <3>2, <3>3
    <3>4. CASE ~(i = r /\ b = cntFall)
      <4>1. i < r \/ b > cntFall
        BY <1>4, <2>8, <3>4
      <4> QED BY <1>4, <3>2, <3>4, <4>1
    <3> QED BY <3>3, <3>4
  <2> QED BY <1>2, <1>3, <2>1, <2>2, <2>4, <2>8
<1>9. CASE fall /\ cntFall # 0
  <2>1. flow' = flow /\ cntFall' = cntFall - 1 /\ readReg' = readReg
        /\ cntRise' = cntRise
    BY <1>1, <1>9, ReadEdges
  <2>2. Sampled /\ ~Sampled'
    BY <1>1, <1>9, SampledNext
  <2>3. cntRise' = cntFall'
    BY <1>4, <1>9, <2>1, <2>2
  <2>4. ASSUME NEW i \in 0 .. r, NEW b \in 0 .. ByteBits - 1,
               i < r \/ b > cntFall - 1
        PROVE  RightBit(Here, pages, busy', q * WordBytes + i, b, readReg[i][b])
    BY <1>4, <1>5, <2>2, <2>4
  <2> QED BY <1>2, <1>3, <2>1, <2>2, <2>3, <2>4
<1>10. CASE fall /\ cntFall = 0
  <2>1. /\ flow' = flow + 1 /\ cntFall' = ByteBits - 1 /\ cntRise' = cntRise
        /\ r # WordBytes - 1 => readReg' = readReg
    <3>1. flow # cnt
      BY <1>1, <1>10, ReadEdges
    <3> QED BY <1>1, <1>3, <1>10, <3>1, ReadEdges DEF LastOfWord
  <2>2. Sampled /\ ~Sampled'
    BY <1>1, <1>10, SampledNext
  <2>3. cntRise' = cntFall'
    BY <1>4, <1>10, <2>1, <2>2
  <2>4. /\ r # WordBytes - 1 =>
             flow' % WordBytes = r + 1 /\ flow' \div WordBytes = q
        /\ r = WordBytes - 1 => flow' % WordBytes = 0
    BY <1>2, <1>3, <1>5, <2>1, NextPlace
  <2>5. CASE r = WordBytes - 1
    <3>1. \A i \in 0 .. 0, b \in 0 .. ByteBits - 1 :
            ~(i < 0 \/ b > ByteBits - 1 \/ (b = ByteBits - 1 /\ Sampled'))
      BY <1>0, <2>2
    <3> QED BY <2>1, <2>2, <2>3, <2>4, <2>5, <3>1
  <2>6. CASE r # WordBytes - 1
    <3>1. ASSUME NEW i \in 0 .. r + 1, NEW b \in 0 .. ByteBits - 1,
                 i < r + 1 \/ b > ByteBits - 1
          PROVE  RightBit(Here, pages, busy', q * WordBytes + i, b, readReg[i][b])
      <4>1. i \in 0 .. r
        BY <1>0, <1>4, <3>1
      <4>2. i < r \/ b > cntFall \/ (b = cntFall /\ Sampled)
        BY <1>10, <2>2
      <4> QED BY <1>4, <4>1, <4>2
    <3> QED BY <2>1, <2>2, <2>3, <2>4, <2>6, <3>1
  <2> QED BY <2>5, <2>6
<1> QED BY <1>7, <1>8, <1>9, <1>10

LEMMA SampleStep ==
  ASSUME TxInv, RxInv', CallOK, MisoOK, SampleOK, Next
  PROVE  SampleOK'
<1>1. RxInv
  BY TxFacts
<1>2. CASE state' = "READ" /\ state = "READ"
  BY <1>2, SampleReads
<1>3. CASE state' = "READ" /\ state # "READ"
  <2>1. state = "PRE" /\ fall /\ ReadPre
    BY <1>1, <1>3, IntoRead
  <2>2. cntRise = ByteBits - 1 /\ cntFall = ByteBits - 1 /\ flow = 0
    BY <1>1, <2>1 DEF SampleOK, RxInv, PhaseOK
  <2>3. cntRise' = ByteBits - 1 /\ cntFall' = ByteBits - 1 /\ flow' = 0
    BY <2>1, <2>2 DEF ReadPre
  <2>4. ~Sampled'
    <3>1. ~Tick /\ ~clk /\ ~clk' /\ div' # 0
      BY <1>1, <2>1, EdgeKinds DEF RxInv
    <3> QED BY <3>1 DEF Sampled
  <2>5. ByteBits \in Nat /\ 0 % WordBytes = 0
    BY QspiAssumption
  <2>6. \A i \in 0 .. 0, b \in 0 .. ByteBits - 1 :
          ~(i < 0 \/ b > ByteBits - 1 \/ (b = ByteBits - 1 /\ Sampled'))
    BY <2>4, <2>5
  <2> QED BY <1>3, <2>3, <2>4, <2>5, <2>6 DEF SampleOK
<1>4. CASE state' # "READ"
  <2>1. state' \in {"CMD", "ADDR", "DUMMY", "PRE"} => cntRise' = ByteBits - 1
    BY <1>1, HeadCount
  <2> QED BY <1>4, <2>1 DEF SampleOK
<1> QED BY <1>2, <1>3, <1>4

-----------------------------------------------------------------------------
(* The words that were read.                                               *)
LEMMA TxMoves ==
  ASSUME TxInv, Next, flush = {}
  PROVE  /\ rdEn => ~doWrite /\ txQ' = Tail(txQ) /\ txOut' = Head(txQ)
         /\ ~rdEn => /\ txOut' = txOut
                     /\ txQ' = IF doWrite /\ fall THEN Append(txQ, wrData) ELSE txQ
<1>1. txQ' = IF "tx" \in flush THEN <<>>
             ELSE IF WriteEnabled /\ Len(txQ) # PageWords
             THEN Append(IF rdEn /\ txQ # <<>> THEN Tail(txQ) ELSE txQ, wrData)
             ELSE IF rdEn /\ txQ # <<>> THEN Tail(txQ) ELSE txQ
  BY EveryEdge DEF QueueEdge, TxFifo!Cycle, TxFifo!AfterPop
<1>2. txOut' = IF ~rdEn THEN txOut
               ELSE IF txQ = <<>> THEN Filler ELSE Head(txQ)
  BY EveryEdge DEF QueueEdge, TxFifo!Cycle
<1>3. /\ Len(txQ) \in Nat /\ PageWords \in Nat
      /\ doWrite => Len(txQ) < PageWords /\ Armed
      /\ rdEn => txQ # <<>> /\ ~Armed
  BY TxFacts, QspiAssumption
<1>4. WriteEnabled <=> doWrite /\ fall
  BY <1>3 DEF WriteEnabled
<1>5. CASE rdEn
  BY <1>1, <1>2, <1>3, <1>4, <1>5
<1>6. CASE ~rdEn
  BY <1>1, <1>2, <1>3, <1>4, <1>6
<1> QED BY <1>5, <1>6

(* A word is right when its last byte has been sampled.                    *)
LEMMA WordSampled ==
  ASSUME TxInv, RxInv', CallOK, SampleOK, Next, state = "READ", fall,
         Reading, doWrite'
  PROVE  /\ RightWord(Here, pages, busy', Len(txQ), wrData')
         /\ wrData' = readReg /\ ~doWrite
<1>0. WordBytes \in Nat \ {0} /\ ByteBits \in Nat \ {0}
  BY QspiAssumption
<1>1. /\ RxInv /\ TxOK /\ PhaseOK /\ cntFall \in 0 .. ByteBits - 1
      /\ flow \in 0 .. cnt /\ cnt \in 0 .. PageBytes - 1
  <2>1. RxInv
    BY TxFacts
  <2> QED BY <2>1, ReadEdges DEF TxInv, RxInv
<1>2. /\ cntFall = 0 /\ (LastOfWord \/ flow = cnt)
      /\ wrData' = readReg /\ state' \in Busy
  BY <1>1, ReadEdges DEF Busy
<1>3. ~doWrite
  BY <1>0, <1>1, <1>2, QspiAssumption DEF PhaseOK
<1>4. PICK q : q = flow \div WordBytes
  OBVIOUS
<1>5. PICK r : r = flow % WordBytes
  OBVIOUS
<1>6. Sampled
  BY <1>1, SampledNext
<1>7. /\ q \in Nat /\ r \in 0 .. WordBytes - 1 /\ q * WordBytes + r = flow
      /\ \A i \in 0 .. r, b \in 0 .. ByteBits - 1 :
           i < r \/ b > cntFall \/ (b = cntFall /\ Sampled)
             => RightBit(Here, pages, busy', q * WordBytes + i, b, readReg[i][b])
  BY <1>1, <1>2, <1>4, <1>5, SampledBits
<1>8. ASSUME NEW i \in 0 .. r, NEW b \in 0 .. ByteBits - 1
      PROVE  RightBit(Here, pages, busy', q * WordBytes + i, b, readReg[i][b])
  <2>1. i < r \/ b > cntFall \/ (b = cntFall /\ Sampled)
    BY <1>0, <1>2, <1>6, <1>8
  <2> QED BY <1>7, <2>1
<1>9. Len(txQ) \in Nat /\ Len(txQ) * WordBytes <= flow
      /\ flow < (Len(txQ) + 1) * WordBytes
  <2>1. Len(txQ) \in Nat /\ Came = Len(txQ)
    <3>1. Len(txQ) \in Nat
      BY TxFacts
    <3> QED BY <1>3, <3>1 DEF Came
  <2>2. Came * WordBytes <= flow /\ flow < (Came + 1) * WordBytes
    BY <1>1 DEF TxOK
  <2> QED BY <2>1, <2>2
<1>10. Len(txQ) = q
  <2>1. flow \in Nat
    BY <1>1
  <2>2. flow \div WordBytes = Len(txQ)
    BY <1>9, <2>1, Split
  <2> QED BY <1>4, <2>2
<1>11. CASE Here.cmd = "RDSR"
  <2>1. cnt = 0
    <3>1. CommandOK(Here) /\ cnt = Here.count
      BY <1>1, BusyFacts DEF Busy
    <3> QED BY <1>11, <3>1 DEF CommandOK
  <2>2. 0 \in 0 .. r
    BY <1>0, <1>7
  <2> QED BY <1>2, <1>3, <1>8, <1>10, <1>11, <2>2 DEF RightWord
<1>12. CASE Here.cmd # "RDSR"
  <2>1. r = WordBytes - 1
    <3>1. CASE LastOfWord
      BY <1>5, <3>1 DEF LastOfWord
    <3>2. CASE flow = cnt
      <4>1. CommandOK(Here) /\ cnt = Here.count /\ Here.mode = 1
            /\ Here.cmd # "PP"
        <5>1. CommandOK(Here) /\ cnt = Here.count
          BY <1>1, BusyFacts DEF Busy
        <5>2. Here.mode = 1 /\ Here.dir = "read"
          BY <1>1 DEF PhaseOK
        <5> QED BY <5>1, <5>2 DEF CommandOK
      <4>2. flow = Here.pulls * WordBytes - 1 /\ Here.pulls \in 1 .. PageWords
        BY <1>12, <3>2, <4>1 DEF CommandOK
      <4>3. PICK p \in Nat : p + 1 = Here.pulls
        <5>1. PageWords \in Nat
          BY QspiAssumption
        <5>2. PICK n \in Nat : n = Here.pulls /\ n >= 1
          BY <4>2, <5>1
        <5>3. n - 1 \in Nat /\ (n - 1) + 1 = n
          BY <5>2
        <5> QED BY <5>2, <5>3
      <4>4. /\ (p + 1) * WordBytes = p * WordBytes + WordBytes
            /\ p * WordBytes \in Nat
        BY <1>0, <4>3
      <4>5. p * WordBytes <= flow /\ flow < (p + 1) * WordBytes
            /\ flow + 1 = (p + 1) * WordBytes
        BY <1>0, <4>2, <4>3, <4>4
      <4>6. flow % WordBytes = WordBytes - 1
        BY <1>1, <4>3, <4>5, Split
      <4> QED BY <1>5, <4>6
    <3> QED BY <1>2, <3>1, <3>2
  <2> QED BY <1>2, <1>3, <1>8, <1>10, <1>12, <2>1 DEF RightWord
<1> QED BY <1>11, <1>12

LEMMA QuietWords ==
  ASSUME TxInv', pc' \notin {"pop", "take", "status"},
         \/ ~Reading'
         \/ state' = "IDLE"
  PROVE  WordsRight'
<1>1. TxOK' /\ txQ' \in Seq(Words) /\ FlagsOK'
  BY DEF TxInv, DataInv, DataOK, WordsOK
<1>2. Len(txQ') \in Nat
  BY <1>1
<1>3. ~doWrite' /\ Len(txQ') = 0
  <2>1. CASE ~Reading'
    <3>1. ToPull' = 0
      BY DEF ToPull
    <3> QED BY <1>1, <2>1, <3>1 DEF TxOK
  <2>2. CASE Reading' /\ state' = "IDLE"
    <3>1. Came' = 0
      BY <1>1, <2>2 DEF TxOK
    <3> QED BY <1>2, <3>1 DEF Came
  <2> QED BY <2>1, <2>2
<1> QED BY <1>3 DEF WordsRight

LEMMA WordsReads ==
  ASSUME TxInv, RxInv', CallOK, SampleOK, WordsRight, Next, Reading, Armed'
  PROVE  WordsRight'
<1>1. /\ RxInv /\ ControlInv /\ Armed /\ Active /\ Here' = Here /\ call' = call
      /\ blk' = blk /\ ~StartsChange
  <2>1. RxInv /\ ControlInv /\ ControlInv' /\ Armed /\ Active /\ Here.pulls > 0
        /\ ProgInv /\ WireInv
    BY TxFacts DEF RxInv, ControlInv, Reading, Armed, Active, TxInv, DataInv
  <2>2. Here' = Here /\ call' = call /\ blk' = blk
    BY <2>1, MachineRuns
  <2>3. ~StartsChange
    <3>1. SUFFICES ASSUME StartsChange PROVE FALSE
      OBVIOUS
    <3>2. Changing /\ blk = 2 /\ CommandOK(Here)
      BY <2>1, <3>1, HereIs DEF StartsChange
    <3>3. Here.cmd \in {"SE", "PP"}
      BY <2>1, <3>2, HereIs
    <3> QED BY <2>1, <3>2, <3>3 DEF CommandOK
  <2> QED BY <2>1, <2>2, <2>3
<1>2. /\ pages' = pages
      /\ \A m, word : RightWord(Here, pages, busy, m, word) =>
                        RightWord(Here, pages, busy', m, word)
  BY <1>1, AnswerKept
<1>3. flush = {} /\ ~rdEn /\ Len(txQ) \in Nat /\ txQ \in Seq(Words)
      /\ wrData \in Words
  BY <1>1, TxFacts
<1>4. txQ' = IF doWrite /\ fall THEN Append(txQ, wrData) ELSE txQ
  BY <1>3, TxMoves
<1>5. Pulled = 0 /\ Pulled' = 0 /\ pc' \notin {"pop", "take", "status"}
  BY <1>1 DEF Pulled, Armed
<1>6. /\ doWrite => RightWord(Here, pages, busy', Len(txQ), wrData)
      /\ \A j \in 1 .. Len(txQ) : RightWord(Here, pages, busy', j - 1, txQ[j])
  <2>1. \A j \in 1 .. Len(txQ) : RightWord(Here, pages, busy, 0 + j - 1, txQ[j])
    BY <1>1, <1>5 DEF WordsRight
  <2>2. \A j \in 1 .. Len(txQ) : 0 + j - 1 = j - 1
    BY <1>3
  <2> QED BY <1>2, <2>1, <2>2 DEF WordsRight
<1>7. \A j \in 1 .. Len(txQ') : RightWord(Here, pages, busy', j - 1, txQ'[j])
  <2>1. CASE doWrite /\ fall
    <3>1. /\ Len(txQ') = Len(txQ) + 1 /\ txQ'[Len(txQ) + 1] = wrData
          /\ \A j \in 1 .. Len(txQ) : txQ'[j] = txQ[j]
      BY <1>3, <1>4, <2>1, QueueLemma
    <3>2. Len(txQ) + 1 - 1 = Len(txQ)
      BY <1>3
    <3> QED BY <1>3, <1>6, <2>1, <3>1, <3>2
  <2>2. CASE ~(doWrite /\ fall)
    BY <1>4, <1>6, <2>2
  <2> QED BY <2>1, <2>2
<1>8. doWrite' => RightWord(Here, pages, busy', Len(txQ'), wrData')
  <2>1. SUFFICES ASSUME doWrite'
                 PROVE  RightWord(Here, pages, busy', Len(txQ'), wrData')
    OBVIOUS
  <2>2. \/ state = "READ" /\ fall
        \/ doWrite /\ ~fall
    BY <1>3, <2>1, CameNext
  <2>3. CASE state = "READ" /\ fall
    <3>1. RightWord(Here, pages, busy', Len(txQ), wrData') /\ ~doWrite
      BY <2>1, <2>3, WordSampled
    <3> QED BY <1>4, <3>1
  <2>4. CASE doWrite /\ ~fall
    <3>1. wrData' = wrData
      <4>1. FsmEdge
        BY EveryEdge
      <4> QED BY <2>4, <4>1
           DEF FsmEdge, Idle, Select, Sample, Complete, SendCmd, SendAddress,
               SendDummy, ReadPre, SendData, ReadData, End, Rest, fsmVars
    <3> QED BY <1>4, <1>6, <2>4, <3>1
  <2> QED BY <2>2, <2>3, <2>4
<1>9. Len(txQ') \in Nat
  BY <1>3, <1>4, QueueLemma
<1>10. \A j \in 1 .. Len(txQ') : 0 + j - 1 = j - 1
  BY <1>9
<1> QED BY <1>1, <1>2, <1>5, <1>7, <1>8, <1>10 DEF WordsRight

LEMMA PullSteps ==
  ASSUME TxInv, RxInv', Next, ~Armed', Active', pc' \in {"pop", "take", "status"}
  PROVE  /\ Active /\ call' = call /\ blk' = blk
         /\ \/ Armed /\ Clear /\ pc' = "pop" /\ moved' = moved /\ moved = 0
               /\ state = "DONE"
            \/ ~Armed /\ Wait /\ pc' = pc /\ moved' = moved /\ ~rdEn'
            \/ Pop /\ pc = "pop" /\ ~Armed /\ moved' = moved /\ rdEn' /\ ~rdEn
               /\ pc' \in {"take", "status"}
            \/ Take /\ pc = "take" /\ ~Armed /\ moved' = moved + 1 /\ ~rdEn'
               /\ ~rdEn /\ pc' = "pop"
<1>0. MinGap \in Nat /\ MinGap >= 3
  BY QspiAssumption
<1>1. /\ RxInv /\ ControlInv /\ ProgInv /\ ProgInv' /\ HandOK
      /\ rdEn => pc \in {"take", "status"} /\ gap = MinGap - 1
  BY TxFacts DEF RxInv, ControlInv
<1>2. gap = 0 => ~rdEn
  BY <1>0, <1>1
<1>3. CASE Wait
  <2>1. UNCHANGED <<call, blk, pc, moved>> /\ RegsEdge(NoStore)
    BY <1>3 DEF Wait, progVars, Edge
  <2>2. ~rdEn'
    BY <2>1, QuietFacts
  <2> QED BY <1>3, <2>1, <2>2 DEF Active, Armed
<1>4. CASE Begin
  <2>1. pc' \in {"return", "flush", "ahead", "instr"}
    BY <1>4, FirstPlaces DEF Begin
  <2> QED BY <2>1
<1>5. CASE Return
  BY <1>5 DEF Return
<1>6. CASE Configure \/ Push
  BY <1>6, ConfigureQuiet, PushFacts
<1>7. CASE Poll
  BY <1>7 DEF Poll, Access
<1>8. CASE Clear
  <2>1. /\ pc = "off" /\ Active /\ call' = call /\ Armed
        /\ GoOn /\ pc' = "pop" /\ Here.pulls > 0
    BY <1>1, <1>8, ClearFacts, FirstPlaces DEF Active, Armed
  <2>2. state = "DONE"
    BY <1>1, <2>1 DEF HandOK
  <2>3. moved = 0
    <3>1. CommandOK(Here) /\ moved = Here.pushes
      BY <1>1, <2>1, ProgramPlaces DEF PlaceOK
    <3> QED BY <2>1, <3>1 DEF CommandOK
  <2> QED BY <1>8, <2>1, <2>2, <2>3 DEF GoOn
<1>9. CASE Pop
  <2>1. pc = "pop" /\ gap = 0
    BY <1>9 DEF Pop, Access, At
  <2> QED BY <1>1, <1>2, <1>9, <2>1, ReadingFacts DEF GoOn, Active, Armed
<1>10. CASE Take
  <2>1. /\ call' = call /\ Active /\ gap = 0 /\ pc = "take" /\ ~rdEn'
        /\ pc' = "pop" /\ moved' = moved + 1 /\ blk' = blk
    <3>1. ~Pop
      BY <1>10 DEF Pop, Take, Access, At
    <3> QED BY <1>1, <1>10, <3>1, ReadingFacts, FirstPlaces
  <2> QED BY <1>2, <1>10, <2>1 DEF Active, Armed
<1>11. CASE Status
  <2>1. pc' = "instr" \/ pc' = First(blk + 1)
    BY <1>1, <1>11, ReadingFacts
  <2> QED BY <2>1, FirstPlaces
<1> QED BY <1>3, <1>4, <1>5, <1>6, <1>7, <1>8, <1>9, <1>10, <1>11
        DEF Next, Program

LEMMA WordsPulled ==
  ASSUME TxInv, TxInv', CallOK, WordsRight, Next, ~Armed', Active',
         pc' \in {"pop", "take", "status"}
  PROVE  WordsRight'
<1>1. /\ Active /\ call' = call /\ blk' = blk /\ RxInv' /\ RxInv /\ ProgInv
      /\ \/ Armed /\ Clear /\ pc' = "pop" /\ moved' = moved /\ moved = 0
            /\ state = "DONE"
         \/ ~Armed /\ Wait /\ pc' = pc /\ moved' = moved /\ ~rdEn'
         \/ Pop /\ pc = "pop" /\ ~Armed /\ moved' = moved /\ rdEn' /\ ~rdEn
            /\ pc' \in {"take", "status"}
         \/ Take /\ pc = "take" /\ ~Armed /\ moved' = moved + 1 /\ ~rdEn'
            /\ ~rdEn /\ pc' = "pop"
  <2>1. RxInv' /\ RxInv /\ ProgInv
    BY DEF TxInv, DataInv, WireInv, RxInv, ControlInv
  <2> QED BY <2>1, PullSteps
<1>2. ~StartsChange
  <2>1. Deselected => Armed'
    BY <1>1, Deselects DEF TxInv, DataInv
  <2> QED BY <2>1 DEF StartsChange
<1>3. /\ Here' = Here /\ pages' = pages
      /\ \A m, word : RightWord(Here, pages, busy, m, word) =>
                        RightWord(Here, pages, busy', m, word)
  BY <1>1, <1>2, AnswerKept
<1>4. /\ ~doWrite /\ ~doWrite' /\ flush = {} /\ txQ \in Seq(Words)
      /\ Len(txQ) \in Nat /\ moved \in Nat
      /\ rdEn => txQ # <<>> /\ ~Armed
  <2>1. /\ doWrite => Armed /\ state \in {"READ", "END"}
        /\ flush # {} => ~Armed /\ pc = "flushed"
        /\ txQ \in Seq(Words) /\ Len(txQ) \in Nat
        /\ rdEn => txQ # <<>> /\ ~Armed
    BY TxFacts
  <2>2. doWrite' => Armed'
    BY DEF TxInv, TxOK, Reading
  <2>3. pc # "flushed"
    BY <1>1 DEF Armed
  <2>4. moved \in Nat
    BY <1>1, HereOK
  <2> QED BY <1>1, <2>1, <2>2, <2>3, <2>4
<1>5. /\ rdEn => txQ' = Tail(txQ) /\ txOut' = Head(txQ)
      /\ ~rdEn => txQ' = txQ /\ txOut' = txOut
  BY <1>4, TxMoves
<1>6. /\ \A j \in 1 .. Len(txQ) :
           RightWord(Here, pages, busy', Pulled + j - 1, txQ[j])
      /\ pc \in {"take", "status"} /\ ~rdEn =>
           RightWord(Here, pages, busy', moved, txOut)
  BY <1>1, <1>3 DEF WordsRight
<1>7. SUFFICES
        /\ \A j \in 1 .. Len(txQ') :
             RightWord(Here, pages, busy', Pulled' + j - 1, txQ'[j])
        /\ pc' \in {"take", "status"} /\ ~rdEn' =>
             RightWord(Here, pages, busy', moved', txOut')
  BY <1>3, <1>4 DEF WordsRight
<1>8. CASE Armed /\ Clear /\ pc' = "pop" /\ moved' = moved /\ moved = 0
  <2>1. Pulled = 0 /\ Pulled' = 0
    BY <1>8 DEF Pulled, Armed
  <2> QED BY <1>4, <1>5, <1>6, <1>8, <2>1
<1>9. CASE ~Armed /\ Wait /\ pc' = pc /\ moved' = moved /\ ~rdEn' /\ rdEn
  <2>1. pc \in {"take", "status"}
    BY <1>9, TxFacts
  <2>2. Pulled = moved /\ Pulled' = moved + 1
    BY <1>9, <2>1 DEF Pulled
  <2>3. /\ Len(txQ') = Len(txQ) - 1
        /\ \A j \in 1 .. Len(txQ) - 1 : txQ'[j] = txQ[j + 1]
        /\ txOut' = txQ[1] /\ Len(txQ) >= 1
    BY <1>4, <1>5, <1>9, QueueLemma
  <2>4. RightWord(Here, pages, busy', moved, txOut')
    <3>1. 1 \in 1 .. Len(txQ) /\ Pulled + 1 - 1 = moved
      BY <1>4, <2>2, <2>3
    <3> QED BY <1>6, <2>3, <3>1
  <2>5. ASSUME NEW j \in 1 .. Len(txQ')
        PROVE  RightWord(Here, pages, busy', Pulled' + j - 1, txQ'[j])
    <3>1. j + 1 \in 1 .. Len(txQ) /\ j \in 1 .. Len(txQ) - 1
      BY <1>4, <2>3, <2>5
    <3>2. Pulled + (j + 1) - 1 = Pulled' + j - 1
      BY <1>4, <2>2, <3>1
    <3>3. RightWord(Here, pages, busy', Pulled + (j + 1) - 1, txQ[j + 1])
      BY <1>6, <3>1
    <3> QED BY <2>3, <3>1, <3>2, <3>3
  <2> QED BY <1>9, <2>4, <2>5
<1>10. CASE ~Armed /\ Wait /\ pc' = pc /\ moved' = moved /\ ~rdEn' /\ ~rdEn
  <2>1. Pulled' = Pulled
    BY <1>10 DEF Pulled
  <2> QED BY <1>5, <1>6, <1>10, <2>1
<1>11. CASE Pop /\ pc = "pop" /\ ~Armed /\ moved' = moved /\ rdEn' /\ ~rdEn
            /\ pc' \in {"take", "status"}
  <2>1. Pulled' = moved /\ Pulled = moved
    BY <1>11 DEF Pulled
  <2> QED BY <1>5, <1>6, <1>11, <2>1
<1>12. CASE Take /\ pc = "take" /\ ~Armed /\ moved' = moved + 1 /\ ~rdEn'
            /\ ~rdEn /\ pc' = "pop"
  <2>1. Pulled' = moved + 1 /\ Pulled = moved + 1
    BY <1>12 DEF Pulled
  <2> QED BY <1>5, <1>6, <1>12, <2>1
<1> QED BY <1>1, <1>8, <1>9, <1>10, <1>11, <1>12

LEMMA WordsStep ==
  ASSUME TxInv, TxInv', CallOK, SampleOK, WordsRight, Next
  PROVE  WordsRight'
<1>1. RxInv /\ RxInv' /\ ProgInv'
  BY DEF TxInv, DataInv, WireInv, RxInv, ControlInv
<1>2. CASE Reading /\ Armed'
  BY <1>1, <1>2, WordsReads
<1>3. CASE ~Reading /\ Armed'
  <2>1. pc' \notin {"pop", "take", "status"}
    BY <1>3 DEF Armed
  <2>2. CASE Armed
    <3>1. Here' = Here
      BY <1>1, <1>3, <2>2, MachineRuns DEF RxInv
    <3>2. ~Reading'
      BY <1>3, <2>2, <3>1 DEF Reading
    <3> QED BY <2>1, <3>2, QuietWords
  <2>3. CASE ~Armed
    <3>1. state' = "IDLE"
      BY <1>1, <1>3, <2>3, StartMoves
    <3> QED BY <2>1, <3>1, QuietWords
  <2> QED BY <2>2, <2>3
<1>4. CASE ~Armed' /\ pc' \notin {"pop", "take", "status"}
  BY <1>4, QuietWords DEF Reading
<1>5. CASE ~Armed' /\ pc' \in {"pop", "take", "status"}
  <2>1. Active'
    BY <1>1, <1>5 DEF Active, ProgInv, ProgOK
  <2> QED BY <1>5, <2>1, WordsPulled
<1> QED BY <1>2, <1>3, <1>4, <1>5

LEMMA AnswerStep ==
  ASSUME TxInv, TxInv', CallOK, AnswerOK, Next
  PROVE  AnswerOK'
<1>1. RxInv'
  BY DEF TxInv, DataInv, WireInv
<1> QED BY <1>1, MisoStep, SampleStep, WordsStep DEF AnswerOK

-----------------------------------------------------------------------------
(* The words the call has delivered.                                       *)
LEMMA Delivering ==
  ASSUME ProgInv, Active
  PROVE  /\ Changing => Here.cmd \notin {"JEDEC", "READ", "FAST"}
         /\ ~Changing => /\ Here.cmd \notin {"PP", "RDSR"}
                         /\ call.op \in {"init", "read", "fast"}
         /\ Here.pulls > 0 => Here.cmd \in {"RDSR", "JEDEC", "READ", "FAST"}
         /\ ~Changing /\ Here.pulls > 0 =>
              /\ Len(CommandsOf(call)) = blk
              /\ Here.pulls = IF call.op = "init" THEN 1 ELSE call.words
         /\ ~Changing /\ ~(Here.pulls > 0) =>
              /\ Here.pushes = 0 /\ blk + 1 <= Len(CommandsOf(call))
         /\ blk \in 1 .. 3
<1>1. /\ call \in Calls /\ call # NoCall /\ blk \in 1 .. 3
      /\ blk <= Len(CommandsOf(call)) /\ CommandOK(Here)
      /\ call.op \in {"init", "erase", "program", "read", "fast"}
      /\ call.op = "init" =>
           /\ Here.cmd = IF blk = 1 THEN "RSTEN"
                         ELSE IF blk = 2 THEN "RST" ELSE "JEDEC"
           /\ blk = 3 => Here.pulls = 1
      /\ Changing =>
           /\ blk = 1 => Here.cmd = "WREN"
           /\ blk = 2 => Here.cmd = IF call.op = "erase" THEN "SE" ELSE "PP"
           /\ blk = 3 => Here.cmd = "RDSR"
      /\ call.op \in {"read", "fast"} =>
           /\ blk = 1 /\ Here.cmd \in {"READ", "FAST"}
           /\ Here.pulls = call.words
  BY HereIs
<1>2. /\ call.op = "init" => Len(CommandsOf(call)) = 3
      /\ call.op \in {"read", "fast"} =>
           Len(CommandsOf(call)) = 1 /\ call.words \in 1 .. PageWords
  BY <1>1, CommandsAre
<1>3. /\ Here.cmd \in {"RSTEN", "RST", "WREN", "SE", "PP"} => Here.pulls = 0
      /\ Here.cmd # "PP" => Here.pushes = 0
      /\ PageWords \in Nat
  <2>1. CommandOK(Here)
    BY <1>1
  <2> QED BY <2>1, QspiAssumption DEF CommandOK
<1>4. CASE Changing
  <2>1. Here.cmd \in {"WREN", "SE", "PP", "RDSR"}
    BY <1>1, <1>4
  <2> QED BY <1>1, <1>3, <1>4, <2>1
<1>5. CASE ~Changing
  <2>1. call.op \in {"init", "read", "fast"}
    BY <1>1, <1>5 DEF Changing
  <2>2. CASE call.op = "init"
    BY <1>1, <1>2, <1>3, <1>5, <2>2
  <2>3. CASE call.op \in {"read", "fast"}
    <3>1. call.words \in 1 .. PageWords /\ Here.pulls = call.words
      BY <1>1, <1>2, <2>3
    <3>2. Here.pulls > 0
      BY <1>3, <3>1
    <3>3. blk = 1 /\ Len(CommandsOf(call)) = 1 /\ Here.cmd \in {"READ", "FAST"}
          /\ call.op # "init"
      BY <1>1, <1>2, <2>3
    <3> QED BY <1>1, <1>5, <2>1, <3>1, <3>2, <3>3
  <2> QED BY <2>1, <2>2, <2>3
<1> QED BY <1>4, <1>5

LEMMA TakesWord ==
  ASSUME TxInv, Next, Take
  PROVE  /\ Active /\ ~Changing /\ call' = call /\ ~Armed /\ ~Armed'
         /\ Here.cmd \in {"JEDEC", "READ", "FAST"} /\ ~rdEn
         /\ txOut \in Words /\ buf' = Append(buf, txOut) /\ pc = "take"
         /\ moved \in Nat /\ moved < Here.pulls
         /\ \/ /\ pc' = "pop" /\ moved + 1 < Here.pulls
               /\ moved' = moved + 1 /\ blk' = blk
            \/ pc' = First(blk + 1) /\ moved + 1 = Here.pulls /\ moved' = 0
<1>1. ProgInv /\ RxInv /\ MinGap >= 3 /\ MinGap \in Nat
      /\ (rdEn => gap = MinGap - 1)
  BY TxFacts, QspiAssumption DEF RxInv, ControlInv
<1>2. /\ call # NoCall /\ call' = call /\ Active /\ ~Armed' /\ gap = 0
      /\ pc = "take"
      /\ \/ /\ pc' = "pop" /\ moved + 1 < Here.pulls
            /\ moved' = moved + 1 /\ blk' = blk
         \/ /\ pc' = First(blk + 1) /\ moved + 1 = Here.pulls
            /\ moved' = 0
  BY <1>1, ReadingFacts DEF NextCommand
<1>3. /\ moved \in Nat /\ moved < Here.pulls /\ Here.cmd # "RDSR"
  BY <1>1, <1>2, ProgramPlaces DEF PlaceOK
<1>4. Here.pulls > 0
  <2>1. CommandOK(Here) /\ PageWords \in Nat
    BY <1>1, <1>2, ProgramPlaces, QspiAssumption
  <2>2. Here.pulls \in Nat
    BY <2>1 DEF CommandOK
  <2> QED BY <1>3, <2>2
<1>5. ~Changing /\ Here.cmd \in {"JEDEC", "READ", "FAST"}
  BY <1>1, <1>2, <1>3, <1>4, Delivering
<1>6. txOut \in Words /\ buf' = Append(buf, txOut)
  BY DEF Take, TxInv, DataInv, DataOK, WordsOK
<1> QED BY <1>1, <1>2, <1>3, <1>5, <1>6 DEF Armed

LEMMA BufStep ==
  ASSUME TxInv, BufOK, Next
  PROVE  BufOK'
<1>1. ProgInv /\ PageWords \in Nat
  BY QspiAssumption DEF TxInv, DataInv, WireInv, RxInv, ControlInv
<1>2. ASSUME buf' = buf, call' = call, moved' = moved,
             pc' = "return" <=> pc = "return"
      PROVE  BufOK'
  BY <1>2 DEF BufOK, Changing
<1>3. ASSUME buf' = buf, call' = call, Changing
      PROVE  BufOK'
  BY <1>3 DEF BufOK, Changing
<1>4. CASE Wait
  BY <1>2, <1>4 DEF Wait, progVars
<1>5. CASE Begin
  <2>1. buf' = <<>> /\ moved' = 0 /\ call' \in Calls /\ pc' = First(1)'
    BY <1>5 DEF Begin
  <2>2. Len(CommandsOf(call')) >= 1
    BY <2>1, CommandsAre
  <2>3. First(1)' # "return"
    BY <2>2 DEF First
  <2>4. <<>> \in Seq(Words) /\ Len(<<>>) = 0
    OBVIOUS
  <2> QED BY <2>1, <2>3, <2>4 DEF BufOK
<1>6. CASE Return
  BY <1>6 DEF Return, BufOK
<1>7. CASE Configure
  BY <1>2, <1>7, ConfigureQuiet DEF Configure, Set
<1>8. CASE Push
  <2>1. buf' = buf /\ call' = call /\ pc \in {"ahead", "rest"} /\ Active
    BY <1>8, PushFacts DEF Push, Set, Active
  <2>2. Here.cmd = "PP"
    BY <1>1, <2>1, ProgramPlaces
  <2> QED BY <1>1, <1>3, <2>1, <2>2, Delivering
<1>9. CASE Poll
  <2>1. /\ buf' = buf /\ call' = call /\ moved' = moved /\ pc = "poll"
        /\ pc' # "return"
    BY <1>9 DEF Poll, Access, At, GoOn
  <2> QED BY <1>2, <2>1
<1>10. CASE Clear
  <2>1. /\ call # NoCall /\ call' = call /\ pc = "off" /\ Active /\ buf' = buf
        /\ \/ NextCommand /\ Here.pulls = 0 /\ pc' = First(blk + 1)
           \/ GoOn /\ pc' = "pop" /\ Here.pulls > 0
    <3>1. buf' = buf
      BY <1>10 DEF Clear, Set
    <3> QED BY <1>1, <1>10, <3>1, ClearFacts
  <2>2. CASE Changing
    BY <1>3, <2>1, <2>2
  <2>3. CASE GoOn /\ pc' = "pop"
    BY <1>2, <2>1, <2>3 DEF GoOn
  <2>4. CASE ~Changing /\ NextCommand /\ Here.pulls = 0 /\ pc' = First(blk + 1)
    <3>1. blk + 1 <= Len(CommandsOf(call)) /\ Here.pushes = 0 /\ blk \in 1 .. 3
      BY <1>1, <2>1, <2>4, Delivering
    <3>2. moved = 0
      BY <1>1, <2>1, <3>1, ProgramPlaces DEF PlaceOK
    <3>3. pc' # "return"
      <4>1. blk + 1 \in Nat \ {0}
        BY <3>1
      <4> QED BY <2>4, <3>1, <4>1, FirstFacts, CommandsAre, HereIs, <1>1, <2>1
    <3>4. moved' = moved
      BY <2>4, <3>2 DEF NextCommand
    <3> QED BY <1>2, <2>1, <3>3, <3>4
  <2> QED BY <2>1, <2>2, <2>3, <2>4
<1>11. CASE Pop
  <2>1. /\ buf' = buf /\ call' = call /\ moved' = moved /\ pc = "pop"
        /\ pc' # "return"
    BY <1>11 DEF Pop, Access, At, GoOn
  <2> QED BY <1>2, <2>1
<1>12. CASE Take
  <2>1. /\ Active /\ ~Changing /\ call' = call /\ txOut \in Words
        /\ buf' = Append(buf, txOut) /\ pc = "take" /\ moved \in Nat
        /\ moved < Here.pulls
        /\ \/ pc' = "pop" /\ moved + 1 < Here.pulls /\ moved' = moved + 1
           \/ pc' = First(blk + 1) /\ moved + 1 = Here.pulls
    BY <1>12, TakesWord
  <2>2. buf \in Seq(Words) /\ Len(buf) = moved
    BY <2>1 DEF BufOK, Active
  <2>3. buf' \in Seq(Words) /\ Len(buf') = moved + 1
    BY <2>1, <2>2, QueueLemma
  <2>4. CASE pc' = "pop" /\ moved' = moved + 1
    BY <2>3, <2>4 DEF BufOK
  <2>5. CASE pc' = First(blk + 1) /\ moved + 1 = Here.pulls
    <3>1. Here.pulls > 0
      BY <2>1, <2>5
    <3>2. /\ Len(CommandsOf(call)) = blk /\ blk \in 1 .. 3
          /\ Here.pulls = IF call.op = "init" THEN 1 ELSE call.words
      BY <1>1, <2>1, <3>1, Delivering
    <3>3. pc' = "return"
      <4>1. blk + 1 \in Nat \ {0} /\ ~(blk + 1 <= Len(CommandsOf(call)))
        BY <3>2
      <4> QED BY <2>5, <4>1, FirstFacts
    <3> QED BY <2>1, <2>3, <2>5, <3>2, <3>3 DEF BufOK
  <2> QED BY <2>1, <2>4, <2>5
<1>13. CASE Status
  <2>1. buf' = buf /\ call' = call /\ pc = "status" /\ Active
    BY <1>1, <1>13, ReadingFacts DEF Status
  <2>2. Here.cmd = "RDSR"
    BY <1>1, <2>1, ProgramPlaces DEF PlaceOK
  <2> QED BY <1>1, <1>3, <2>1, <2>2, Delivering
<1> QED BY <1>4, <1>5, <1>6, <1>7, <1>8, <1>9, <1>10, <1>11, <1>12, <1>13
        DEF Next, Program

-----------------------------------------------------------------------------
(* The whole of what the calls of the driver rest on.                      *)
FlashInv == TxInv /\ CallOK /\ AnswerOK /\ BufOK

LEMMA FlashStarts == Init => FlashInv
<1> SUFFICES ASSUME Init PROVE FlashInv
  OBVIOUS
<1>1. /\ call = NoCall /\ pc = "idle" /\ ~busy /\ buf = <<>> /\ state = "IDLE"
      /\ ~doWrite
  BY DEF Init, ControllerInit
<1>2. ~Active /\ ~Changing
  BY <1>1 DEF Active, Changing
<1>3. CallOK
  BY <1>1, <1>2 DEF CallOK
<1>4. AnswerOK
  BY <1>1, <1>2 DEF AnswerOK, MisoOK, SampleOK, WordsRight
<1>5. <<>> \in Seq(Words)
  OBVIOUS
<1>6. BufOK
  BY <1>1, <1>5 DEF BufOK
<1> QED BY <1>3, <1>4, <1>6, TxInit DEF FlashInv

LEMMA FlashStutters ==
  ASSUME FlashInv, UNCHANGED vars
  PROVE  CallOK' /\ AnswerOK' /\ BufOK'
<1>1. /\ UNCHANGED <<call, blk, pc, moved, buf, rdEn, cnt, txQ, txOut>>
      /\ UNCHANGED <<state, csN, cntRise, cntFall, flow, doWrite>>
      /\ UNCHANGED <<readReg, wrData>>
      /\ UNCHANGED <<div, clk, fall, miso, pages, busy, wel, times>>
  BY DEF vars, clockVars, progVars, regVars, queueVars, fsmVars, chipVars
<1>2. /\ Here' = Here /\ (Active' <=> Active) /\ (Changing' <=> Changing)
      /\ (Executed' <=> Executed) /\ (Sampled' <=> Sampled) /\ Pulled' = Pulled
  BY <1>1 DEF Here, Active, Armed, Changing, Executed, Sampled, Pulled
<1>3. CallOK'
  BY <1>1, <1>2 DEF FlashInv, CallOK
<1>4. MisoOK'
  BY <1>1, <1>2 DEF FlashInv, AnswerOK, MisoOK
<1>5. SampleOK'
  BY <1>1, <1>2 DEF FlashInv, AnswerOK, SampleOK
<1>6. WordsRight'
  BY <1>1, <1>2 DEF FlashInv, AnswerOK, WordsRight
<1>7. BufOK'
  BY <1>1, <1>2 DEF FlashInv, BufOK
<1> QED BY <1>3, <1>4, <1>5, <1>6, <1>7 DEF AnswerOK

LEMMA FlashInvStep == FlashInv /\ [Next]_vars => FlashInv'
<1> SUFFICES ASSUME FlashInv, [Next]_vars PROVE FlashInv'
  OBVIOUS
<1>1. TxInv' /\ RxInv'
  BY TxInvStep DEF FlashInv, TxInv, DataInv, WireInv
<1>2. CASE Next
  BY <1>1, <1>2, CallStep, AnswerStep, BufStep DEF FlashInv, AnswerOK
<1>3. CASE UNCHANGED vars
  BY <1>1, <1>3, FlashStutters DEF FlashInv
<1> QED BY <1>2, <1>3

-----------------------------------------------------------------------------
(* The word that is delivered is the right one.                            *)
LEMMA WordInPage ==
  ASSUME NEW m \in Nat, m < PageWords, NEW i \in 0 .. WordBytes - 1
  PROVE  LET k == m * WordBytes + i
         IN  k \in 0 .. PageBytes - 1 /\ k \div WordBytes = m /\ k % WordBytes = i
               /\ k % PageBytes = k
<1>0. /\ WordBytes \in Nat \ {0} /\ PageWords \in Nat
      /\ PageBytes = PageWords * WordBytes /\ PageBytes \in Nat \ {0}
  BY QspiAssumption, Sizes DEF PageBytes
<1>1. (m * WordBytes + i) % WordBytes = i /\ (m * WordBytes + i) \div WordBytes = m
  BY <1>0, DivUnique
<1>2. PICK p \in Nat : p = m * WordBytes
  BY <1>0
<1>3. (m + 1) * WordBytes = p + WordBytes
  BY <1>0, <1>2
<1>4. (m + 1) * WordBytes <= PageWords * WordBytes
  <2>1. m + 1 <= PageWords
    BY <1>0
  <2> QED BY <1>0, <2>1
<1>5. m * WordBytes + i \in 0 .. PageBytes - 1
  BY <1>0, <1>2, <1>3, <1>4
<1>6. (m * WordBytes + i) % PageBytes = m * WordBytes + i
  BY <1>0, <1>5, ModSmall
<1> QED BY <1>1, <1>5, <1>6

LEMMA WordIs ==
  ASSUME NEW w \in Words, NEW v \in Words,
         \A i \in 0 .. WordBytes - 1, b \in 0 .. ByteBits - 1 : w[i][b] = v[i][b]
  PROVE  w = v
<1>1. ASSUME NEW i \in 0 .. WordBytes - 1 PROVE w[i] = v[i]
  <2>1. w[i] \in Bytes /\ v[i] \in Bytes
    BY DEF Words
  <2>2. /\ w[i] = [b \in 0 .. ByteBits - 1 |-> w[i][b]]
        /\ v[i] = [b \in 0 .. ByteBits - 1 |-> v[i][b]]
    BY <2>1 DEF Bytes
  <2>3. [b \in 0 .. ByteBits - 1 |-> w[i][b]] = [b \in 0 .. ByteBits - 1 |-> v[i][b]]
    OBVIOUS
  <2> QED BY <2>2, <2>3, Zenon
<1>2. /\ w = [i \in 0 .. WordBytes - 1 |-> w[i]]
      /\ v = [i \in 0 .. WordBytes - 1 |-> v[i]]
  BY DEF Words
<1>3. [i \in 0 .. WordBytes - 1 |-> w[i]] = [i \in 0 .. WordBytes - 1 |-> v[i]]
  BY <1>1
<1> QED BY <1>2, <1>3, Zenon

LEMMA TakesRight ==
  ASSUME FlashInv, Next, Take
  PROVE  /\ Len(buf) = moved /\ buf' = Append(buf, txOut)
         /\ call.op = "init" => txOut = Identity[1] /\ moved = 0
         /\ call.op \in {"read", "fast"} =>
              /\ txOut = pages[call.page][moved + 1] /\ moved < call.words
              /\ call.page \in Pages /\ call.words \in 1 .. PageWords
         /\ call.op \in {"init", "read", "fast"}
         /\ call # NoCall /\ call' = call /\ moved \in Nat /\ ~Changing
<1>0. WordBytes \in Nat \ {0} /\ PageWords \in Nat /\ 0 * WordBytes = 0
  BY QspiAssumption
<1>1. /\ Active /\ ~Changing /\ call' = call
      /\ Here.cmd \in {"JEDEC", "READ", "FAST"} /\ ~rdEn
      /\ txOut \in Words /\ buf' = Append(buf, txOut) /\ pc = "take"
      /\ moved \in Nat /\ moved < Here.pulls /\ Here.pulls > 0
  <2>1. moved \in Nat /\ moved < Here.pulls /\ Active /\ ProgInv
    BY TakesWord DEF FlashInv, TxInv, DataInv, WireInv, RxInv, ControlInv
  <2>2. Here.pulls > 0
    <3>1. CommandOK(Here)
      BY <2>1, HereOK
    <3>2. Here.pulls \in Nat
      BY <1>0, <3>1 DEF CommandOK
    <3> QED BY <2>1, <3>2
  <2> QED BY <2>2, TakesWord DEF FlashInv
<1>2. /\ call # NoCall /\ Len(buf) = moved
      /\ RightWord(Here, pages, busy, moved, txOut) /\ ProgInv /\ WordsOK
  BY <1>1 DEF FlashInv, AnswerOK, WordsRight, BufOK, Active, TxInv, DataInv,
              DataOK, WireInv, RxInv, ControlInv
<1>3. \A i \in 0 .. WordBytes - 1, b \in 0 .. ByteBits - 1 :
        txOut[i][b] = AnswerOf(Here, pages, moved * WordBytes + i)[b]
  BY <1>1, <1>2 DEF RightWord, RightBit
<1>4. /\ call.op \in {"init", "read", "fast"}
      /\ Here.pulls = IF call.op = "init" THEN 1 ELSE call.words
      /\ call.op = "init" => Here.cmd = "JEDEC"
      /\ call.op \in {"read", "fast"} =>
           Here.cmd \in {"READ", "FAST"} /\ Here.page = call.page
  BY <1>1, <1>2, Delivering, HereIs
<1>5. CASE call.op = "init"
  <2>1. moved = 0 /\ Here.cmd = "JEDEC"
    BY <1>1, <1>4, <1>5
  <2>2. Identity[1] \in Words
    BY KnownWords
  <2>3. ASSUME NEW i \in 0 .. WordBytes - 1, NEW b \in 0 .. ByteBits - 1
        PROVE  txOut[i][b] = Identity[1][i][b]
    <3>1. moved * WordBytes + i = i /\ i % WordBytes = i
      BY <1>0, <2>1, ModSmall
    <3>2. AnswerOf(Here, pages, i) = Identity[1][i]
      BY <2>1, <3>1 DEF AnswerOf
    <3> QED BY <1>3, <3>1, <3>2
  <2> QED BY <1>1, <1>2, <1>5, <2>1, <2>2, <2>3, WordIs
<1>6. CASE call.op \in {"read", "fast"}
  <2>1. /\ call.page \in Pages /\ call.words \in 1 .. PageWords
        /\ moved < call.words /\ Here.page = call.page
        /\ Here.cmd \in {"READ", "FAST"}
    <3>1. call \in Calls
      BY <1>1, <1>2, HereIs
    <3> QED BY <1>1, <1>4, <1>6, <3>1, CommandsAre
  <2>2. moved < PageWords /\ moved + 1 \in 1 .. PageWords
    BY <1>0, <1>1, <2>1
  <2>3. pages[call.page][moved + 1] \in Words
    BY <1>2, <2>1, <2>2 DEF WordsOK
  <2>4. ASSUME NEW i \in 0 .. WordBytes - 1, NEW b \in 0 .. ByteBits - 1
        PROVE  txOut[i][b] = pages[call.page][moved + 1][i][b]
    <3>1. PICK k : k = moved * WordBytes + i
      OBVIOUS
    <3>2. k \div WordBytes = moved /\ k % WordBytes = i /\ k % PageBytes = k
      BY <1>1, <2>2, <3>1, WordInPage
    <3>3. AnswerOf(Here, pages, k) = pages[call.page][moved + 1][i]
      BY <2>1, <3>2 DEF AnswerOf
    <3> QED BY <1>3, <3>1, <3>3
  <2> QED BY <1>1, <1>2, <1>6, <2>1, <2>3, <2>4, WordIs
<1> QED BY <1>4, <1>5, <1>6

-----------------------------------------------------------------------------
(* Each step is a step of what the driver promises, or none.               *)
LEMMA CallChanges ==
  ASSUME Next
  PROVE  /\ Begin \/ Return \/ call' = call
         /\ Begin \/ Take \/ buf' = buf
<1>1. CASE Wait
  BY <1>1 DEF Wait, progVars
<1>2. CASE Begin \/ Return
  BY <1>2 DEF Return
<1>3. CASE Configure
  BY <1>3 DEF Configure, Set, Access
<1>4. CASE Push
  BY <1>4 DEF Push, Set, Access
<1>5. CASE Poll \/ Pop
  BY <1>5 DEF Poll, Pop, Access
<1>6. CASE Clear
  BY <1>6 DEF Clear, Set, Access
<1>7. CASE Take
  BY <1>7 DEF Take, Access
<1>8. CASE Status
  BY <1>8 DEF Status, Access
<1> QED BY <1>1, <1>2, <1>3, <1>4, <1>5, <1>6, <1>7, <1>8 DEF Next, Program

LEMMA BeginsCall ==
  ASSUME FlashInv, RxInv', Begin
  PROVE  Flash!Begin
<1>1. pages' = pages /\ (busy' <=> busy) /\ {busy, busy'} \subseteq BOOLEAN
  <2>1. DataInv /\ FlagsOK
    BY DEF FlashInv, TxInv, DataInv, DataOK
  <2>2. busy' \in BOOLEAN
    <3>1. Next
      BY DEF Next
    <3> QED BY <2>1, <3>1, ChipTyped DEF DataInv, DataOK
  <2> QED BY <2>1, <2>2, CallBegins DEF FlashInv, FlagsOK
<1>2. busy' = busy
  BY <1>1
<1> QED BY <1>1, <1>2 DEF Begin, Flash!Begin, Flash!NoCall, NoCall

LEMMA PerformsCall ==
  ASSUME FlashInv, RxInv', Next, StartsChange
  PROVE  Flash!Perform
<1>1. DataInv /\ WireInv
  BY DEF FlashInv, TxInv, DataInv
<1>2. /\ times = 0 /\ times' = 1 /\ busy' /\ call' = call
      /\ pages' = [p \in Pages |->
           IF call.op = "erase" /\ SectorOf[p] = SectorOf[call.page]
           THEN Erased
           ELSE IF call.op = "program" /\ p = call.page
           THEN Combine(pages[p], call.data) ELSE pages[p]]
  BY <1>1, CallPerforms DEF FlashInv
<1>3. busy' = TRUE
  <2>1. busy' \in BOOLEAN
    BY <1>1, ChipTyped DEF DataInv, DataOK
  <2> QED BY <1>2, <2>1
<1>4. buf' = buf
  <2>1. Armed /\ Active
    BY <1>1, Deselects DEF StartsChange
  <2>2. ~Begin
    BY <2>1 DEF Begin, Active
  <2>3. ~Take
    BY <2>1, TakesWord DEF FlashInv
  <2> QED BY <2>2, <2>3, CallChanges
<1>5. Flash!Modifies(call)
  BY DEF StartsChange, Changing, Flash!Modifies
<1> QED BY <1>2, <1>3, <1>4, <1>5 DEF Flash!Perform

LEMMA DeliversWord ==
  ASSUME FlashInv, Next, Take, UNCHANGED <<pages, busy, times>>
  PROVE  Flash!Deliver
<1>0. PageWords \in Nat
  BY QspiAssumption
<1>1. /\ Len(buf) = moved /\ buf' = Append(buf, txOut)
      /\ call.op = "init" => txOut = Identity[1] /\ moved = 0
      /\ call.op \in {"read", "fast"} =>
           /\ txOut = pages[call.page][moved + 1] /\ moved < call.words
           /\ call.page \in Pages /\ call.words \in 1 .. PageWords
      /\ call.op \in {"init", "read", "fast"}
      /\ call # NoCall /\ call' = call /\ moved \in Nat
  BY TakesRight
<1>2. ~Flash!Modifies(call) /\ call # Flash!NoCall
  BY <1>1 DEF Flash!Modifies, Flash!NoCall, NoCall
<1>3. CASE call.op = "init"
  <2>1. Len(Identity) = 1
    BY DEF Identity
  <2>2. Len(buf) < Len(Identity) /\ buf' = Append(buf, Identity[Len(buf) + 1])
    BY <1>1, <1>3, <2>1
  <2> QED BY <1>1, <1>2, <1>3, <2>2 DEF Flash!Deliver
<1>4. CASE call.op # "init"
  <2>1. /\ txOut = pages[call.page][moved + 1] /\ moved < call.words
        /\ call.page \in Pages /\ call.words \in 1 .. PageWords
    BY <1>1, <1>4
  <2>2. pages[call.page] \in [1 .. PageWords -> Words]
    BY <2>1 DEF FlashInv, TxInv, DataInv, DataOK, WordsOK
  <2>3. PICK s : s = SubSeq(pages[call.page], 1, call.words)
    OBVIOUS
  <2>4. Len(s) = call.words
        /\ \A i \in 1 .. call.words : s[i] = pages[call.page][i]
    <3>1. pages[call.page] \in Seq(Words) /\ Len(pages[call.page]) = PageWords
      BY <1>0, <2>2
    <3> QED BY <1>0, <2>1, <2>3, <3>1
  <2>5. Len(buf) < Len(s) /\ buf' = Append(buf, s[Len(buf) + 1])
    <3>1. moved + 1 \in 1 .. call.words
      BY <1>0, <1>1, <2>1
    <3> QED BY <1>1, <2>1, <2>4, <3>1
  <2> QED BY <1>1, <1>2, <1>4, <2>3, <2>5 DEF Flash!Deliver
<1> QED BY <1>3, <1>4

LEMMA ReturnsCall ==
  ASSUME FlashInv, RxInv', Return
  PROVE  Flash!Return
<1>1. DataInv /\ ProgInv /\ Next
  BY DEF FlashInv, TxInv, DataInv, WireInv, RxInv, ControlInv, Next, Program
<1>2. /\ pages' = pages /\ (busy' <=> busy) /\ times' = times /\ ~busy
  BY <1>1, CallReturns DEF FlashInv
<1>3. busy' = busy
  <2>1. busy' \in BOOLEAN /\ busy \in BOOLEAN
    BY <1>1, ChipTyped DEF DataInv, DataOK, FlagsOK
  <2> QED BY <1>2, <2>1
<1>4. /\ call # NoCall /\ pc = "return" /\ call' = NoCall /\ buf' = buf
  BY DEF Return, At
<1>5. call \in Calls /\ blk > Len(CommandsOf(call))
  BY <1>1, <1>4 DEF FlashInv, CallOK, ProgInv, ProgOK
<1>6. call.op \in {"init", "erase", "program", "read", "fast"}
  BY <1>5, CommandsAre
<1>7. Flash!Modifies(call) => times = 1
  <2>1. SUFFICES ASSUME Changing PROVE times = 1
    BY <1>4 DEF Changing, Flash!Modifies
  <2>2. Len(CommandsOf(call)) = 3
    BY <1>5, <2>1, CommandsAre DEF Changing
  <2>3. blk > 2
    <3>1. blk \in Nat
      BY <2>1 DEF FlashInv, CallOK
    <3> QED BY <1>5, <2>2, <3>1
  <2> QED BY <2>1, <2>3 DEF FlashInv, CallOK
<1>8. ~Flash!Modifies(call) =>
        Len(buf) = IF call.op = "init" THEN 1 ELSE call.words
  BY <1>4 DEF FlashInv, BufOK, Changing, Flash!Modifies
<1>9. Len(Identity) = 1
  BY DEF Identity
<1>10. CASE Flash!Modifies(call)
  BY <1>2, <1>3, <1>4, <1>7, <1>10
     DEF Flash!Return, Flash!NoCall, NoCall, Flash!Modifies
<1>11. CASE call.op = "init"
  <2>1. ~Flash!Modifies(call)
    BY <1>11 DEF Flash!Modifies
  <2> QED BY <1>2, <1>3, <1>4, <1>8, <1>9, <1>11, <2>1
          DEF Flash!Return, Flash!NoCall, NoCall
<1>12. CASE call.op \in {"read", "fast"}
  <2>1. ~Flash!Modifies(call) /\ call.op # "init"
    BY <1>12 DEF Flash!Modifies
  <2> QED BY <1>2, <1>3, <1>4, <1>8, <2>1
          DEF Flash!Return, Flash!NoCall, NoCall
<1> QED BY <1>6, <1>10, <1>11, <1>12 DEF Flash!Modifies

LEMMA FlashStep ==
  ASSUME FlashInv, FlashInv', [Next]_vars
  PROVE  [Flash!Next]_(Flash!vars)
<1>1. DataInv /\ RxInv' /\ FlagsOK /\ FlagsOK'
  BY DEF FlashInv, TxInv, DataInv, WireInv, DataOK
<1>2. CASE UNCHANGED vars
  <2>1. UNCHANGED <<pages, busy, call, times, buf>>
    BY <1>2 DEF vars, chipVars, progVars
  <2> QED BY <2>1 DEF Flash!vars
<1>3. CASE Begin
  BY <1>1, <1>3, BeginsCall DEF Flash!Next
<1>4. CASE Next /\ StartsChange
  BY <1>1, <1>4, PerformsCall DEF Flash!Next
<1>5. CASE Return
  BY <1>1, <1>5, ReturnsCall DEF Flash!Next
<1>6. CASE Next /\ ~Begin /\ ~StartsChange /\ ~Return
  <2>1. /\ pages' = pages /\ times' = times /\ call' = call
        /\ busy' => busy
        /\ Take \/ buf' = buf
    <3>1. pages' = pages /\ times' = times /\ (busy' => busy)
      BY <1>1, <1>6, SameChip DEF FlashInv, StartsChange
    <3> QED BY <1>6, <3>1, CallChanges
  <2>2. busy \in BOOLEAN /\ busy' \in BOOLEAN
    BY <1>1 DEF FlagsOK
  <2>3. CASE busy /\ ~busy'
    <3>1. Changing
      BY <2>3 DEF FlashInv, CallOK
    <3>2. ~Take
      BY <1>6, <3>1, TakesRight
    <3>3. busy' = FALSE
      BY <2>2, <2>3
    <3> QED BY <2>1, <2>3, <3>2, <3>3 DEF Flash!Next, Flash!Finish
  <2>4. CASE busy' = busy
    <3>1. CASE Take
      BY <1>6, <2>1, <2>4, <3>1, DeliversWord DEF Flash!Next
    <3>2. CASE ~Take
      BY <2>1, <2>4, <3>2 DEF Flash!vars
    <3> QED BY <3>1, <3>2
  <2> QED BY <2>1, <2>2, <2>3, <2>4
<1> QED BY <1>2, <1>3, <1>4, <1>5, <1>6

(* Each call of the driver takes effect on the chip exactly once, delivers *)
(* what the chip holds, and returns only when the chip is ready again.     *)
THEOREM FlashImplemented == Spec => ImplementsFlash
<1>1. Init => Flash!Init
  BY DEF Init, Flash!Init, Flash!NoCall, NoCall
<1> QED BY <1>1, FlashStarts, FlashInvStep, FlashStep, PTL
        DEF Spec, ImplementsFlash, Flash!Spec
=============================================================================
