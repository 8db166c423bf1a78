------------------------------ MODULE NorBench ------------------------------
(***************************************************************************)
(* The two test benches of the QSPI NOR controller, driving the controller *)
(* of QspiNor with no chip at the other end.  tb_axi_qspi_nor.cpp accesses *)
(* the registers of axi_qspi_nor and gives up a wait after so many polls;  *)
(* tb_qspi_nor_master.cpp drives the inputs of qspi_nor_master itself and  *)
(* rests for a fixed time.  What the benches print for a person to look at *)
(* in the waveform is kept: the bits on the wires of the last command.     *)
(***************************************************************************)
EXTENDS QspiNor
LOCAL INSTANCE SequencesExt

CONSTANTS ProgramWords, \* words of the short page program (4)
          FastWords,    \* words of the fast read (3)
          OddBytes,     \* bytes of the unaligned page program (11)
          MaxPolls,     \* max_ticks of wait_done (100, 1000, 2000)
          Delay         \* edges the master's own bench rests (10000)

ASSUME BenchAssumption ==
  /\ {ProgramWords, FastWords} \subseteq 1 .. PageWords
  /\ OddBytes \in 1 .. PageBytes /\ {MaxPolls, Delay} \subseteq Nat \ {0}

VARIABLES test,    \* the bench that runs and its test, or Nil
          step,    \* how far the test is, 0 before the first
          wire,    \* the bits since the controller was last selected
          pulled,  \* the words the test has pulled
          polls,   \* waited of wait_done
          warned   \* a bench has printed [TIMEOUT] or [WARN]

benchVars == <<test, step, wire, pulled, polls, warned>>

(* The bytes of a payload count up.  A page of the source is as long as    *)
(* its bytes have values; where a longer one makes the count wrap, it goes *)
(* on one further, which keeps the words of a page apart.                  *)
NumberByte(k) == LET n == k + k \div 2 ^ ByteBits
                 IN  [b \in 0 .. ByteBits - 1 |-> (n \div 2 ^ b) % 2]
NumberWord(w) == [i \in 0 .. WordBytes - 1 |-> NumberByte(w * WordBytes + i)]
Payload(words) == [w \in 1 .. words |-> NumberWord(w - 1)]

Test(cmd, dir, hasAddr, mode, count, dummy, words, pulls) ==
  [cmd |-> cmd, dir |-> dir, addr |-> hasAddr, mode |-> mode, cnt |-> count,
   dummy |-> dummy, words |-> words, pulls |-> pulls]

AxiTests ==
  <<Test("WREN", "read", FALSE, 0, 0, 0, 0, 0),
    Test("PP", "write", TRUE, 1, ProgramWords * WordBytes - 1, 0,
         ProgramWords, 0),
    Test("SE", "read", TRUE, 0, 0, 0, 0, 0),
    Test("WRSR", "write", FALSE, 1, 0, 0, 1, 0),
    Test("FAST", "read", TRUE, 1, FastWords * WordBytes - 1, DummyBits,
         0, FastWords),
    Test("RDSR", "read", FALSE, 1, 0, 0, 0, 1),
    Test("RDSR", "read", FALSE, 1, 0, 0, 0, 0)>>

MasterTests ==
  <<Test("PP", "write", TRUE, 1, PageBytes - 1, 0, PageWords, 0),
    Test("PP", "write", TRUE, 1, OddBytes - 1, 0, PageWords, 0),
    Test("PP", "write", TRUE, 1, WordBytes - 1, 0, 1, 0)>>

Tests == [axi |-> AxiTests, master |-> MasterTests]
Page == CHOOSE p \in Pages : TRUE

-----------------------------------------------------------------------------
Step(do) == <<[do |-> do]>>
Store(reg, val) == <<[do |-> "store", reg |-> reg, val |-> val]>>
WaitDone == Step("poll") \o Store("CTRL", CtrlOff)

(* The accesses of a test of tb_axi_qspi_nor.cpp; some tests store the     *)
(* address after the count.                                                *)
push_rx_fifo(word) == Step("room") \o Store("DATA", word)
pull_tx_fifo == Step("any") \o Step("pop") \o Step("take")
make_ctrl(t) == [start |-> TRUE, dir |-> t.dir, addr |-> t.addr,
                 mode |-> t.mode, dummy |-> t.dummy, flush |-> {}]

AxiScript(t) ==
  FlattenSeq([w \in 1 .. t.words |-> push_rx_fifo(NumberWord(w - 1))])
    \o Store("INSTR", t.cmd) \o Store("ADDR", Page)
    \o Store("DATA_CNT", t.cnt) \o Store("CTRL", make_ctrl(t)) \o WaitDone
    \o FlattenSeq([w \in 1 .. t.pulls |-> pull_tx_fifo])

(* The inputs tb_qspi_nor_master.cpp changes, each for how many edges.     *)
Drives(in, edges) == <<[do |-> "drive", in |-> in, edges |-> edges]>>
MasterScript(t) ==
  FlattenSeq([w \in 1 .. t.words |-> Drives([data |-> NumberWord(w - 1)], 1)])
    \o Drives([none |-> TRUE], 1)
    \o Drives([instr |-> t.cmd, addr |-> Page, cnt |-> t.cnt,
               ctrl |-> make_ctrl(t)], Delay)
    \o Drives([ctrl |-> [make_ctrl(t) EXCEPT !.start = FALSE]], 1)
FlushBoth == Drives([flush |-> {"rx", "tx"}], 1) \o Drives([none |-> TRUE], 1)

ScriptOf(c) ==
  LET t == Tests[c.bench][c.n]
  IN  IF c.bench = "axi" THEN AxiScript(t)
      ELSE (IF c.n = 3 THEN FlushBoth ELSE <<>>) \o MasterScript(t)
TestNumbers == UNION {[bench: {b}, n: DOMAIN Tests[b]] : b \in DOMAIN Tests}
BenchScript == [c \in TestNumbers |-> ScriptOf(c)]

Over == step > Len(BenchScript[test])
AllOver == Over /\ test.n = Len(Tests[test.bench])
Entry == BenchScript[test][step]
Now == IF test = Nil \/ step = 0 THEN "nothing"
       ELSE IF Over THEN "over" ELSE Entry.do
Current == Tests[test.bench][test.n]

-----------------------------------------------------------------------------
(* The inputs of the master, held until they are changed; the requests to  *)
(* the FIFOs are pulses.                                                   *)
Held(in, name, old) == IF name \in DOMAIN in THEN in[name] ELSE old
InputsEdge(in) ==
  /\ ctrl' = Held(in, "ctrl", ctrl) /\ instr' = Held(in, "instr", instr)
  /\ addr' = Held(in, "addr", addr) /\ cnt' = Held(in, "cnt", cnt)
  /\ flush' = Held(in, "flush", {})
  /\ rxWr' = ("data" \in DOMAIN in) /\ rxDin' = Held(in, "data", rxDin)
  /\ rdEn' = FALSE

(* A bit is on the wires once the serial clock has risen: MOSI first, and, *)
(* once a read has sent its head, MISO, which may be different each time   *)
(* it is looked at.                                                        *)
HeadOf(t) == CmdBits + (IF t.addr THEN AddrBits ELSE 0) + t.dummy
Answers(t) == t.mode = 1 /\ t.dir = "read"
Seen == IF Answers(Current) /\ Len(wire) >= HeadOf(Current) THEN miso ELSE mosi

WireEdge ==
  /\ wire' = IF csN /\ ~csN' THEN <<>>
             ELSE IF rise /\ SpiClk /\ ~csN THEN Append(wire, Seen) ELSE wire
  /\ miso' \in (IF state = "READ" /\ rise' THEN {0, 1} ELSE {miso})
  /\ UNCHANGED <<frame, pages, busy, wel>>

ControllerEdge(starts) ==
  /\ ClockEdge /\ QueueEdge /\ FetchEdge /\ FsmEdge /\ WireEdge
  /\ runs' = IF starts THEN 0 ELSE IF Deselected THEN runs + 1 ELSE runs
  /\ UNCHANGED <<times, progVars>>

BusEdge(store) == RegsEdge(store) /\ ControllerEdge(Starts(store))
PortEdge(in) ==
  /\ InputsEdge(in)
  /\ ControllerEdge("ctrl" \in DOMAIN in /\ in.ctrl.start)
QuietEdge == IF test.bench = "axi" THEN BusEdge(NoStore)
             ELSE PortEdge([none |-> TRUE])

(* One access of the AXI bench. *)
BenchAccess(do, store, to) ==
  /\ Now = do /\ gap = 0 /\ step' = to /\ gap' = MinGap - 1 /\ test' = test
  /\ BusEdge(store)

BenchStore == /\ BenchAccess("store", Entry, step + 1)
              /\ UNCHANGED <<polls, pulled, warned>>

(* wait_done gives up after max_ticks polls; START is cleared either way.  *)
BenchPoll ==
  LET gaveUp == polls = MaxPolls
  IN  /\ BenchAccess("poll", NoStore,
                     IF done \/ gaveUp THEN step + 1 ELSE step)
      /\ polls' = IF done \/ gaveUp THEN 0 ELSE polls + 1
      /\ warned' = (warned \/ gaveUp) /\ UNCHANGED pulled

(* push_rx_fifo drops its word if the FIFO is full ... *)
BenchRoom ==
  LET full == Len(rxQ) = PageWords
  IN  /\ BenchAccess("room", NoStore, IF full THEN step + 2 ELSE step + 1)
      /\ warned' = (warned \/ full) /\ UNCHANGED <<polls, pulled>>

(* ... and pull_tx_fifo makes one up if it is empty.                       *)
BenchAny ==
  LET empty == txQ = <<>>
  IN  /\ BenchAccess("any", NoStore, IF empty THEN step + 3 ELSE step + 1)
      /\ pulled' = IF empty THEN Append(pulled, Nil) ELSE pulled
      /\ warned' = (warned \/ empty) /\ UNCHANGED polls

BenchPop == BenchAccess("pop", [reg |-> "POP"], step + 1)
              /\ UNCHANGED <<polls, pulled, warned>>
BenchTake == BenchAccess("take", NoStore, step + 1)
               /\ pulled' = Append(pulled, txOut) /\ UNCHANGED <<polls, warned>>

(* The master's own bench changes its inputs at exact edges. *)
BenchDrive ==
  /\ Now = "drive" /\ gap = 0
  /\ step' = step + 1 /\ gap' = Entry.edges - 1 /\ test' = test
  /\ PortEdge(Entry.in) /\ UNCHANGED <<polls, pulled, warned>>

(* The next test.  The first one finds the serial clock in any phase. *)
BenchNext ==
  /\ gap = 0 /\ step' = 1 /\ pulled' = <<>>
  /\ \/ step = 0 /\ test' = test
     \/ Now = "over" /\ ~AllOver /\ test' = [test EXCEPT !.n = @ + 1]
  /\ UNCHANGED <<clockVars, regVars, queueVars, fetchVars, fsmVars, chipVars,
                 progVars, gap, runs, times, wire, polls, warned>>

(* The AXI bench calls delay between its accesses, but not between the     *)
(* polls of a wait.                                                        *)
MayDelay == \/ Now = "nothing" \/ AllOver
            \/ test.bench = "axi" /\ (Now = "poll" => polls = 0)
BenchWait ==
  /\ gap = 0 => MayDelay
  /\ Elapse /\ QuietEdge /\ UNCHANGED <<test, step, pulled, polls, warned>>

BenchStep == \/ BenchStore \/ BenchPoll \/ BenchRoom \/ BenchAny \/ BenchPop
             \/ BenchTake \/ BenchDrive \/ BenchNext \/ BenchWait

(* The controller is driven by the driver, or by one of the benches.       *)
NorInit == /\ Init
           /\ test \in {Nil} \cup [bench: DOMAIN Tests, n: {1}]
           /\ test # Nil => pages = [p \in Pages |-> Erased]
           /\ step = 0 /\ wire = <<>> /\ pulled = <<>>
           /\ polls = 0 /\ warned = FALSE
NorNext == \/ test = Nil /\ Next /\ UNCHANGED benchVars
           \/ test # Nil /\ BenchStep
NorSpec == NorInit /\ [][NorNext]_<<vars, benchVars>>

-----------------------------------------------------------------------------
(* Type invariant. *)
BenchTypeOK ==
  /\ TypeOK /\ test \in TestNumbers \cup {Nil}
  /\ Len(wire) <= CmdBits + AddrBits + DummyBits + PageBytes * ByteBits + 1
  /\ \A i \in DOMAIN pulled : pulled[i] = Nil \/ pulled[i] \in Words
  /\ polls \in 0 .. MaxPolls

BitsOf(field, value, width) ==
  [i \in 1 .. width |-> [field |-> field, value |-> value, bit |-> width - i]]
SentBy(t) ==
  BitsOf("instr", t.cmd, CmdBits)
    \o (IF t.addr THEN BitsOf("addr", Page, AddrBits) ELSE <<>>)
    \o (IF t.mode = 1 /\ t.dir = "write"
        THEN FlattenSeq([k \in 1 .. t.cnt + 1 |->
                           BitsOf("data", NumberByte(k - 1), ByteBits)])
        ELSE <<>>)
HeardBy(t) ==
  [w \in 1 .. t.pulls |-> [i \in 0 .. WordBytes - 1 |->
     LET k == (w - 1) * WordBytes + i
     IN  IF k > t.cnt THEN NumberByte(0)
         ELSE [b \in 0 .. ByteBits - 1 |->
                 wire[HeadOf(t) + (k + 1) * ByteBits - b]]]]
LengthOf(t) ==
  HeadOf(t) + (IF t.mode = 0 THEN 0 ELSE (t.cnt + 1) * ByteBits)
            + (IF Answers(t) THEN 1 ELSE 0)

(* When a test is over its command has gone out once, from the first bit   *)
(* of the instruction to the last of as many bytes as it asked for, also   *)
(* where they end within a word and where the test before left words       *)
(* behind; what is pulled is what was on MISO, with zeros for the bytes    *)
(* that were not read.  A read clocks one bit more than it takes.          *)
TestServed ==
  Now = "over" =>
    LET t == Current
    IN  /\ runs = 1 /\ Len(wire) = LengthOf(t)
        /\ SubSeq(wire, 1, Len(SentBy(t))) = SentBy(t)
        /\ pulled = HeardBy(t)

(* No test ends in a timeout, finds the FIFO full when it pushes a word or *)
(* empty when it pulls one.                                                *)
NoWarning == ~warned
=============================================================================
