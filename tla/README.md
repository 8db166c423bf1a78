# Verification of picosoc

TLA+ models of the picosoc hardware (Verilog under `src/rtl`) together with the
programs that drive it (`src/software`, the test benches), model-checked with
TLC and, where it pays, proved with TLAPS.

## The system

A PicoRV32 processor reaches seven slaves over an AXI4-Lite interconnect. All
of it runs on one clock; concurrency here means that every register changes at
every clock edge, and that peripherals go on working between two accesses of
the program.

| part | state | operations | talks to |
|---|---|---|---|
| processor memory port (`picorv32.v`) | `mem_valid`, address, data, strobes, the word last read | one access at a time: raise `mem_valid`, wait for `mem_ready`, drop it for at least a cycle | adapter |
| AXI adapter (`picorv32_axi_adapter`) | one "accepted" flag per channel, `xfer_done` | splits an access into channel handshakes, re-arms after the transfer | interconnect |
| interconnect (`axi_interconnect.v`, printed by `axi_gen.c`) | remembered write route, default-response flags | decodes addresses, routes five channels, answers unmapped addresses | adapter, slaves |
| block RAM, ROM (`axil_ram.v`, `axil_rom.v`) | memory | strobed store, load | interconnect |
| GPIO (`axi_gpio.v`) | two registers, write latches | store, load | interconnect |
| FIFO slave (`axi_fifo.v`) and ring (`fifo.v`) | registers; ring, two pointers, registered output | push on store, pop on load, flush | interconnect; the ring also serves the QSPI controller |
| UART (`axi_uart.v`, `uart_tx.v`, `uart_rx.v`) | prescaler, data and flag registers; bit machines | transmit, receive, flags | program, line |
| QSPI NOR controller (`axi_qspi_nor.v`, `qspi_nor_master.v`) | command registers, two FIFOs, transaction machine | flash commands | program, flash chip |
| MDIO controller (`axi_mdio.v`, `mdio_master.v`) | START/RW/DONE, address and data; MDC divider, transaction machine | PHY register read and write | program, PHY |
| AXI stream blocks (`axi_stream_*.v`) | eight-word buffers | receive, process, send | each other; not in the SoC top |
| firmware (`main.c`, `firmware.c`, `qspi_nor.c`) | - | polling drivers, the register dump and its number formatting | all of the above |
| test benches (`tb_*.cpp`) | what they have been answered | drive one block each, through its bus or its ports, at exact cycles | one block each |
| top (`picosoc.v`) | reset counter | holds reset for 100 cycles | everything |

What makes each of them hard, and what it means for it to be correct:

* **Memory path.** Five handshakes, each with its own registered valid and
  ready, must pair up: an access must take effect exactly once, and a response
  must not outlive its access, because the adapter takes *any* response as the
  answer to the current one. The FIFO data port pops on a wire that ignores the
  handshake.
* **FIFO.** Full and empty differ in one bit of two wrapping pointers.
* **MDIO.** A level-sensitive START, a DONE flag copied a cycle late, a program
  that polls at its own pace, and a frame that may start at any phase of MDC.
* **UART.** Flags written by program and hardware in the same cycle; a program
  that updates them by read-modify-write.
* **QSPI.** A serial machine that must stop its clock when a FIFO runs empty
  and start it again without an extra bit; two state machines that share a
  request flag; a chip that ignores commands while it is busy.
* **Addresses.** A generated decoder, a linker script and three drivers name the
  same addresses independently.
* **Register dump.** Numbers are printed by chains of comparisons and a loop
  that must keep the right zeros and drop the others.
* **Test benches.** They rest for fixed times, give up waits and count pulses:
  what they report is worth something only if these numbers fit the hardware.
* **Stream blocks.** Valid/ready streams with buffers that count to eight.

## Modules

| module | what it is |
|---|---|
| `BusAccess` | the accesses and words shared by the next two |
| `MemPort` | abstract: one access at a time, each atomic and exactly once |
| `AxiBus` | the memory path, one step per clock edge, and its inductive invariant |
| `MCAxiBus` | TLC instances of `AxiBus` |
| `AxiBus_proofs` | proofs about `AxiBus` |
| `FifoQueue` | abstract: a bounded queue with a registered output |
| `Fifo` | the ring buffer of `fifo.v` |
| `Fifo_proofs` | proofs about `Fifo` |
| `Mdio` | registers, MDC divider and state machine of the MDIO controller, the PHY, and its programs: firmware and two test benches |
| `Mdio_proofs` | proofs about `Mdio` |
| `MCMdio` | TLC instances of `Mdio` |
| `Uart` | registers, transmitter and receiver of the UART, the device at the other end, and a program |
| `Uart_proofs` | proofs about `Uart` |
| `MCUart` | TLC instances of `Uart` |
| `NorFlash` | abstract: flash calls, each done once and waited for |
| `QspiNor` | registers, FIFOs and transaction machine of the QSPI controller, the flash chip, and the calls of `qspi_nor.c` |
| `QspiNor_proofs` | proofs about `QspiNor` |
| `NorBench` | `QspiNor` with the two test benches of the controller as further programs |
| `MCQspiNor` | TLC instance of `NorBench` |
| `AddressMap` | the address map, its two decoders, the addresses of drivers and linked image |
| `AddressMap_proofs` | proofs about `AddressMap` |
| `FirmwareText` | the lines of the register dump: `print_dec`, `print_hex` and `main.c` |
| `FirmwareText_proofs` | proofs about `FirmwareText` |
| `StreamProc` | the stream block that receives, processes and returns batches, and a bench |
| `StreamProc_proofs` | proofs about `StreamProc` |

A definition named `X_Something`, commented "Mutated form of X", is not part of
a model. It is the definition X with a plausible bug; putting it in the place of
X makes a property of some run fail, which shows that the property can.

### AxiBus

One step is one rising edge: `Edge` is the conjunction of what each block does
to its own registers (`AdapterEdge`, `WriteRouteEdge`, `DefaultSlaveEdge`,
`WriteChannelsEdge`, `ReadChannelsEdge`, `RegistersEdge`, `FifoEdge`), and
unprimed operators (`Awvalid`, `MAwready`, ...) are the wires of the current
cycle, under the names of the source. The interconnect is the output of
`axi_gen.c`, and its definitions are those of the text the generator prints. The four actions of `Next` are what the
processor's memory state machine can do at that edge: stay idle, issue an
access, wait, take the answer.

The seven slaves have three kinds of bus side, and the module has one set of
slaves for each: *joint* (RAM, ROM, UART: address and data accepted together),
*split* (GPIO, MDIO, QSPI write side: two latches) and *FIFO* (split writes and
a data port whose read takes three cycles). A slave holds one plain register
(and a FIFO); an address is a slave and one bit, plain or data port. Address
decoding is thereby an arbitrary assignment (what it really is: `AddressMap`). What registers *do* in UART,
QSPI and MDIO is the subject of their own modules.

The FIFO behind a data port appears as a sequence. `FifoEdgeIsCycle` proves that
the bus uses it as `FifoQueue` allows, and `Fifo` that the ring is a
`FifoQueue`.

Reset does not drive `ack_arvalid`, `ack_wvalid`, `xfer_done` and the output
register of the FIFO: `Init` leaves them free.

`ImplementsMemPort` is the refinement to `MemPort`. The mapping says when an
access has taken effect (`Performed`: a response is on its way, or the FIFO has
been popped for it), which word it will return (`Answer`) and what a FIFO holds
(`Stored`: its contents and the word waiting to be pushed).

### Fifo

The port signals of a cycle are the parameters of `Edge`. `Held` is the words
between the pointers; under it the ring implements `FifoQueue` step by step.

### Mdio

`MdcEdge`, `FsmEdge`, `RegsEdge` and `PhyEdge` make up a clock edge. A frame is
the record it encodes plus the number of bits shifted out. The PHY is external:
it samples the line when MDC rises and drives it when MDC falls, insists on a
full preamble and checks that frame bit *k* is on the line at its *k*-th rising
edge. Accesses are `MinGap` = 3 edges apart at least, the shortest distance the
memory path of `AxiBus` allows between the edges at which two accesses take
effect. There are three programs:

* `"firmware"`, `mdio_read` of `main.c`, which leaves clearing START to the
  hardware;
* `"bench"`, the two sequences of `tb_axi_mdio.cpp`, which reads and writes and
  clears START itself. The store that clears START follows the one that sets it
  without delay, as in the test bench; a program that waited until the end of the
  transaction would see it repeated (see the finding `mdio_stale`);
* `"direct"`, `tb_mdio_master.cpp`, which drives the inputs of `mdio_master`
  itself, looks at no flag, rests for `Delay` edges and then takes the result.
  Its reads are answered by `phy_respond_read` (`Respond`), which takes the place
  of the PHY's output: it looks for a start pattern after a preamble's worth of
  ones, counts the pulses to the turnaround and shifts out its word. It does not
  look at opcode and address, so these bits are arbitrary to it (`LineBits`).

A program is a sequence of named steps (`Script`): a store or load, a poll, a
check, an edge at the master's inputs.

`MdioAssumption` says what the programs take for granted of the constants. The
benches clear START within half a period of MDC after they set it
(`MinGap <= Div`: 8 or 9 edges in `tb_axi_mdio.cpp`, 5 in `tb_mdio_master.cpp`, where
`Div` is 10), and the rest of the direct bench is longer than a frame that waits for
a full period first (`Delay` 10000, where 2 * 10 * (32 + 32 + 2) = 1320).

`OncePerStart` counts the transactions begun since START was last set.

### Uart

`TxEdge`, `RxEdge` and `RegsEdge` are the three always blocks; their order of
assignments (reset pulse first, state machine over it; store first, hardware
over it) is in the formulas. The other end of the line is external: it sends
words at a bit time of its own and at any phase of our clock, may disturb the
line for up to half a bit, and hears us by sampling the middle of each bit. The
program calls `putchar` of `firmware.c`, one load and one store for each
`|=` and `&=`. A program may only talk,
only listen or do both in turn (`Programs`). The repository has no function that
receives; `Look`, `LoadRdr`,
`LoadForAck` and `ClearRx` do what the comments of `axi_uart.v` describe, at
once when the flag is up. Accesses are 3 edges apart, as for `Mdio`.

Three history variables say what the properties need: a word that is `owed` to
us because its stop bit has begun, the word last sent, and whether a word
received is still `unread`.

### QspiNor

An edge is the conjunction of the clock generator (`ClockEdge`), the registers
(`RegsEdge`), the two FIFOs (`QueueEdge`), the machine that fetches a word ahead
(`FetchEdge`), the transaction machine (`FsmEdge`) and the chip (`ChipEdge`). The
states of the transaction machine act at the `clk_rise` or the `clk_fall` pulse;
`Rest` is every other cycle. The FIFOs are `FifoQueue`s, which `Fifo` implements.

A bit towards the chip is named by its field, the field's value and its number,
so that the chip can tell a bit out of place from one that happens to be right;
a bit from the chip is a bit. The chip is external, as `tb_nor_master.v` plays
it: it takes a bit when `spi_clk` rises, drives one when it falls, and does what
it was told when it is deselected after a whole command. While it erases or
programs it answers status requests and ignores everything else; when it gets
ready is free, within an answer too.

The program makes any sequence of the calls of `qspi_nor.c`. A call is a sequence of
commands (`CommandsOf`), and each command is issued by the same accesses: `Configure`
stores the registers, `Push` the words, `Poll` waits for DONE, `Clear` takes START
back, `Pop` and `Take` pull the words read, `Status` looks at the chip's answer and
asks again while it is busy. Accesses are `MinGap` = 3 edges apart at least, as for
`Mdio`. `QspiAssumption` has `4 * Div <= 3 * MinGap` (8 and 9 in the source): DONE may
stay up for two periods of the serial clock after START was cleared, and the first
poll of the next command comes after three more accesses at least (INSTR, DATA_CNT,
CTRL). The driver stores
a page before it sets START. The model also lets a program store the first
`ahead` words before and the rest after, which is what the stall of the
controller (`qspi_nor_master.v:335`) is for. `flash_init` also waits 30 µs for
the chip's reset; the chip of the model is reset at once.

`fifo_rd_req_set` is not reset. `Init` has it clear, as the FPGA and the simulator
start it.

Two history variables: how many commands the chip got since START was last set
(`runs`), and how often the call in progress changed its contents (`times`).
`ImplementsFlash` is the refinement to `NorFlash`: the chip's contents and its
busy flag are the same in both, the words the program has read so far are the
result.

### NorBench

Adds two programs to `QspiNor`, both without a chip: what they do is compared
with the bits on the wires. `step` is the place in the sequence of accesses, or of edges
at the inputs of the master, that a test makes. `test` says which bench runs and which of its tests;
it is `Nil` when the flash driver does, and every run is of one of the three.

* `tb_axi_qspi_nor.cpp` (`AxiTests`) makes seven commands through the registers:
  with and without address, data and dummy cycles, in both directions. It
  pushes a word only if the FIFO has room, pulls one only if there is one, gives
  up a wait after `MaxPolls` polls, and clears START either way. It may rest
  between any two accesses, except between the polls of a wait.
* `tb_qspi_nor_master.cpp` (`MasterTests`) drives the inputs of
  `qspi_nor_master` at exact edges: a page, a page program that ends within a
  word and leaves most of what it pushed behind, a flush of both FIFOs, and one
  word more. Between commands START is low for as many edges as there.

`wire` is what has been on MOSI, or MISO once a read has sent its head, since the
controller was selected; MISO is arbitrary. The words pushed count up instead of
being those of the bench, so that any two bits can be told apart. `TestServed`
compares the wires with the command asked for and the words pulled with the
wires.

### AddressMap

Addresses are those of words. `Peripherals` is the list in `main` of `axi_gen.c`,
`Decode` the if/else chain generated for a list, `decode_addr` the function that
is in `axi_interconnect.v`. `Drivers` are the register blocks of the three
drivers, and the sections those of `sections.lds`; code and constants count as
`text`. The module has no state and no run of its own: what it says is about
every address and is proved. TLC evaluates its assumption, with the real
addresses, in the runs of `MCAxiBus`.

### FirmwareText

A text is the sequence of characters given to `putchar`, with a string constant as
one symbol. `print_dec` is its three chains of comparisons, `print_hex` its eight
turns, each of which may drop a zero, and `Line` the line of `main.c` for one
register. Operators only: what they promise is proved.

### StreamProc

One conjunct per always block. The bench sends a batch, holding each word until
TREADY, or reads one, and rests between the two for at least `Settle` edges, as
`tb_axi_stream_data_processing.cpp` does; like it, it may send a batch over one
that was never read. `Pauses` lets the source drop TVALID between words;
`Handshakes` replaces the bench's way of reading (TREADY up, look at TDATA after
each edge) by the handshake of the protocol with an arbitrary TREADY.

## Runs

| run | asks | bounds |
|---|---|---|
| `bus_core` | is the memory path an atomic memory port, with every access completing | one slave of each shape, one-byte words of two values, FIFO of two words; stores to mapped addresses only |
| `bus_bytes` | the same with two byte lanes and two slaves of one shape | no FIFO; the program does not store to one of the slaves |
| `bus_decerr` | *violation*: the default response is only for unmapped addresses | stores to an unmapped address allowed |
| `fifo_ring` | is the ring a queue | capacity 4, three words; the pointers wrap many times |
| `mdio` | are frames intact and does polling end, for the firmware and both benches; do the benches get each PHY access done exactly once, with the right word | `Div` 3, preamble 3, address part 2, data 2 bits, two PHY registers; `Delay` 70 |
| `mdio_stale` | *violation*: `mdio_read` returns the register it named | the same, firmware only |
| `uart` | is every word received once and intact, at any phase and back to back, and announced until it is read if the program listens; does each putchar send its word once and poll for a flag that comes; is no reception taken twice | `Prescaler` 6, bit times 5 and 6 of the other end, one stop bit, two-bit words of two values; programs that listen, and that do both |
| `uart_lost` | *violation*: a reception keeps its flag until it is read, with `putchar` running | as `uart`, bit time 6, a program that talks |
| `nor` | does each flash call take effect exactly once and return the right words when the chip is ready; does every bit reach the chip in its place, with stalls; is no word lost in a FIFO; is DONE always that of the command just started; does a stall end; do the test benches get every command on the wires once and whole, and what was read, without a timeout | fields of two bits, words of two bytes, pages of three words; `Div` 2; two pages in one sector, one buffer of three distinct words; benches: page programs of one word, one page and three bytes, a fast read of two words, `MaxPolls` 30, `Delay` 100 |
| `stream_bench` | does the bench get back what it sent | batches of 4 one-bit words, arbitrary buffer contents at reset |
| `stream_pause` | *violation*: the same with a source that pauses | the same |
| `stream_handshake` | *violation*: the same with a sink that handshakes | the same |

Why the bounds are enough. At most one access is outstanding, so the memory path
never involves more than the addressed slave and the one addressed before it;
every pair of shapes occurs, in `bus_core`, as consecutive accesses. Two words
of FIFO separate "full" from "one left". In `Mdio` the lengths of preamble,
address and data are only counted down, so short ones reach every boundary; `Div`
must be 3 for a line conflict of less than half an MDC period to be visible.
In `Uart` both ends are out of phase by any number of cycles, and words follow
each other with or without a gap, down to a start bit right behind a stop bit;
`Prescaler` 6 separates the edge of a bit from its middle and lets the other end
be one cycle per bit faster. In `QspiNor` lengths are counted down as in `Mdio`; a
page fills a FIFO and wraps the byte counter, as 64 words and 256 bytes do in the
source, and three words to a page make first, inner and last ones. `Delay` and
`MaxPolls` stand for the rests and limits of the benches (10000 cycles, 100 to
2000 polls) and are chosen to hold one command of the small instance, as those
hold one of the real controller. The page program of three bytes is the transfer
that ends within a later word, as eleven bytes do, and leaves a whole word behind
in the FIFO. In `StreamProc` four words make first, last and inner ones.

The receiver samples each bit one cycle after it begins, not in its middle
(`uart_rx.v:62` starts the count for the first data bit at half a bit instead of
zero). Hence the bit times of `uart`: a sender may be faster, by less
than one bit over a whole word, but not slower by more than a cycle over a word.

### Findings

* `bus_decerr`. After a store to an unmapped address the default response flag
  is set again in the cycle it is accepted (`axi_interconnect.v:401-407`) and
  answers the next access to any slave. Everything proved about `AxiBus` beyond
  its types therefore assumes that the program does not store to unmapped
  addresses (`NoSlave \notin WriteTargets`); loads from them are harmless.
* `mdio_stale`. START is cleared one cycle too late, so the first transaction
  after reset runs twice. (Later ones do not: DONE is still up from the
  transaction before and clears START in time.) If a poll falls into the one
  cycle between the transaction and its repetition, and the program starts the
  next read before the repetition ends, that read can return the register read
  before. `main.c` prints between two reads, which takes longer than a
  transaction; a caller that reads two registers in a row is exposed.
* `uart_lost`. "Clear TX complete flag" (`firmware.c:38`) and "Start
  transmission" store a whole register loaded three cycles or more before, and
  clear the flag of a word that came in meanwhile.
* `stream_pause`. A batch counts as complete when its last word is next, not when
  it is there. The test bench never pauses inside a batch.
* `stream_handshake`. TVALID rises even if the sink was not ready a cycle before,
  TDATA does not: the first transfer carries a stale word. The test bench looks
  at TDATA after the edge instead, and so sees the right words.

Also seen. `print_dec` prints nothing for a tens digit of zero, so that 105 comes
out as `15` (`firmware.c:75`; `DecimalShown`); `main.c` only prints registers up to 29,
the check commented out at the end of `qspi_nor.c` would print page and byte
numbers. A read command clocks one bit more than it takes. A data mode of 2 or 3 with an address never leaves SEND_ADDRESS
(`qspi_nor_master.v:303`), and a write with dummy cycles turns into a read
(SEND_DUMMY goes to READ_PRE); the driver uses neither. The comment at `INSTR_MEM`
in `axi_gen.c` says 256 KiB; the size is 0x8000, which is also what `picosoc.v` and
`sections.lds` have. `axi_mdio.v:268` places `reg_value_write_i` in bits 9 to 24, the code
(`axi_mdio.v:306`) and the test bench in bits 10 to 25.

`error_bits.txt` next to the controller lists words read back wrong, without saying how.
All differ in the bit sent first, and where the word before is listed too it is the one of that word. That is
what fetching ahead gives with a divider of 1: a word is in `data_to_write` three edges
after the fall at which it was requested, and the next fall comes after two. With the
divider of the source (`DIV = 2`, `qspi_nor_master.v:41`) it comes after four, and
`BitsInOrder` holds for it and for every larger one; `QspiAssumption` leaves 1 out.

## Fairness

`AxiBus` assumes that the clock runs while an access is outstanding (weak
fairness of `Wait \/ Transfer`). `Mdio` assumes that the clock runs and that the
program keeps executing; the delay between two polls is finite but unbounded. (Its
benches are clocked with it; `OperationReturns` for the direct one says that
`phy_respond_read` recognizes every frame and comes to an end.)
`Uart` assumes nothing: that `putchar` returns is stated as `PollIsAnswered`,
by which whatever ends the polling is always on its way. `QspiNor` assumes nothing either: `StallEnds` is the
safety form of its progress. `StreamProc` assumes that
the clock runs, and with it the bench, which is clocked too.

## Proofs

`Fifo_proofs`, for every capacity and word set:

* `PointersCorrect`: the pointers are at most `Depth` apart and the flags exact.
  The invariant is inductive by itself; the lemma `FlagsExact` about two
  arbitrary pointers carries the arithmetic.
* `Implements`: the ring implements `FifoQueue`. `HeldStep` shows the effect of
  an edge on the words held, from how places move with the pointers.

`AxiBus_proofs`, for every set of slaves, words, lanes and FIFO capacity:

* `TypeCorrect`.
* `BusInvariant`: `IInv`, by induction on the clock. It is needed because each
  property relates registers of different blocks that no single block controls:
  it says that nothing is in progress outside the addressed slave
  (`QuietElsewhere`), that the adapter's and the interconnect's flags agree
  (`AcksAgree`), that both channels of a split slave move together
  (`ChannelsInStep`), in which phase the access is (`AccessPhase`), that a FIFO
  slave is ready before a read can arrive (`ReadyAhead`), and that a word on its
  way into a FIFO finds room (`QueueBounded`).
* `ResponsesMatch`, `LatchesSafe`, `PopsAccepted`: consequences of `IInv`.
* `Implements`: the memory path implements `MemPort`.
* `FifoEdgeIsCycle`: the link to `FifoQueue`.

`AddressMap_proofs`, for every address and every placement of the regions that
satisfies `AddressMapAssumption`:

* `DecodeExact`: for *every* list of peripherals that do not overlap (windows
  aligned, memories ending below the top of the address space), the generated
  decoder selects the peripheral whose range holds the address, and no other. The
  order of the list, on which the chain depends, does not matter.
* `GeneratedIsCurrent`: the decoder in the repository is the one its generator
  writes for its list.
* `DriversReachTheirSlave`: the registers the drivers name reach their
  peripheral, and the few address bits it sees tell them apart.
* `ImageInMemory`: an image the linker accepts is fetched and copied from the
  instruction memory and stores to the data memory only, each word to a place of
  its own. Start-up therefore meets the hypothesis below.

`FirmwareText_proofs`, for every number:

* `DecimalShown`: `print_dec` prints the digits of a number below 1000 just when it
  is below 100 or its tens digit is not zero. `ChainDivides` shows that a chain
  of comparisons divides by its unit; the rest compares digits.
* `FourDigits`: `print_hex(v, 4)` prints a 16-bit value in four digits, zeros included.
* `DumpIsFaithful`: every line of the dump shows its register and both values, and
  `OK` just when they agree.

`Mdio_proofs`, for every divider, every length of preamble, head and data, and every
set of programs that satisfies `MdioAssumption`. All of it follows from one inductive
invariant, `StaysInStep`, because no property holds of one machine alone: the
master shifts on pulses that trail MDC by a cycle, the PHY counts on MDC itself, and
the program looks at flags that trail both. The parts of `IInv` are

* `ClockOK`: where the two pulses can be up;
* `Sync`: for each state of the master, how many bits the PHY has counted and which
  frame it has understood; `Sampled` says whether the PHY has already taken the bit now
  on the line, which is the one place where the two counts differ;
* `Quiet`: when the PHY drives, the master does not;
* `ProgInv`: for each program and each of its steps, where the transaction is. For the
  direct bench it bounds what is left of a transaction by the edges left of its rest,
  and tells where `phy_respond_read` stands in the frame.

Consequences: `FramesIntact`, `NeverContends`, `BenchesServed`, `StartsOnce`,
`TypeCorrect`. (`StartsOnce` is about the benches: the firmware's first transaction
does run twice, see `mdio_stale`.)

`Uart_proofs`, for every prescaler, word length, set of words and stop bits:

* `PollsAnswered`: `TxPhase` relates the step of the program to the transmitter, before,
  at work or finished with its flag up. It holds for every `MinGap`.
* `NeverTakenTwice`, for `MinGap >= 3`, the distance the memory path guarantees: a flag
  that outlives the reception it announced does so only until the reset pulse the
  program has caused (`RxPhase`).
* `ListenerKeepsAll`, for `MinGap >= 3` and four accesses that fit in a frame. A race
  between two clocks: `ListenPhase` bounds the edges since the receiver went idle from
  below by what the program has done since. With the prescaler of `uart_init` (290) the frame
  is more than 2000 edges. In run `uart` it is 19 edges against 13, too far apart for a word to be complete
  in the very cycle in which the flag of the one before is cleared. That case is for the
  theorem: its hypothesis allows frames as short as 22 edges with `MinGap` 5, where it does
  occur (`Uart.cfg` with `MinGap` 5 and `StopCfg` 1 shows it) and the order of assignments in
  `uart_rx.v`, the reset pulse first and the state machine over it, keeps the word announced.
* `SendsOnce`: the other end's counter stays with the transmitter's bit and counter
  (`EarPlace`), and the sample in the middle of a bit is the bit being sent (lemma
  `Sample`), so that it hears the word once (`HeardOK`).

`StreamProc_proofs`, for every number of words and every word:

* `TypeCorrect`, for any source and sink.
* `BatchComesBack`, for a source that does not pause and the bench's way of reading
  (the two runs that expect a violation show that neither can be dropped) and at least `N + 3`
  edges of rest. The invariant says for each edge since the last word where both
  state machines stand and how much of the batch is worked on (`Working`), and
  how the output side closes again (`Drained`). TLC finds it broken with a rest of `N + 2`;
  the bench rests 20 edges or more, where `N + 3` is 11.

`Fifo_proofs` also proves `TypeCorrect` of the ring.

`QspiNor_proofs`, for every width of the fields, page size, divider and pace of the
program that satisfy `QspiAssumption`. The theorems are about `Spec`, the flash driver
(and programs that store only part of a page ahead). The inductive invariant grows in
layers, each resting on those before it:

* `ControlCorrect`: `ControlInv`, the serial clock (`ClockOK`), the place of the program
  and the registers it has set (`ProgInv`), and the handshake of START and DONE
  (`HandOK`). It relates how long ago the program made its last accesses (`Elapsed`) to
  how long ago the clock rose (`SinceRise`); this is where `4 * Div <= 3 * MinGap` is
  needed. `DoneIsOwnCorrect` follows.
* `RxCorrect`: what each state counts (`PhaseOK`) and the words for the chip (`RxOK`).
  `Popped` words have left the FIFO, `Given` of them are meant for the wire, and the
  machine that fetches ahead is where the edges since the last fall put it (`Stage`).
  This is why the word behind the last byte of a word is replaced in time, and never
  within a byte. `StallEndsCorrect` follows.
* `WireCorrect`: the chip has taken the first `Sent - Due` bits of the command and holds
  what they say (`Holds`); the bit on the wire is the next. `BitsInOrderCorrect` follows.
* `TxCorrect`: types (`DataOK`), and the words read: those handed over and in hand
  (`Came`) are as many as the bytes counted, and later as many as are still to be
  pulled (`ToPull`). `NothingLostCorrect` and `TypeCorrect` follow.
* `FlashImplemented`: the refinement to `NorFlash`, without bounds on calls, pages or
  words. `FlashInv` adds what the call has made of the chip so far (`CallOK`), that the
  bit driven, the bits sampled and the words queued are those the command asks for
  (`AnswerOK`), and how many words were delivered (`BufOK`). Besides `Begin` and `Return`, the steps that are not
  stutters are `Execute` for a command that modifies (lemma `WholeCommand`: it was received
  whole), the end of the chip's work, and `Take`.

In `AxiBus_proofs`, all but `TypeCorrect` and `FifoEdgeIsCycle` are under the hypothesis that no
store goes to an unmapped address.

Only model-checked:

* liveness (`ImplementsFairMemPort`, `OperationReturns`, `BatchCompletes`), which is
  beyond the prover;
* `ReceivesEach` of `Uart`. It needs how far two clocks may drift apart within a
  word, a relation between products of bit times and bit counts;
* the test benches of the QSPI controller (`BenchTypeOK`, `NoWarning`, `TestServed` of
  `NorBench`). They are programs of their own, without a chip, and one drives the machine
  past its registers: each would need its own `ProgInv`, `HandOK` and `WireOK`.

## Not modelled

* The instruction set core of PicoRV32 (third-party; only its memory state
  machine and AXI adapter matter to the bus), pads and clock buffers. `axil_rom` is writable over the bus in the source; it
  is a joint slave like any other.
* Sections the linker places by itself and a stack deeper than the 4 KiB that
  `sections.lds` reserves.
* `flash_erase_all`, a loop over `flash_sector_erase`.
* `axi_stream_master.v` and `axi_stream_slave.v`, templates that nothing
  instantiates; the processing block is built from the two.
* The UART before `uart_init`, when its prescaler is 0.
* `tb_picosoc.cpp`, which only runs the clock, and `tb_axil_ram.cpp`, whose accesses
  are stores and loads as in `AxiBus` except that it awaits READY before it raises
  VALID.
* What the benches print; the commands commented out in `tb_qspi_nor_master.cpp`.
* The module header and port lists that `axi_gen.c` prints.

## Plan

1. Proofs: `ReceivesEach` of `Uart`; `TestServed` of `NorBench`.
2. Start-up: the copy and clear loops of `start.s` as a program of `MemPort`.
3. The control of the processor as far as `picosoc.v` configures it: when
   instruction fetch, prefetch and data access use the memory port.
4. `axi_stream_master` and `axi_stream_slave` connected to each other.
