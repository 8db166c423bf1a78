-------------------------------- MODULE Mdio --------------------------------
(***************************************************************************)
(* The MDIO controller, one step per clock edge: the registers of          *)
(* axi_mdio.v, mdio_master.v, the PHY on the wire and the program that     *)
(* reads and writes PHY registers.                                         *)
(*                                                                         *)
(* Data: a frame is kept as the record it encodes together with the number *)
(* of bits already shifted out; a PHY register is a function from bit      *)
(* numbers to bits.  On the wire are a Clause 22 PHY (external), which      *)
(* samples the line when MDC rises and drives it when MDC falls, and, in   *)
(* place of its output, the answering side of tb_mdio_master.cpp.          *)
(***************************************************************************)
EXTENDS Naturals, Sequences

CONSTANTS Div,       \* clock cycles per half period of MDC (10)
          Preamble,  \* preamble bits (32)
          OpBits,    \* start, opcode, PHY and register address (14)
          DataBits,  \* bits of a register (16)
          PhyRegs,   \* register addresses the program uses
          Nil,       \* "no frame"
          MinGap,    \* clock edges between two accesses of the program
          Delay,     \* edges the master's own bench rests (10000)
          Programs   \* who drives it (see below)

Words == [0 .. DataBits - 1 -> {0, 1}]
Requests == [rw: {"read", "write"}, reg: PhyRegs, data: Words]
FrameBits == OpBits + 2 + DataBits

(* The benches clear START within half a period of MDC after they set it,  *)
(* and the rest of the master's own bench is longer than a frame.          *)
ASSUME MdioAssumption ==
  /\ Div \in Nat /\ MinGap \in 2 .. Div
  /\ {Preamble, OpBits} \subseteq Nat \ {0, 1} /\ DataBits \in Nat \ {0}
  /\ Delay \in Nat /\ Delay >= 2 * Div * (Preamble + FrameBits + 1)
  /\ Programs \subseteq {"bench", "firmware", "direct"}
  /\ Nil \notin Requests \cup {0, 1}

VARIABLES
  div, mdc, rise, fall,              \* MDC generator
  state, bitCnt, value, shifted,     \* transaction FSM and shift register
  oe, done, word, rdata,             \* mdio_write_o, done_o, the word read
  start, rw, flag, cfg,              \* r0[0], r0[1], r0[2], r1
  phyCnt, phyFrame, phyBit, ones, phy, \* PHY: bits seen, frame, output
  resp,                              \* where phy_respond_read stands
  program, pc, gap, want, got, runs  \* the program

mdcVars == <<div, mdc, rise, fall>>
fsmVars == <<state, bitCnt, value, shifted, oe, done, word, rdata>>
regVars == <<start, rw, flag, cfg>>
phyVars == <<phyCnt, phyFrame, phyBit, ones, phy, resp>>
vars == <<mdcVars, fsmVars, regVars, phyVars,
          program, pc, gap, want, got, runs>>

ZeroWord == [b \in 0 .. DataBits - 1 |-> 0]
Silent == [phase |-> "off", prev |-> 0, n |-> 0]

Init ==
  /\ div = 0 /\ mdc = FALSE /\ rise = FALSE /\ fall = FALSE
  /\ state = "IDLE" /\ bitCnt = 0 /\ value = Nil /\ shifted = 0
  /\ oe = TRUE /\ done = FALSE /\ word = ZeroWord /\ rdata = ZeroWord
  /\ start = FALSE /\ rw = "write" /\ flag = FALSE
  /\ cfg \in [reg: PhyRegs, data: {ZeroWord}]
  /\ phyCnt = 0 /\ phyFrame = Nil /\ phyBit = Nil /\ ones = 0
  /\ phy \in [PhyRegs -> Words] /\ resp = Silent
  /\ program \in Programs
  /\ pc = 0 /\ gap = 0 /\ want \in Requests /\ got = ZeroWord
  /\ runs = 0

-----------------------------------------------------------------------------
(* MDC is the clock divided by 2 * Div; rise and fall are high for one     *)
(* cycle after it changed.                                                 *)
(* Mutated form of Tick: one cycle too long. *)
Tick_OffByOne == div = Div
Tick == div = Div - 1
MdcEdge == /\ div' = IF Tick THEN 0 ELSE div + 1
           /\ mdc' = IF Tick THEN ~mdc ELSE mdc
           /\ rise' = (Tick /\ ~mdc)
           /\ fall' = (Tick /\ mdc)

(* Mutated form of Idle: DONE is a pulse instead of a level. *)
Idle_PulsedDone ==
  /\ state = "IDLE"
  /\ oe' = TRUE /\ done' = FALSE
  /\ IF start
     THEN /\ value' = [rw |-> rw, reg |-> cfg.reg, data |-> cfg.data]
          /\ shifted' = 0 /\ state' = "PREAMBLE"
          /\ bitCnt' = Preamble - 1
     ELSE UNCHANGED <<value, shifted, state, bitCnt>>
  /\ UNCHANGED <<word, rdata>>

(* The transaction FSM.  The request is captured in value when it starts,  *)
(* but rw is looked at again in later states.                              *)
Idle ==
  /\ state = "IDLE"
  /\ oe' = TRUE
  /\ IF start
     THEN /\ value' = [rw |-> rw, reg |-> cfg.reg, data |-> cfg.data]
          /\ shifted' = 0 /\ state' = "PREAMBLE"
          /\ bitCnt' = Preamble - 1 /\ done' = FALSE
     ELSE UNCHANGED <<value, shifted, state, bitCnt, done>>
  /\ UNCHANGED <<word, rdata>>

(* Mutated form of SendPreamble: the frame starts on a rising edge. *)
SendPreamble_OnRise ==
  /\ state = "PREAMBLE"
  /\ IF rise
     THEN /\ oe' = TRUE
          /\ IF bitCnt = 0
             THEN /\ bitCnt' = IF rw = "read" THEN OpBits - 1
                               ELSE FrameBits - 1
                  /\ state' = "OPCODE"
             ELSE bitCnt' = bitCnt - 1 /\ state' = state
     ELSE UNCHANGED <<oe, bitCnt, state>>
  /\ UNCHANGED <<value, shifted, done, word, rdata>>

SendPreamble ==
  /\ state = "PREAMBLE"
  /\ IF fall
     THEN /\ oe' = TRUE
          /\ IF bitCnt = 0
             THEN /\ bitCnt' = IF rw = "read" THEN OpBits - 1
                               ELSE FrameBits - 1
                  /\ state' = "OPCODE"
             ELSE bitCnt' = bitCnt - 1 /\ state' = state
     ELSE UNCHANGED <<oe, bitCnt, state>>
  /\ UNCHANGED <<value, shifted, done, word, rdata>>

SendFrame ==
  /\ state = "OPCODE"
  /\ IF fall
     THEN /\ shifted' = shifted + 1
          /\ IF bitCnt # 0
             THEN oe' = TRUE /\ bitCnt' = bitCnt - 1 /\ state' = state
             ELSE IF rw = "read"
             THEN oe' = FALSE /\ bitCnt' = 1 /\ state' = "TA"
             ELSE state' = "FINISH" /\ UNCHANGED <<oe, bitCnt>>
     ELSE UNCHANGED <<shifted, oe, bitCnt, state>>
  /\ UNCHANGED <<value, done, word, rdata>>

TurnAround ==
  /\ state = "TA"
  /\ IF fall
     THEN /\ oe' = FALSE
          /\ IF bitCnt # 0
             THEN bitCnt' = bitCnt - 1 /\ state' = state
             ELSE bitCnt' = DataBits - 1 /\ state' = "READ"
     ELSE UNCHANGED <<oe, bitCnt, state>>
  /\ UNCHANGED <<value, shifted, done, word, rdata>>

(* The line as the master reads it: pulled up when the PHY is silent. *)
MdioIn == IF phyBit = Nil THEN 1 ELSE phyBit

(* Mutated form of ReadData: the last bit does not reach the result. *)
ReadData_MissesLastBit ==
  /\ state = "READ"
  /\ IF rise
     THEN /\ word' = [word EXCEPT ![bitCnt] = MdioIn]
          /\ IF bitCnt = 0
             THEN rdata' = word /\ state' = "FINISH" /\ bitCnt' = bitCnt
             ELSE bitCnt' = bitCnt - 1 /\ UNCHANGED <<rdata, state>>
     ELSE UNCHANGED <<word, bitCnt, rdata, state>>
  /\ UNCHANGED <<value, shifted, oe, done>>

ReadData ==
  /\ state = "READ"
  /\ IF rise
     THEN /\ word' = [word EXCEPT ![bitCnt] = MdioIn]
          /\ IF bitCnt = 0
             THEN rdata' = word' /\ state' = "FINISH" /\ bitCnt' = bitCnt
             ELSE bitCnt' = bitCnt - 1 /\ UNCHANGED <<rdata, state>>
     ELSE UNCHANGED <<word, bitCnt, rdata, state>>
  /\ UNCHANGED <<value, shifted, oe, done>>

(* Mutated form of Finish: the line is taken back at once. *)
Finish_AtOnce ==
  /\ state = "FINISH"
  /\ oe' = TRUE
  /\ IF rise THEN done' = TRUE /\ state' = "IDLE"
     ELSE UNCHANGED <<done, state>>
  /\ UNCHANGED <<value, shifted, bitCnt, word, rdata>>

Finish ==
  /\ state = "FINISH"
  /\ oe' = (oe \/ fall)
  /\ IF rise THEN done' = TRUE /\ state' = "IDLE"
     ELSE UNCHANGED <<done, state>>
  /\ UNCHANGED <<value, shifted, bitCnt, word, rdata>>

FsmEdge == \/ Idle \/ SendPreamble \/ SendFrame
           \/ TurnAround \/ ReadData \/ Finish

(* Mutated form of RegsEdge: the program cannot clear START. *)
RegsEdge_StickyStart(step) ==
  /\ flag' = done
  /\ start' = CASE step \in {"start", "raise"} -> TRUE
                [] step \in {"clear", "stop", "drop", "call"} -> start
                [] OTHER -> start /\ (done => program = "direct")
  /\ rw' = IF step \in {"clear", "start", "stop", "aim"} THEN want.rw ELSE rw
  /\ cfg' = IF step \in {"cfg", "aim"}
            THEN [reg |-> want.reg, data |-> want.data] ELSE cfg

(* The register file, with the step of the program (see below) that takes  *)
(* effect at this edge.  A store overrides the hardware's own update of    *)
(* START.  The master's own bench holds its inputs itself.                 *)
RegsEdge(step) ==
  /\ flag' = done
  /\ start' = CASE step \in {"start", "raise"} -> TRUE
                [] step \in {"clear", "stop", "drop", "call"} -> FALSE
                [] OTHER -> start /\ (done => program = "direct")
  /\ rw' = IF step \in {"clear", "start", "stop", "aim"} THEN want.rw ELSE rw
  /\ cfg' = IF step \in {"cfg", "aim"}
            THEN [reg |-> want.reg, data |-> want.data] ELSE cfg

-----------------------------------------------------------------------------
(* The PHY.  What it sees on the line: a frame bit, a one, or nothing.     *)
OnFrame == oe /\ state = "OPCODE"

PhySamples ==
  LET expected == \/ phyFrame.rw = "read" /\ phyCnt >= OpBits
                  \/ OnFrame /\ value = phyFrame /\ shifted = phyCnt
  IN  /\ IF phyCnt = 0
         THEN /\ phyCnt' = IF OnFrame THEN 1 ELSE 0
              /\ phyFrame' = IF ~OnFrame THEN phyFrame
                             ELSE IF shifted = 0 /\ ones = Preamble
                             THEN value ELSE Nil
              /\ ones' = IF OnFrame \/ ~oe THEN 0
                         ELSE IF ones = Preamble THEN ones ELSE ones + 1
              /\ phy' = phy
         ELSE /\ ones' = ones
              /\ phyCnt' = IF phyFrame = Nil \/ phyCnt = FrameBits - 1
                           THEN 0 ELSE phyCnt + 1
              /\ phyFrame' = IF phyFrame = Nil \/ ~expected THEN Nil
                             ELSE phyFrame
              /\ phy' = IF /\ phyFrame' # Nil /\ phyCnt = FrameBits - 1
                           /\ phyFrame.rw = "write"
                        THEN [phy EXCEPT ![phyFrame.reg] = phyFrame.data]
                        ELSE phy

PhyDrives ==
  phyBit' = IF phyCnt <= OpBits \/ phyFrame = Nil THEN Nil
            ELSE IF phyFrame.rw = "write" THEN Nil
            ELSE IF phyCnt = OpBits + 1 THEN 0
            ELSE phy[phyFrame.reg][FrameBits - 1 - phyCnt]

(* phy_respond_read: it looks for a 0 and a 1 after as many ones as a      *)
(* preamble has, counts the remaining bits up to the turnaround without    *)
(* looking at them, and shifts out its word.  The bits of opcode and       *)
(* address are not told apart.                                             *)
LineBits == IF state # "OPCODE" THEN {1}
            ELSE IF shifted <= 1 THEN {shifted} ELSE {0, 1}

RespondSamples ==
  CASE resp.phase = "seek" ->
         \E bit \in LineBits :
           LET count == IF resp.n < Preamble THEN resp.n + bit ELSE resp.n
           IN  resp' = IF count = Preamble /\ resp.prev = 0 /\ bit = 1
                       THEN [resp EXCEPT !.phase = "skip", !.n = OpBits - 1]
                       ELSE [resp EXCEPT !.prev = bit, !.n = count]
    [] resp.phase = "skip" ->
         resp' = IF resp.n > 1 THEN [resp EXCEPT !.n = @ - 1]
                 ELSE [resp EXCEPT !.phase = "drive", !.n = DataBits + 1]
    [] OTHER -> resp' = resp

RespondDrives ==
  IF resp.phase # "drive" THEN UNCHANGED <<resp, phyBit>>
  ELSE /\ phyBit' = IF resp.n = DataBits + 1 THEN 0
                    ELSE phy[want.reg][resp.n - 1]
       /\ resp' = IF resp.n > 1 THEN [resp EXCEPT !.n = @ - 1] ELSE Silent

(* The bench sets its idle line to one when it aims a read.                *)
Respond(step) ==
  CASE step = "call" ->
         resp' = [Silent EXCEPT !.phase = "seek"] /\ UNCHANGED phyBit
    [] step = "aim" /\ want.rw = "read" -> phyBit' = 1 /\ UNCHANGED resp
    [] OTHER ->
         IF ~Tick THEN UNCHANGED <<resp, phyBit>>
         ELSE IF mdc THEN RespondDrives ELSE RespondSamples /\ UNCHANGED phyBit

PhyEdge(step) ==
  /\ IF Tick /\ ~mdc THEN PhySamples
     ELSE UNCHANGED <<phyCnt, phyFrame, ones, phy>>
  /\ IF program = "direct" THEN Respond(step)
     ELSE /\ UNCHANGED resp
          /\ IF Tick /\ mdc THEN PhyDrives ELSE UNCHANGED phyBit

Edge(step) == MdcEdge /\ FsmEdge /\ RegsEdge(step) /\ PhyEdge(step)

-----------------------------------------------------------------------------
(* The program: each operation is the sequence of its steps, one access of *)
(* the registers each.  An access takes effect at one clock edge; how the  *)
(* AXI side of axi_mdio.v brings it about is the subject of AxiBus.        *)
(* "clear", "cfg" and "start" store START = 0, the request and START = 1.  *)
(* tb_axi_mdio.cpp clears START ("stop") soon after it has set it, well    *)
(* before the transaction ends; mdio_read of main.c leaves that to the     *)
(* hardware.                                                               *)
BenchWrite == <<"clear", "cfg", "start", "stop", "poll">>
BenchRead == <<"clear", "cfg", "start", "stop", "poll", "result">>
mdio_read == <<"cfg", "start", "poll", "result">>

(* tb_mdio_master.cpp drives the inputs of the master itself, looks at no  *)
(* flag, and reads the result after a long rest; "call" drops START and    *)
(* calls phy_respond_read.                                                 *)
DirectWrite == <<"aim", "raise", "drop", "rest", "over">>
DirectRead == <<"aim", "raise", "call", "rest", "result">>

Script == CASE program = "firmware" -> mdio_read
            [] program = "bench" ->
                 IF want.rw = "read" THEN BenchRead ELSE BenchWrite
            [] OTHER -> IF want.rw = "read" THEN DirectRead ELSE DirectWrite
Returning == pc > Len(Script)
Now == IF pc = 0 \/ Returning THEN "compute" ELSE Script[pc]
Prompt == {"stop", "raise", "drop", "call"}
Stores == {"clear", "cfg", "start", "aim"} \cup Prompt

(* runs counts the transactions begun since START was last set.            *)
Runs == IF state = "IDLE" /\ start THEN runs + 1 ELSE runs

Access(step, to, delay) ==
  /\ Now = step /\ gap = 0 /\ pc' = to /\ gap' = delay - 1
  /\ runs' = IF step \in {"start", "raise"} THEN 0 ELSE Runs
  /\ UNCHANGED <<program, want>>
  /\ Edge(step)

Store == \E step \in Stores : Access(step, pc + 1, MinGap) /\ UNCHANGED got
Poll == Access("poll", IF flag THEN pc + 1 ELSE pc, MinGap) /\ UNCHANGED got
Rest == /\ Access("rest", pc + 1, Delay) /\ resp = Silent
        /\ UNCHANGED got
Result == Access("result", pc + 1, MinGap) /\ got' = rdata
Over == Access("over", pc + 1, MinGap) /\ UNCHANGED got

Elapse == /\ gap' = IF gap > 0 THEN gap - 1 ELSE 0
          /\ runs' = Runs /\ Edge("none")

(* The program computes, for as long as it likes where the step may be     *)
(* late; the master's own bench only waits for phy_respond_read to end.    *)
Answering == Now = "rest" /\ resp # Silent
Wait == /\ gap = 0 => IF program = "direct" THEN Answering
                      ELSE Now \notin Prompt
        /\ UNCHANGED <<program, pc, want, got>> /\ Elapse

Begin == /\ pc = 0
         /\ want' \in {r \in Requests :
              IF r.rw = "read" THEN r.data = ZeroWord ELSE program # "firmware"}
         /\ pc' = 1 /\ UNCHANGED <<program, got>> /\ Elapse
Return == Returning /\ pc' = 0 /\ UNCHANGED <<program, want, got>> /\ Elapse

Program == Store \/ Poll \/ Rest \/ Result \/ Over \/ Return
Next == Wait \/ Begin \/ Program

(* The clock runs and the program keeps executing. *)
Fairness == WF_vars(Next) /\ WF_vars(Program)
Spec == Init /\ [][Next]_vars
FairSpec == Spec /\ Fairness

-----------------------------------------------------------------------------
(* Type invariant. *)
TypeOK ==
  /\ div \in 0 .. Div - 1 /\ {mdc, rise, fall} \subseteq BOOLEAN
  /\ state \in {"IDLE", "PREAMBLE", "OPCODE", "TA", "READ", "FINISH"}
  /\ bitCnt \in Nat /\ value \in Requests \cup {Nil}
  /\ shifted \in 0 .. FrameBits
  /\ {oe, done, start, flag} \subseteq BOOLEAN
  /\ {word, rdata, got} \subseteq Words
  /\ rw \in {"read", "write"} /\ cfg \in [reg: PhyRegs, data: Words]
  /\ phyCnt \in 0 .. FrameBits - 1 /\ phyFrame \in Requests \cup {Nil}
  /\ phyBit \in {0, 1, Nil} /\ ones \in 0 .. Preamble
  /\ phy \in [PhyRegs -> Words]
  /\ resp \in [phase: {"off", "seek", "skip", "drive"}, prev: {0, 1},
               n: 0 .. Preamble + FrameBits]
  /\ program \in Programs
  /\ pc \in 0 .. 7 /\ gap \in 0 .. MinGap + Delay
  /\ want \in Requests /\ runs \in Nat

(* Every frame reaches the PHY after a full preamble and with each of its  *)
(* bits on the line at exactly one rising edge of MDC, whatever the phase  *)
(* of MDC when the transaction starts.                                     *)
FrameIntact == phyCnt > 0 => phyFrame # Nil

(* Master and PHY never drive the line at the same time.  (The master's    *)
(* own bench has a wire of its own for what the PHY says.)                 *)
NoContention == program # "direct" /\ phyBit # Nil => ~oe

(* When an operation returns, a read has got the contents of the register  *)
(* it named, and a write has reached the PHY.                              *)
AnswersRequest ==
  Returning => IF want.rw = "read" THEN got = phy[want.reg]
               ELSE phy[want.reg] = want.data

(* The test benches are served like that each time ... *)
BenchServed == program # "firmware" => AnswersRequest

(* ... by a single transaction: one for each time they set START.          *)
OncePerStart == program # "firmware" => runs <= 1

(* Operations return: DONE stays visible until the next transaction, and   *)
(* the answering side of the bench recognizes every frame.                 *)
OperationReturns == pc > 0 ~> pc = 0
=============================================================================
