---------------------------- MODULE Mdio_proofs ----------------------------
(* Proofs about Mdio for every divider, every length of the frame's parts  *)
(* and every register file of the PHY.                                     *)
EXTENDS Mdio, TLAPS

(* The bit that is on the line has been sampled by the PHY.                *)
Sampled == mdc \/ fall
Due == IF Sampled THEN 0 ELSE 1

(* The pulses follow the edges of MDC by one cycle.                        *)
ClockOK == /\ rise => mdc /\ div = 0 /\ ~fall
           /\ fall => ~mdc /\ div = 0

Serving == value \in Requests /\ rw = value.rw
Length == IF rw = "read" THEN OpBits ELSE FrameBits

(* Enough ones have gone by for the preamble to be complete in time.       *)
IdleSync == /\ phyCnt = 0 /\ oe
            /\ Sampled => ones >= 1
PreambleSync == /\ Serving /\ oe /\ phyCnt = 0 /\ shifted = 0
                /\ bitCnt \in 0 .. Preamble - 1
                /\ ones + bitCnt + Due >= Preamble

(* While the frame is sent the PHY counts the bits the master has sent.    *)
FrameSync ==
  /\ Serving /\ oe
  /\ shifted \in 0 .. FrameBits - 1 /\ bitCnt \in Nat
  /\ shifted + bitCnt + 1 = Length
  /\ phyCnt = IF ~Sampled THEN shifted
              ELSE IF shifted + 1 = FrameBits THEN 0 ELSE shifted + 1
  /\ phyCnt = 0 /\ ~Sampled => ones = Preamble
  /\ phyCnt > 0 => phyFrame = value
  /\ phyCnt = 0 /\ Sampled => phy[value.reg] = value.data

TurnSync ==
  /\ Serving /\ ~oe /\ rw = "read" /\ phyFrame = value
  /\ bitCnt \in {0, 1}
  /\ phyCnt = OpBits + 2 - bitCnt - Due

(* The bit the PHY has answered last is on its line.                       *)
Answer(place) == phyBit = phy[value.reg][place]

ReadSync ==
  /\ Serving /\ ~oe /\ rw = "read"
  /\ bitCnt \in 0 .. DataBits - 1
  /\ phyCnt = IF ~rise THEN FrameBits - 1 - bitCnt
              ELSE IF bitCnt = 0 THEN 0 ELSE FrameBits - bitCnt
  /\ phyCnt > 0 => phyFrame = value
  /\ ~mdc \/ rise => Answer(bitCnt)
  /\ \A b \in 0 .. DataBits - 1 : b > bitCnt => word[b] = phy[value.reg][b]

FinishSync ==
  /\ Serving /\ phyCnt = 0
  /\ ~oe => rw = "read" /\ Sampled /\ ~rise
  /\ oe /\ Sampled => ones >= 1 /\ rise
  /\ IF rw = "read" THEN rdata = phy[value.reg]
     ELSE phy[value.reg] = value.data

Sync == CASE state = "IDLE"     -> IdleSync
          [] state = "PREAMBLE" -> PreambleSync
          [] state = "OPCODE"   -> FrameSync
          [] state = "TA"       -> TurnSync
                                   /\ (bitCnt = 0 /\ fall => Answer(DataBits - 1))
          [] state = "READ"     -> ReadSync
          [] state = "FINISH"   -> FinishSync

(* A PHY on the same wire is silent while the master drives it.            *)
Quiet == program # "direct" /\ phyBit # Nil =>
           /\ state \in {"TA", "READ"} \/ (state = "FINISH" /\ ~fall)
           /\ ~oe

-----------------------------------------------------------------------------
(* Between the step that sets START and the next.                          *)
Early == \/ state = "IDLE" /\ start /\ gap = MinGap - 1 /\ runs = 0
         \/ /\ state = "PREAMBLE" /\ value = want /\ ~done /\ runs = 1
            /\ gap <= MinGap - 2
            /\ \/ bitCnt = Preamble - 1
               \/ /\ bitCnt = Preamble - 2 /\ ~Sampled
                  /\ gap + div <= Div - 2

Ready == state = "IDLE" /\ ~start /\ runs <= 1
Served == state = "IDLE" /\
            IF want.rw = "read" THEN rdata = phy[want.reg]
            ELSE phy[want.reg] = want.data
Running == state # "IDLE" /\ value = want
HasGot == want.rw = "read" => got = phy[want.reg]

FirmwareInv == /\ pc > 0 => want.rw = "read"
               /\ start \/ state # "IDLE" => rw = "read"

Polling == /\ ~start /\ runs = 1
           /\ flag => done
           /\ IF done THEN Served ELSE Running

BenchInv ==
  /\ pc \in 0 .. 3 => Ready
  /\ pc \in 2 .. 5 => rw = want.rw
  /\ pc \in 3 .. 5 => cfg = [reg |-> want.reg, data |-> want.data]
  /\ pc = 4 => Early
  /\ pc = 5 => Polling
  /\ pc \in 6 .. 7 => Ready /\ Served
  /\ pc = 7 => want.rw = "read" /\ HasGot

(* Periods of MDC until the transaction is over, and where MDC is in one.  *)
Left == CASE state = "PREAMBLE" -> bitCnt + 1 + FrameBits
          [] state = "OPCODE"   -> FrameBits - shifted
          [] state = "TA"       -> bitCnt + 1 + DataBits
          [] state = "READ"     -> bitCnt + (IF rise \/ ~Sampled THEN 1 ELSE 2)
          [] state = "FINISH"   -> IF oe THEN 0 ELSE 1
          [] OTHER -> 0
Phase == IF fall THEN 2 * Div ELSE IF mdc THEN div + Div ELSE div
Span(k) == 2 * Div * k
InTime == gap + Phase >= Span(Left) + Div

DirectInv ==
  /\ pc \in 0 .. 6
  /\ pc \in 0 .. 2 => Ready
  /\ pc \in 2 .. 5 => rw = want.rw /\ cfg = [reg |-> want.reg, data |-> want.data]
  /\ pc = 3 => Early /\ (state = "IDLE" \/ start)
  /\ pc \in 4 .. 6 => ~start /\ runs = 1
  /\ pc = 4 => Served \/ Running
  /\ pc = 5 => Served \/ (Running /\ InTime)
  /\ pc = 6 => Served /\ HasGot

(* Where phy_respond_read stands, and the frame it answers.                *)
SeekOK == /\ resp.phase = "seek" /\ resp.n <= Preamble
          /\ \/ /\ state = "PREAMBLE" /\ resp.n + bitCnt + Due >= Preamble - 1
                /\ resp.prev = 0 => resp.n = 0
             \/ /\ state = "OPCODE" /\ shifted = 0 /\ ~Sampled
                /\ resp.n >= Preamble - 1
                /\ resp.prev = 0 => resp.n = 0
             \/ /\ state = "OPCODE" /\ resp.n >= Preamble - 1 /\ resp.prev = 0
                /\ shifted = Due
SkipOK == /\ resp.phase = "skip" /\ state \in {"OPCODE", "TA"}
          /\ phyCnt \in 2 .. OpBits /\ resp.n = OpBits + 1 - phyCnt
DriveOK == /\ resp.phase = "drive" /\ state \in {"TA", "READ"}
           /\ phyCnt > OpBits
           /\ resp.n = IF mdc THEN FrameBits - phyCnt ELSE FrameBits - 1 - phyCnt
           /\ resp.n >= 1
OffOK == /\ resp = Silent
         /\ \/ state = "TA" /\ bitCnt = 0 /\ fall /\ DataBits = 1
            \/ state = "READ" /\ bitCnt = 0 /\ (~mdc \/ rise)
            \/ state \in {"FINISH", "IDLE"}
RespInv ==
  /\ pc \notin {4, 5} \/ want.rw = "write" => resp = Silent
  /\ pc = 4 /\ want.rw = "read" => SeekOK \/ SkipOK \/ DriveOK \/ OffOK
  /\ pc = 5 /\ want.rw = "read" => OffOK

ProgInv == CASE program = "firmware" -> FirmwareInv /\ resp = Silent
             [] program = "bench"    -> BenchInv /\ resp = Silent
             [] program = "direct"   -> DirectInv /\ RespInv

IInv == TypeOK /\ ClockOK /\ Sync /\ Quiet /\ ProgInv

-----------------------------------------------------------------------------
LEMMA Sizes ==
  /\ FrameBits \in Nat /\ FrameBits = OpBits + 2 + DataBits
  /\ OpBits \in Nat /\ OpBits >= 2 /\ DataBits \in Nat /\ DataBits >= 1
  /\ Preamble \in Nat /\ Preamble >= 2
  /\ Div \in Nat /\ MinGap \in Nat /\ 2 <= MinGap /\ MinGap <= Div
  /\ Delay \in Nat /\ Delay >= 1
<1>1. /\ Div \in Nat /\ MinGap \in 2 .. Div /\ Delay \in Nat
      /\ OpBits \in Nat \ {0, 1} /\ Preamble \in Nat \ {0, 1}
      /\ DataBits \in Nat \ {0}
  BY MdioAssumption
<1>2. FrameBits \in Nat /\ FrameBits = OpBits + 2 + DataBits
  BY <1>1 DEF FrameBits
<1>3. 2 * Div * (Preamble + FrameBits + 1) >= 1
  <2>1. \A a, b \in Nat : a >= 1 /\ b >= 1 => a * b >= 1
    OBVIOUS
  <2>2. 2 * Div \in Nat /\ 2 * Div >= 1 /\ Preamble + FrameBits + 1 \in Nat
        /\ Preamble + FrameBits + 1 >= 1
    BY <1>1, <1>2
  <2> QED BY <2>1, <2>2
<1> HIDE DEF FrameBits
<1>4. Delay >= 2 * Div * (Preamble + FrameBits + 1)
  BY MdioAssumption
<1>5. 2 * Div * (Preamble + FrameBits + 1) \in Nat
  BY <1>1, <1>2
<1>6. Delay >= 1
  BY <1>1, <1>3, <1>4, <1>5
<1> QED BY <1>1, <1>2, <1>6

(* What an edge does to the clock, by where it stands.                     *)
LEMMA ClockStep ==
  ASSUME TypeOK, ClockOK, MdcEdge
  PROVE  /\ ClockOK'
         /\ div' \in 0 .. Div - 1 /\ mdc' \in BOOLEAN
         /\ rise' \in BOOLEAN /\ fall' \in BOOLEAN
         /\ rise \/ fall => ~Tick
         /\ Tick /\ ~mdc => ~Sampled /\ mdc' /\ rise' /\ ~fall'
         /\ Tick /\ mdc => ~mdc' /\ ~rise' /\ fall'
         /\ ~Tick => mdc' = mdc /\ ~rise' /\ ~fall' /\ div' = div + 1
         /\ Tick => div' = 0
         /\ fall => Sampled /\ ~Sampled'
         /\ rise => Sampled /\ Sampled'
         /\ Tick => Sampled'
         /\ ~Tick /\ ~fall => (Sampled' <=> Sampled)
<1>1. /\ div \in 0 .. Div - 1 /\ mdc \in BOOLEAN /\ rise \in BOOLEAN
      /\ fall \in BOOLEAN
  BY DEF TypeOK
<1>2. rise \/ fall => ~Tick
  BY Sizes, <1>1 DEF ClockOK, Tick
<1>3. /\ div' \in 0 .. Div - 1 /\ mdc' \in BOOLEAN
      /\ rise' \in BOOLEAN /\ fall' \in BOOLEAN
  <2>1. div' \in 0 .. Div - 1
    BY Sizes, <1>1 DEF MdcEdge, Tick
  <2>2. mdc' \in BOOLEAN
    BY <1>1, Zenon DEF MdcEdge
  <2>3. rise' \in BOOLEAN /\ fall' \in BOOLEAN
    BY Zenon DEF MdcEdge
  <2> QED BY <2>1, <2>2, <2>3
<1>4. /\ Tick /\ ~mdc => mdc' /\ rise' /\ ~fall'
      /\ Tick /\ mdc => ~mdc' /\ ~rise' /\ fall'
      /\ ~Tick => mdc' = mdc /\ ~rise' /\ ~fall' /\ div' = div + 1
      /\ Tick => div' = 0
  BY <1>1 DEF MdcEdge
<1>5. Tick /\ ~mdc => ~Sampled
  BY <1>2 DEF Sampled
<1>6. ClockOK'
  BY <1>1, <1>4 DEF ClockOK
<1>7. /\ fall => Sampled /\ ~Sampled'
      /\ rise => Sampled /\ Sampled'
      /\ Tick => Sampled'
      /\ ~Tick /\ ~fall => (Sampled' <=> Sampled)
  BY <1>1, <1>2, <1>4 DEF ClockOK, Sampled
<1> QED BY <1>2, <1>3, <1>4, <1>5, <1>6, <1>7

(* The steps of the three programs.                                        *)
LEMMA BenchNow ==
  ASSUME program = "bench", want \in Requests, pc \in 0 .. 7
  PROVE  /\ pc = 1 <=> Now = "clear"
         /\ pc = 2 <=> Now = "cfg"
         /\ pc = 3 <=> Now = "start"
         /\ pc = 4 <=> Now = "stop"
         /\ pc = 5 <=> Now = "poll"
         /\ pc = 6 /\ want.rw = "read" <=> Now = "result"
         /\ Now \notin {"aim", "raise", "drop", "call", "rest", "over"}
         /\ Returning <=> (pc = 6 /\ want.rw = "write") \/ pc = 7
<1>1. want.rw \in {"read", "write"}
  BY DEF Requests
<1>2. CASE want.rw = "read"
  <2>1. Script = <<"clear", "cfg", "start", "stop", "poll", "result">>
    BY <1>2 DEF Script, BenchRead
  <2>2. Len(Script) = 6
    BY <2>1
  <2>3. Returning <=> pc = 7
    BY <2>2 DEF Returning
  <2>4. /\ Script[1] = "clear" /\ Script[2] = "cfg" /\ Script[3] = "start"
        /\ Script[4] = "stop" /\ Script[5] = "poll" /\ Script[6] = "result"
    BY <2>1
  <2> HIDE DEF Script
  <2> QED BY <1>2, <2>3, <2>4 DEF Now
<1>3. CASE want.rw = "write"
  <2>1. Script = <<"clear", "cfg", "start", "stop", "poll">>
    BY <1>3 DEF Script, BenchWrite
  <2>2. Len(Script) = 5
    BY <2>1
  <2>3. Returning <=> pc \in 6 .. 7
    BY <2>2 DEF Returning
  <2>4. /\ Script[1] = "clear" /\ Script[2] = "cfg" /\ Script[3] = "start"
        /\ Script[4] = "stop" /\ Script[5] = "poll"
    BY <2>1
  <2> QED BY <1>3, <2>3, <2>4 DEF Now
<1> QED BY <1>1, <1>2, <1>3

LEMMA FirmwareNow ==
  ASSUME program = "firmware", pc \in 0 .. 7
  PROVE  /\ pc = 1 <=> Now = "cfg"
         /\ pc = 2 <=> Now = "start"
         /\ pc = 3 <=> Now = "poll"
         /\ pc = 4 <=> Now = "result"
         /\ Now \notin {"clear", "stop", "aim", "raise", "drop", "call",
                        "rest", "over"}
         /\ Returning <=> pc \in 5 .. 7
<1>1. Script = <<"cfg", "start", "poll", "result">>
  BY DEF Script, mdio_read
<1>2. Len(Script) = 4
  BY <1>1
<1>3. Returning <=> pc \in 5 .. 7
  BY <1>2 DEF Returning
<1>4. /\ Script[1] = "cfg" /\ Script[2] = "start" /\ Script[3] = "poll"
      /\ Script[4] = "result"
  BY <1>1
<1> QED BY <1>3, <1>4 DEF Now

LEMMA DirectNow ==
  ASSUME program = "direct", want \in Requests, pc \in 0 .. 7
  PROVE  /\ pc = 1 <=> Now = "aim"
         /\ pc = 2 <=> Now = "raise"
         /\ pc = 3 /\ want.rw = "write" <=> Now = "drop"
         /\ pc = 3 /\ want.rw = "read" <=> Now = "call"
         /\ pc = 4 <=> Now = "rest"
         /\ pc = 5 /\ want.rw = "write" <=> Now = "over"
         /\ pc = 5 /\ want.rw = "read" <=> Now = "result"
         /\ Now \notin {"clear", "cfg", "start", "stop", "poll"}
         /\ Returning <=> pc \in 6 .. 7
<1>1. want.rw \in {"read", "write"}
  BY DEF Requests
<1>2. CASE want.rw = "read"
  <2>1. Script = <<"aim", "raise", "call", "rest", "result">>
    BY <1>2 DEF Script, DirectRead
  <2>2. Len(Script) = 5
    BY <2>1
  <2>3. Returning <=> pc \in 6 .. 7
    BY <2>2 DEF Returning
  <2>4. /\ Script[1] = "aim" /\ Script[2] = "raise" /\ Script[3] = "call"
        /\ Script[4] = "rest" /\ Script[5] = "result"
    BY <2>1
  <2> QED BY <1>2, <2>3, <2>4 DEF Now
<1>3. CASE want.rw = "write"
  <2>1. Script = <<"aim", "raise", "drop", "rest", "over">>
    BY <1>3 DEF Script, DirectWrite
  <2>2. Len(Script) = 5
    BY <2>1
  <2>3. Returning <=> pc \in 6 .. 7
    BY <2>2 DEF Returning
  <2>4. /\ Script[1] = "aim" /\ Script[2] = "raise" /\ Script[3] = "drop"
        /\ Script[4] = "rest" /\ Script[5] = "over"
    BY <2>1
  <2> QED BY <1>3, <2>3, <2>4 DEF Now
<1> QED BY <1>1, <1>2, <1>3

-----------------------------------------------------------------------------
(* What the PHY takes from the line at an edge.                            *)
Samples == IF Tick /\ ~mdc THEN PhySamples
           ELSE UNCHANGED <<phyCnt, phyFrame, ones, phy>>

(* Outside a frame it counts ones.                                         *)
LEMMA SamplesIdle ==
  ASSUME TypeOK, Samples, phyCnt = 0, state # "OPCODE"
  PROVE  /\ phyCnt' = 0 /\ phy' = phy
         /\ Tick /\ ~mdc /\ oe =>
              ones' = IF ones = Preamble THEN ones ELSE ones + 1
         /\ ~(Tick /\ ~mdc) => ones' = ones
BY DEF Samples, PhySamples, OnFrame

(* Within a frame it takes each bit as the one that is due.                *)
LEMMA SamplesFrame ==
  ASSUME TypeOK, Samples, FrameSync, state = "OPCODE", ~Sampled, Tick, ~mdc
  PROVE  /\ phyCnt' = IF shifted + 1 = FrameBits THEN 0 ELSE shifted + 1
         /\ phyFrame' = value
         /\ phyCnt' = 0 => phy' = IF value.rw = "write"
                                  THEN [phy EXCEPT ![value.reg] = value.data]
                                  ELSE phy
         /\ phyCnt' # 0 => phy' = phy
<1>1. PhySamples /\ OnFrame /\ phyCnt = shifted
  BY DEF Samples, FrameSync, OnFrame
<1>2. /\ shifted \in 0 .. FrameBits - 1 /\ FrameBits \in Nat /\ FrameBits >= 3
      /\ value # Nil
  BY Sizes, MdioAssumption DEF FrameSync, Serving
<1>3. CASE phyCnt = 0
  <2>1. shifted = 0 /\ ones = Preamble
    BY <1>1, <1>3 DEF FrameSync
  <2> QED BY <1>1, <1>2, <1>3, <2>1 DEF PhySamples
<1>4. CASE phyCnt # 0
  <2>1. phyFrame = value
    BY <1>1, <1>2, <1>4 DEF FrameSync
  <2> QED BY <1>1, <1>2, <1>4, <2>1 DEF PhySamples
<1> QED BY <1>3, <1>4

(* While it answers it only counts.                                        *)
LEMMA SamplesAnswer ==
  ASSUME TypeOK, Samples, phyCnt \in OpBits .. FrameBits - 1,
         phyFrame = value, value \in Requests, value.rw = "read"
  PROVE  /\ phyFrame' = value /\ phy' = phy
         /\ Tick /\ ~mdc => phyCnt' = IF phyCnt = FrameBits - 1 THEN 0
                                      ELSE phyCnt + 1
         /\ ~(Tick /\ ~mdc) => phyCnt' = phyCnt
<1>1. phyCnt # 0 /\ phyCnt >= OpBits /\ value # Nil
  BY Sizes, MdioAssumption
<1>2. CASE Tick /\ ~mdc
  BY <1>1, <1>2 DEF Samples, PhySamples
<1>3. CASE ~(Tick /\ ~mdc)
  BY <1>3 DEF Samples
<1> QED BY <1>2, <1>3

(* A transaction only moves when MDC has risen or fallen.                  *)
LEMMA FsmStill ==
  ASSUME TypeOK, state # "IDLE", ~rise, ~fall, FsmEdge
  PROVE  UNCHANGED fsmVars
<1>1. \/ SendPreamble \/ SendFrame \/ TurnAround \/ ReadData \/ Finish
  BY DEF FsmEdge, Idle
<1> USE DEF fsmVars
<1>2. CASE SendPreamble
  BY <1>2 DEF SendPreamble
<1>3. CASE SendFrame
  BY <1>3 DEF SendFrame
<1>4. CASE TurnAround
  BY <1>4 DEF TurnAround
<1>5. CASE ReadData
  BY <1>5 DEF ReadData
<1>6. CASE Finish
  <2>1. oe \in BOOLEAN /\ oe' = (oe \/ fall)
    BY <1>6 DEF TypeOK, Finish
  <2>2. oe' = oe
    BY <2>1, Zenon
  <2> QED BY <1>6, <2>2 DEF Finish
<1> QED BY <1>1, <1>2, <1>3, <1>4, <1>5, <1>6

-----------------------------------------------------------------------------
(* How each state of the transaction keeps in step with the PHY.           *)
LEMMA IdleStep ==
  ASSUME TypeOK, ClockOK, IdleSync, state = "IDLE", start => rw' = rw,
         MdcEdge, FsmEdge, Samples
  PROVE  /\ state' = IF start THEN "PREAMBLE" ELSE "IDLE"
         /\ IF start THEN PreambleSync' /\ value' = [rw |-> rw, reg |-> cfg.reg,
                                                     data |-> cfg.data]
                          /\ bitCnt' = Preamble - 1 /\ done' = FALSE
            ELSE IdleSync' /\ done' = done
         /\ phy' = phy /\ rdata' = rdata
<1>1. Idle
  BY DEF FsmEdge, SendPreamble, SendFrame, TurnAround, ReadData, Finish
<1>2. /\ phyCnt' = 0 /\ phy' = phy
      /\ Tick /\ ~mdc => ones' = IF ones = Preamble THEN ones ELSE ones + 1
      /\ ~(Tick /\ ~mdc) => ones' = ones
  BY SamplesIdle DEF IdleSync
<1>3. ones \in 0 .. Preamble
  BY DEF TypeOK
<1>4. Sampled' => ones' >= 1
  BY Sizes, <1>2, <1>3, ClockStep DEF Sampled, IdleSync
<1>5. ones' \in 0 .. Preamble
  BY Sizes, <1>2, <1>3
<1>6. CASE start
  <2>1. /\ state' = "PREAMBLE" /\ bitCnt' = Preamble - 1 /\ oe' = TRUE
        /\ shifted' = 0
        /\ value' = [rw |-> rw, reg |-> cfg.reg, data |-> cfg.data]
        /\ done' = FALSE /\ rdata' = rdata
    BY <1>1, <1>6 DEF Idle
  <2>2. value' \in Requests /\ value'.rw = rw
    BY <2>1 DEF TypeOK, Requests
  <2>3. ones' + bitCnt' + Due' >= Preamble
    <3>1. bitCnt' = Preamble - 1 /\ Preamble \in Nat /\ ones' \in Nat
      BY Sizes, <1>5, <2>1
    <3>2. IF Sampled' THEN Due' = 0 ELSE Due' = 1
      BY DEF Due
    <3> QED BY <1>4, <3>1, <3>2
  <2>4. Serving' /\ oe'
    BY <1>6, <2>1, <2>2 DEF Serving
  <2>5. bitCnt' \in 0 .. Preamble - 1
    BY Sizes, <2>1
  <2>6. PreambleSync'
    BY <1>2, <2>1, <2>3, <2>4, <2>5 DEF PreambleSync
  <2> QED BY <1>2, <1>6, <2>1, <2>6
<1>7. CASE ~start
  <2>1. state' = "IDLE" /\ oe' = TRUE /\ done' = done /\ rdata' = rdata
    BY <1>1, <1>7 DEF Idle
  <2> QED BY <1>2, <1>4, <1>7, <2>1 DEF IdleSync
<1> QED BY <1>6, <1>7

LEMMA PreambleStep ==
  ASSUME TypeOK, ClockOK, PreambleSync, state = "PREAMBLE", rw' = rw,
         MdcEdge, FsmEdge, Samples
  PROVE  /\ IF fall /\ bitCnt = 0
            THEN state' = "OPCODE" /\ FrameSync' /\ shifted' = 0 /\ ~Sampled'
            ELSE /\ state' = "PREAMBLE" /\ PreambleSync'
                 /\ bitCnt' = IF fall THEN bitCnt - 1 ELSE bitCnt
         /\ UNCHANGED <<value, done, rdata, phy>>
<1>1. SendPreamble
  BY DEF FsmEdge, Idle, SendFrame, TurnAround, ReadData, Finish
<1>2. /\ phyCnt' = 0 /\ phy' = phy
      /\ Tick /\ ~mdc => ones' = IF ones = Preamble THEN ones ELSE ones + 1
      /\ ~(Tick /\ ~mdc) => ones' = ones
  BY SamplesIdle DEF PreambleSync
<1>3. ones \in 0 .. Preamble /\ bitCnt \in 0 .. Preamble - 1
  BY DEF TypeOK, PreambleSync
<1>4. ones' \in 0 .. Preamble
  BY Sizes, <1>2, <1>3
<1>5. CASE fall /\ bitCnt = 0
  <2>1. /\ state' = "OPCODE" /\ oe' = TRUE /\ shifted' = shifted
        /\ bitCnt' = IF rw = "read" THEN OpBits - 1 ELSE FrameBits - 1
        /\ UNCHANGED <<value, done, rdata>>
    BY <1>1, <1>5 DEF SendPreamble
  <2>2. ~Sampled' /\ ones' = ones
    BY <1>2, <1>5, ClockStep
  <2>3. ones' = Preamble
    BY Sizes, <1>3, <1>5, <2>2 DEF PreambleSync, Due, Sampled
  <2>4. Serving' /\ oe' /\ shifted' = 0 /\ FrameBits >= 2
    BY Sizes, <2>1 DEF PreambleSync, Serving
  <2>5. bitCnt' \in Nat /\ shifted' + bitCnt' + 1 = Length'
    BY Sizes, <2>1, <2>4 DEF Length
  <2>6. FrameSync'
    BY Sizes, <1>2, <2>2, <2>3, <2>4, <2>5 DEF FrameSync
  <2> QED BY <1>2, <1>5, <2>1, <2>2, <2>4, <2>6
<1>6. CASE fall /\ bitCnt # 0
  <2>1. /\ state' = "PREAMBLE" /\ oe' = TRUE /\ bitCnt' = bitCnt - 1
        /\ UNCHANGED <<shifted, value, done, rdata>>
    BY <1>1, <1>6 DEF SendPreamble
  <2>2. ~Sampled' /\ ones' = ones /\ Sampled
    BY <1>2, <1>6, ClockStep
  <2>3. ones' + bitCnt' + Due' >= Preamble
    BY Sizes, <1>3, <1>6, <2>1, <2>2 DEF PreambleSync, Due
  <2> QED BY Sizes, <1>2, <1>3, <1>6, <2>1, <2>2, <2>3 DEF PreambleSync, Serving
<1>7. CASE ~fall
  <2>1. /\ state' = "PREAMBLE" /\ oe' = oe /\ bitCnt' = bitCnt
        /\ UNCHANGED <<shifted, value, done, rdata>>
    BY <1>1, <1>7 DEF SendPreamble
  <2>2. ones' + bitCnt' + Due' >= Preamble
    <3>1. Sampled' => Sampled \/ (Tick /\ ~mdc)
      BY <1>7, ClockStep DEF Sampled
    <3>2. CASE Tick /\ ~mdc
      BY Sizes, <1>2, <1>3, <2>1, <3>2, ClockStep DEF PreambleSync, Due, Sampled
    <3>3. CASE ~(Tick /\ ~mdc)
      BY Sizes, <1>2, <1>3, <2>1, <3>1, <3>3 DEF PreambleSync, Due
    <3> QED BY <3>2, <3>3
  <2> QED BY <1>2, <1>3, <1>7, <2>1, <2>2 DEF PreambleSync, Serving
<1> QED BY <1>5, <1>6, <1>7

LEMMA FrameStep ==
  ASSUME TypeOK, ClockOK, FrameSync, state = "OPCODE", rw' = rw,
         MdcEdge, FsmEdge, Samples
  PROVE  /\ IF fall /\ bitCnt = 0
            THEN IF rw = "read"
                 THEN state' = "TA" /\ TurnSync' /\ bitCnt' = 1 /\ ~Sampled'
                 ELSE state' = "FINISH" /\ FinishSync' /\ oe'
            ELSE /\ state' = "OPCODE" /\ FrameSync'
                 /\ shifted' = IF fall THEN shifted + 1 ELSE shifted
         /\ UNCHANGED <<value, done, rdata>>
         /\ rw = "read" => phy' = phy
<1>1. SendFrame
  BY DEF FsmEdge, Idle, SendPreamble, TurnAround, ReadData, Finish
<1>2. /\ shifted \in 0 .. FrameBits - 1 /\ bitCnt \in Nat
      /\ Length \in {OpBits, FrameBits} /\ shifted + bitCnt + 1 = Length
      /\ rw = "read" => Length = OpBits
      /\ rw # "read" => Length = FrameBits
      /\ OpBits < FrameBits /\ OpBits >= 2 /\ OpBits \in Nat /\ FrameBits \in Nat
  BY Sizes DEF FrameSync, Length
<1>3. Serving /\ oe /\ UNCHANGED <<value, done, rdata>> /\ Serving'
  BY <1>1 DEF FrameSync, Serving, SendFrame
<1>4. ~(Tick /\ ~mdc) => UNCHANGED <<phyCnt, phyFrame, ones, phy>>
  BY DEF Samples
<1>5. CASE fall
  <2>1. /\ Sampled /\ ~Sampled' /\ UNCHANGED <<phyCnt, phyFrame, ones, phy>>
    BY <1>4, <1>5, ClockStep
  <2>2. phyCnt = IF shifted + 1 = FrameBits THEN 0 ELSE shifted + 1
    BY <2>1 DEF FrameSync
  <2>3. CASE bitCnt # 0
    <3>1. /\ shifted' = shifted + 1 /\ oe' = TRUE /\ bitCnt' = bitCnt - 1
          /\ state' = "OPCODE"
      BY <1>1, <1>5, <2>3 DEF SendFrame
    <3>2. shifted + 1 # FrameBits
      BY <1>2, <2>3
    <3>3. phyCnt' = shifted' /\ phyCnt' > 0 /\ phyFrame' = value'
      BY <1>2, <1>3, <2>1, <2>2, <3>1, <3>2 DEF FrameSync
    <3>4. shifted' \in 0 .. FrameBits - 1 /\ bitCnt' \in Nat
          /\ shifted' + bitCnt' + 1 = Length'
      BY <1>2, <2>3, <3>1, <3>2 DEF Length
    <3>5. FrameSync'
      BY <1>3, <2>1, <3>1, <3>3, <3>4 DEF FrameSync
    <3> QED BY <1>3, <1>5, <2>1, <2>3, <3>1, <3>5
  <2>4. CASE bitCnt = 0 /\ rw = "read"
    <3>1. state' = "TA" /\ oe' = FALSE /\ bitCnt' = 1
      BY <1>1, <1>5, <2>4 DEF SendFrame
    <3>2. phyCnt' = OpBits /\ phyFrame' = value'
      BY <1>2, <1>3, <2>1, <2>2, <2>4 DEF FrameSync
    <3>3. Due' = 1
      BY <2>1 DEF Due
    <3>4. TurnSync'
      BY <1>2, <1>3, <2>4, <3>1, <3>2, <3>3 DEF TurnSync
    <3> QED BY <1>3, <1>5, <2>1, <2>4, <3>1, <3>4
  <2>5. CASE bitCnt = 0 /\ rw # "read"
    <3>1. state' = "FINISH" /\ oe' = oe
      BY <1>1, <1>5, <2>5 DEF SendFrame
    <3>2. phyCnt' = 0 /\ phy'[value'.reg] = value'.data
      BY <1>2, <1>3, <2>1, <2>2, <2>5 DEF FrameSync
    <3>3. FinishSync'
      BY <1>3, <2>1, <2>5, <3>1, <3>2 DEF FinishSync
    <3> QED BY <1>3, <1>5, <2>5, <3>1, <3>3
  <2> QED BY <2>3, <2>4, <2>5
<1>6. CASE ~fall
  <2>1. UNCHANGED <<shifted, oe, bitCnt, state>>
    BY <1>1, <1>6 DEF SendFrame
  <2>2. Length' = Length
    BY DEF Length
  <2>3. CASE Tick /\ ~mdc
    <3>1. ~Sampled /\ Sampled'
      BY <2>3, ClockStep
    <3>2. /\ phyCnt' = IF shifted + 1 = FrameBits THEN 0 ELSE shifted + 1
          /\ phyFrame' = value
          /\ phyCnt' = 0 => phy' = IF value.rw = "write"
                                   THEN [phy EXCEPT ![value.reg] = value.data]
                                   ELSE phy
          /\ phyCnt' # 0 => phy' = phy
      BY <2>3, <3>1, SamplesFrame
    <3>3. phyCnt' = 0 => value.rw = "write"
      BY <1>2, <1>3, <3>2 DEF Serving, Requests
    <3>4. phyCnt' = 0 => phy'[value.reg] = value.data
      BY <1>3, <3>2, <3>3 DEF Serving, Requests, TypeOK
    <3>5. rw = "read" => phy' = phy
      BY <1>3, <3>2, <3>3 DEF Serving
    <3>6. FrameSync'
      BY <1>2, <1>3, <2>1, <2>2, <3>1, <3>2, <3>4 DEF FrameSync
    <3> QED BY <1>3, <1>6, <2>1, <3>5, <3>6
  <2>4. CASE ~(Tick /\ ~mdc)
    <3>1. Sampled' <=> Sampled
      BY <1>6, <2>4, ClockStep DEF Sampled
    <3>2. FrameSync'
      BY <1>2, <1>3, <1>4, <2>1, <2>2, <2>4, <3>1 DEF FrameSync
    <3> QED BY <1>3, <1>4, <1>6, <2>1, <2>4, <3>2
  <2> QED BY <2>3, <2>4
<1> QED BY <1>5, <1>6

(* The PHY puts the next bit of its answer on the line when MDC falls.     *)
AnswerStep ==
  state \in {"TA", "READ"} =>
    IF Tick /\ mdc
    THEN state = "READ" \/ bitCnt = 0 =>
           phyBit' = phy[value.reg][FrameBits - 1 - phyCnt]
    ELSE phyBit' = phyBit

LEMMA TurnStep ==
  ASSUME TypeOK, ClockOK, TurnSync, state = "TA", rw' = rw,
         bitCnt = 0 /\ fall => Answer(DataBits - 1),
         MdcEdge, FsmEdge, Samples, AnswerStep
  PROVE  /\ IF fall /\ bitCnt = 0
            THEN state' = "READ" /\ ReadSync' /\ bitCnt' = DataBits - 1
            ELSE /\ state' = "TA" /\ TurnSync'
                 /\ bitCnt' = IF fall THEN bitCnt - 1 ELSE bitCnt
                 /\ bitCnt' = 0 /\ fall' => Answer(DataBits - 1)'
         /\ UNCHANGED <<value, done, rdata, phy>>
<1>1. TurnAround
  BY DEF FsmEdge, Idle, SendPreamble, SendFrame, ReadData, Finish
<1>2. /\ Serving /\ Serving' /\ ~oe /\ rw = "read" /\ phyFrame = value
      /\ value' = value /\ done' = done /\ rdata' = rdata
      /\ bitCnt \in {0, 1} /\ word' = word
  BY <1>1 DEF TurnSync, Serving, TurnAround
<1>3. /\ phyCnt = OpBits + 2 - bitCnt - Due /\ Due \in {0, 1}
      /\ phyCnt \in OpBits .. FrameBits - 1
  BY Sizes, <1>2 DEF TurnSync, Due
<1>4. /\ phyFrame' = value /\ phy' = phy
      /\ Tick /\ ~mdc => phyCnt' = IF phyCnt = FrameBits - 1 THEN 0
                                   ELSE phyCnt + 1
      /\ ~(Tick /\ ~mdc) => phyCnt' = phyCnt
  BY <1>2, <1>3, SamplesAnswer DEF Serving
<1>5. CASE fall
  <2>1. Sampled /\ ~Sampled' /\ ~Tick /\ ~mdc' /\ ~rise' /\ ~fall'
    BY <1>5, ClockStep DEF Sampled
  <2>2. Due = 0 /\ Due' = 1 /\ phyCnt' = phyCnt /\ phyBit' = phyBit
    BY <1>4, <2>1 DEF Due, AnswerStep
  <2>3. CASE bitCnt = 0
    <3>1. oe' = FALSE /\ bitCnt' = DataBits - 1 /\ state' = "READ"
      BY <1>1, <1>5, <2>3 DEF TurnAround
    <3>2. phyCnt' = FrameBits - 1 - bitCnt' /\ bitCnt' \in 0 .. DataBits - 1
      BY Sizes, <1>3, <2>2, <2>3, <3>1
    <3>3. Answer(bitCnt)'
      BY <1>2, <1>4, <1>5, <2>2, <2>3, <3>1 DEF Answer
    <3>4. \A b \in 0 .. DataBits - 1 : ~(b > bitCnt')
      BY Sizes, <3>1
    <3>5. ReadSync'
      BY <1>2, <1>4, <2>1, <3>1, <3>2, <3>3, <3>4 DEF ReadSync
    <3> QED BY <1>2, <1>4, <1>5, <2>3, <3>1, <3>5
  <2>4. CASE bitCnt = 1
    <3>1. oe' = FALSE /\ bitCnt' = 0 /\ state' = "TA"
      BY <1>1, <1>5, <2>4 DEF TurnAround
    <3>2. TurnSync'
      BY Sizes, <1>2, <1>3, <1>4, <2>2, <2>4, <3>1 DEF TurnSync
    <3> QED BY <1>2, <1>4, <1>5, <2>1, <2>4, <3>1, <3>2
  <2> QED BY <1>2, <2>3, <2>4
<1>6. CASE ~fall
  <2>1. UNCHANGED <<oe, bitCnt, state>>
    BY <1>1, <1>6 DEF TurnAround
  <2>2. CASE Tick /\ ~mdc
    <3>1. Due = 1 /\ Due' = 0 /\ ~fall'
      BY <2>2, ClockStep DEF Due
    <3>2. phyCnt' = phyCnt + 1
      BY Sizes, <1>2, <1>3, <1>4, <2>2, <3>1
    <3>3. TurnSync'
      BY Sizes, <1>2, <1>3, <1>4, <2>1, <3>1, <3>2 DEF TurnSync
    <3> QED BY <1>2, <1>4, <1>6, <2>1, <3>1, <3>3
  <2>3. CASE ~(Tick /\ ~mdc)
    <3>1. Sampled' <=> Sampled
      BY <1>6, <2>3, ClockStep DEF Sampled
    <3>2. TurnSync'
      BY <1>2, <1>3, <1>4, <2>1, <2>3, <3>1 DEF TurnSync, Due
    <3>3. ASSUME bitCnt' = 0, fall' PROVE Answer(DataBits - 1)'
      <4>1. Tick /\ mdc /\ bitCnt = 0
        BY <2>1, <3>3, <1>6, ClockStep
      <4>2. Due = 0
        BY <4>1 DEF Due, Sampled
      <4>3. FrameBits - 1 - phyCnt = DataBits - 1
        BY Sizes, <1>3, <4>1, <4>2
      <4> QED BY <1>2, <1>4, <4>1, <4>3 DEF AnswerStep, Answer
    <3> QED BY <1>2, <1>4, <1>6, <2>1, <3>2, <3>3
  <2> QED BY <2>2, <2>3
<1> QED BY <1>5, <1>6

LEMMA ReadStep ==
  ASSUME TypeOK, ClockOK, ReadSync, state = "READ", rw' = rw,
         MdcEdge, FsmEdge, Samples, AnswerStep
  PROVE  /\ IF rise /\ bitCnt = 0
            THEN state' = "FINISH" /\ FinishSync' /\ ~oe' /\ mdc' /\ ~fall'
            ELSE /\ state' = "READ" /\ ReadSync'
                 /\ bitCnt' = IF rise THEN bitCnt - 1 ELSE bitCnt
         /\ UNCHANGED <<value, done, phy>>
<1>1. ReadData
  BY DEF FsmEdge, Idle, SendPreamble, SendFrame, TurnAround, Finish
<1>2. /\ Serving /\ Serving' /\ ~oe /\ oe' = oe /\ rw = "read"
      /\ value' = value /\ done' = done
      /\ bitCnt \in 0 .. DataBits - 1
  BY <1>1 DEF ReadSync, Serving, ReadData
<1>3. /\ phy' = phy
      /\ ~(Tick /\ ~mdc) => phyCnt' = phyCnt
      /\ phyCnt > 0 => phyFrame' = value
      /\ phyCnt = 0 => phyCnt' = 0
      /\ Tick /\ ~mdc => phyCnt' = IF bitCnt = 0 THEN 0 ELSE FrameBits - bitCnt
  <2>1. CASE rise /\ bitCnt = 0
    <3>1. phyCnt = 0 /\ ~Tick
      BY <2>1, ClockStep DEF ReadSync
    <3> QED BY <3>1, SamplesIdle DEF Samples
  <2>2. CASE ~(rise /\ bitCnt = 0)
    <3>1. /\ phyCnt \in OpBits .. FrameBits - 1 /\ phyCnt > 0
          /\ Tick => phyCnt = FrameBits - 1 - bitCnt
      BY Sizes, <1>2, <2>2, ClockStep DEF ReadSync
    <3>2. phyFrame = value
      BY <3>1 DEF ReadSync
    <3>3. /\ phyFrame' = value /\ phy' = phy
          /\ Tick /\ ~mdc => phyCnt' = IF phyCnt = FrameBits - 1 THEN 0
                                       ELSE phyCnt + 1
          /\ ~(Tick /\ ~mdc) => phyCnt' = phyCnt
      BY <1>2, <3>1, <3>2, SamplesAnswer DEF Serving
    <3> QED BY Sizes, <1>2, <3>1, <3>3
  <2> QED BY <2>1, <2>2
<1>4. CASE rise
  <2>1. ~Tick /\ ~rise' /\ Sampled' /\ phyCnt' = phyCnt /\ mdc' /\ ~fall'
    BY <1>3, <1>4, ClockStep DEF ClockOK
  <2>2. phyBit = phy[value.reg][bitCnt] /\ phyBit \in {0, 1}
    <3>1. phyBit = phy[value.reg][bitCnt]
      BY <1>4 DEF ReadSync, Answer
    <3>2. value.reg \in PhyRegs
      BY <1>2 DEF Serving, Requests
    <3>3. phy[value.reg] \in [0 .. DataBits - 1 -> {0, 1}]
      BY <3>2 DEF TypeOK, Words
    <3> QED BY <1>2, <3>1, <3>3
  <2>3. MdioIn = phyBit
    BY <2>2, MdioAssumption DEF MdioIn
  <2>4. word' = [word EXCEPT ![bitCnt] = phyBit] /\ word \in Words
    BY <1>1, <1>4, <2>3 DEF ReadData, TypeOK
  <2>5. \A b \in 0 .. DataBits - 1 : b >= bitCnt => word'[b] = phy[value.reg][b]
    BY <1>2, <2>2, <2>4 DEF Words, ReadSync
  <2>6. CASE bitCnt = 0
    <3>1. rdata' = word' /\ state' = "FINISH"
      BY <1>1, <1>4, <2>6 DEF ReadData
    <3>2. /\ word' \in [0 .. DataBits - 1 -> {0, 1}]
          /\ phy[value.reg] \in [0 .. DataBits - 1 -> {0, 1}]
      BY <1>2, <2>2, <2>4 DEF Words, Serving, Requests, TypeOK
    <3>3. \A b \in 0 .. DataBits - 1 : word'[b] = phy[value.reg][b]
      BY <2>5, <2>6
    <3>4. rdata' = phy[value.reg]
      <4>1. word' = [b \in 0 .. DataBits - 1 |-> word'[b]]
        BY <3>2, Zenon
      <4>2. phy[value.reg] = [b \in 0 .. DataBits - 1 |-> phy[value.reg][b]]
        BY <3>2, Zenon
      <4> QED BY <3>1, <3>3, <4>1, <4>2, Zenon
    <3>5. phyCnt' = 0
      BY <1>4, <2>1, <2>6 DEF ReadSync
    <3>6. FinishSync'
      BY <1>2, <1>3, <2>1, <3>1, <3>4, <3>5 DEF FinishSync
    <3> QED BY <1>2, <1>3, <1>4, <2>1, <2>6, <3>1, <3>6
  <2>7. CASE bitCnt # 0
    <3>1. bitCnt' = bitCnt - 1 /\ state' = "READ"
      BY <1>1, <1>4, <2>7 DEF ReadData
    <3>2. bitCnt' \in 0 .. DataBits - 1 /\ phyCnt' = FrameBits - 1 - bitCnt'
          /\ phyCnt' > 0
      BY Sizes, <1>2, <1>4, <2>1, <2>7, <3>1 DEF ReadSync
    <3>3. \A b \in 0 .. DataBits - 1 : b > bitCnt' => word'[b] = phy[value.reg][b]
      BY <1>2, <2>5, <3>1
    <3>4. ReadSync'
      BY <1>2, <1>3, <2>1, <3>2, <3>3 DEF ReadSync
    <3> QED BY <1>2, <1>3, <1>4, <2>7, <3>1, <3>4
  <2> QED BY <2>6, <2>7
<1>5. CASE ~rise
  <2>1. UNCHANGED <<word, bitCnt, rdata, state>>
    BY <1>1, <1>5 DEF ReadData
  <2>2. phyCnt = FrameBits - 1 - bitCnt /\ phyCnt > 0
    BY Sizes, <1>2, <1>5 DEF ReadSync
  <2>3. \A b \in 0 .. DataBits - 1 : b > bitCnt' => word'[b] = phy'[value'.reg][b]
    BY <1>2, <1>3, <2>1 DEF ReadSync
  <2>4. ~mdc' \/ rise' => Answer(bitCnt)'
    <3>1. CASE Tick /\ mdc
      <4>1. FrameBits - 1 - phyCnt = bitCnt
        BY Sizes, <1>2, <2>2
      <4> QED BY <1>2, <1>3, <2>1, <3>1, <4>1 DEF AnswerStep, Answer
    <3>2. CASE ~(Tick /\ mdc)
      <4>1. ~mdc' \/ rise' => ~mdc
        BY <3>2, ClockStep
      <4>2. phyBit' = phyBit
        BY <3>2 DEF AnswerStep
      <4> QED BY <1>2, <1>3, <2>1, <4>1, <4>2 DEF ReadSync, Answer
    <3> QED BY <3>1, <3>2
  <2>5. CASE Tick /\ ~mdc
    <3>1. rise'
      BY <2>5, ClockStep
    <3> QED BY Sizes, <1>2, <1>3, <1>5, <2>1, <2>2, <2>3, <2>4, <2>5, <3>1
            DEF ReadSync
  <2>6. CASE ~(Tick /\ ~mdc)
    <3>1. ~rise'
      BY <2>6, ClockStep
    <3> QED BY <1>2, <1>3, <1>5, <2>1, <2>2, <2>3, <2>4, <2>6, <3>1
            DEF ReadSync
  <2> QED BY <2>5, <2>6
<1> QED BY <1>4, <1>5

LEMMA FinishStep ==
  ASSUME TypeOK, ClockOK, FinishSync, state = "FINISH", rw' = rw,
         MdcEdge, FsmEdge, Samples
  PROVE  /\ IF rise THEN state' = "IDLE" /\ IdleSync' /\ done' = TRUE
            ELSE state' = "FINISH" /\ FinishSync' /\ done' = done
         /\ oe' = (oe \/ fall)
         /\ UNCHANGED <<value, phy, rdata>>
<1>1. Finish
  BY DEF FsmEdge, Idle, SendPreamble, SendFrame, TurnAround, ReadData
<1>2. /\ Serving /\ Serving' /\ value' = value /\ rdata' = rdata
      /\ oe' = (oe \/ fall) /\ phyCnt = 0 /\ oe \in BOOLEAN
  BY <1>1 DEF FinishSync, Serving, Finish, TypeOK
<1>3. /\ phyCnt' = 0 /\ phy' = phy
      /\ Tick /\ ~mdc /\ oe =>
           ones' = IF ones = Preamble THEN ones ELSE ones + 1
      /\ ~(Tick /\ ~mdc) => ones' = ones
  BY <1>2, SamplesIdle
<1>4. CASE rise
  <2>1. state' = "IDLE" /\ done' = TRUE /\ ~Tick /\ Sampled
    BY <1>1, <1>4, ClockStep DEF Finish
  <2>2. oe /\ ones' = ones /\ ones >= 1 /\ oe'
    BY <1>2, <1>3, <1>4, <2>1 DEF FinishSync
  <2> QED BY <1>2, <1>3, <1>4, <2>1, <2>2 DEF IdleSync
<1>5. CASE ~rise
  <2>1. state' = "FINISH" /\ done' = done
    BY <1>1, <1>5 DEF Finish
  <2>2. ~oe' => rw = "read" /\ Sampled' /\ ~rise'
    <3> SUFFICES ASSUME ~oe' PROVE rw = "read" /\ Sampled' /\ ~rise'
      OBVIOUS
    <3>1. ~oe /\ ~fall
      BY <1>2
    <3>2. rw = "read" /\ Sampled
      BY <3>1 DEF FinishSync
    <3> QED BY <3>1, <3>2, ClockStep
  <2>3. oe' /\ Sampled' => ones' >= 1 /\ rise'
    <3> SUFFICES ASSUME oe', Sampled' PROVE ones' >= 1 /\ rise'
      OBVIOUS
    <3>1. ~fall
      BY ClockStep
    <3>2. oe
      BY <1>2, <3>1
    <3>3. CASE Tick /\ ~mdc
      BY Sizes, <1>3, <3>2, <3>3, ClockStep DEF TypeOK
    <3>4. CASE ~(Tick /\ ~mdc)
      <4>1. Sampled
        BY <3>1, <3>4, ClockStep DEF Sampled
      <4> QED BY <1>5, <3>2, <4>1 DEF FinishSync
    <3> QED BY <3>3, <3>4
  <2>4. IF rw = "read" THEN rdata' = phy'[value'.reg]
        ELSE phy'[value'.reg] = value'.data
    BY <1>2, <1>3 DEF FinishSync
  <2> QED BY <1>2, <1>3, <1>5, <2>1, <2>2, <2>3, <2>4 DEF FinishSync
<1> QED BY <1>4, <1>5

(* What the transaction tells the registers, whatever the state.           *)
Delivered == IF value.rw = "read" THEN rdata = phy[value.reg]
             ELSE phy[value.reg] = value.data

LEMMA SyncStep ==
  ASSUME TypeOK, ClockOK, Sync, start \/ state # "IDLE" => rw' = rw,
         MdcEdge, FsmEdge, Samples, AnswerStep
  PROVE  /\ Sync'
         /\ state # "IDLE" => /\ value' = value
                              /\ done' = IF state = "FINISH" /\ rise
                                         THEN TRUE ELSE done
                              /\ state' = "IDLE" <=> state = "FINISH" /\ rise
         /\ state = "FINISH" => Delivered /\ Delivered'
<1>1. CASE state = "IDLE"
  BY <1>1, IdleStep DEF Sync
<1>2. CASE state = "PREAMBLE"
  BY <1>2, PreambleStep DEF Sync
<1>3. CASE state = "OPCODE"
  <2>1. FrameSync /\ rw' = rw
    BY <1>3 DEF Sync
  <2>2. /\ \/ state' = "TA" /\ TurnSync' /\ bitCnt' = 1
           \/ state' = "FINISH" /\ FinishSync'
           \/ state' = "OPCODE" /\ FrameSync'
        /\ value' = value /\ done' = done
    BY <1>3, <2>1, FrameStep
  <2>3. CASE state' = "TA" /\ TurnSync' /\ bitCnt' = 1
    <3>1. (bitCnt = 0 /\ fall => Answer(DataBits - 1))'
      BY <2>3
    <3>2. Sync'
      BY <2>3, <3>1 DEF Sync
    <3> QED BY <1>3, <2>2, <2>3, <3>2
  <2>4. CASE state' = "FINISH" /\ FinishSync'
    <3>1. Sync'
      BY <2>4 DEF Sync
    <3> QED BY <1>3, <2>2, <2>4, <3>1
  <2>5. CASE state' = "OPCODE" /\ FrameSync'
    <3>1. Sync'
      BY <2>5 DEF Sync
    <3> QED BY <1>3, <2>2, <2>5, <3>1
  <2> QED BY <2>2, <2>3, <2>4, <2>5
<1>4. CASE state = "TA"
  BY <1>4, TurnStep DEF Sync
<1>5. CASE state = "READ"
  BY <1>5, ReadStep DEF Sync
<1>6. CASE state = "FINISH"
  <2>1. Delivered
    BY <1>6 DEF Sync, FinishSync, Serving, Delivered
  <2>2. /\ rw' = rw
        /\ IF rise THEN state' = "IDLE" /\ IdleSync' /\ done' = TRUE
           ELSE state' = "FINISH" /\ FinishSync' /\ done' = done
        /\ value' = value /\ phy' = phy /\ rdata' = rdata
    BY <1>6, FinishStep DEF Sync
  <2>3. Delivered'
    BY <2>1, <2>2 DEF Delivered
  <2>4. Sync'
    BY <2>2 DEF Sync
  <2> QED BY <1>6, <2>1, <2>2, <2>3, <2>4
<1> QED BY <1>1, <1>2, <1>3, <1>4, <1>5, <1>6 DEF TypeOK

-----------------------------------------------------------------------------
(* Where the PHY has counted to when its answer is due.                    *)
LEMMA AnswerPlace ==
  ASSUME TypeOK, ClockOK, Sync, MdcEdge, Tick, mdc
  PROVE  /\ Sampled /\ ~rise /\ ~fall /\ Due = 0
         /\ state = "TA" => phyCnt = OpBits + 2 - bitCnt /\ bitCnt \in {0, 1}
         /\ state = "READ" => phyCnt = FrameBits - 1 - bitCnt
                              /\ bitCnt \in 0 .. DataBits - 1
         /\ state \in {"TA", "READ"} =>
              /\ phyCnt \in Nat /\ phyCnt > OpBits
              /\ Serving /\ rw = "read" /\ phyFrame = value
<1>1. Sampled /\ ~rise /\ ~fall
  BY ClockStep DEF Sampled
<1>2. Due = 0
  BY <1>1 DEF Due
<1>3. state = "TA" => TurnSync
  BY DEF Sync
<1>4. state = "READ" => ReadSync
  BY DEF Sync
<1>5. state = "TA" => /\ phyCnt = OpBits + 2 - bitCnt /\ bitCnt \in {0, 1}
                      /\ phyCnt > OpBits /\ Serving /\ rw = "read"
                      /\ phyFrame = value /\ phyCnt \in Nat
  BY Sizes, <1>2, <1>3 DEF TurnSync
<1>6. state = "READ" => /\ phyCnt = FrameBits - 1 - bitCnt
                        /\ bitCnt \in 0 .. DataBits - 1
                        /\ phyCnt > OpBits /\ phyCnt \in Nat
                        /\ Serving /\ rw = "read" /\ phyFrame = value
  <2> SUFFICES ASSUME state = "READ"
               PROVE  /\ phyCnt = FrameBits - 1 - bitCnt
                      /\ bitCnt \in 0 .. DataBits - 1
                      /\ phyCnt > OpBits /\ phyCnt \in Nat
                      /\ Serving /\ rw = "read" /\ phyFrame = value
    OBVIOUS
  <2>1. ReadSync
    BY <1>4
  <2>2. phyCnt = FrameBits - 1 - bitCnt /\ bitCnt \in 0 .. DataBits - 1
        /\ Serving /\ rw = "read"
    BY <1>1, <2>1 DEF ReadSync
  <2>3. phyCnt > OpBits /\ phyCnt \in Nat /\ phyCnt > 0
    BY Sizes, <2>2
  <2> QED BY <2>1, <2>2, <2>3 DEF ReadSync
<1> QED BY <1>1, <1>2, <1>5, <1>6

(* The PHY on the wire answers from the register that was asked for.       *)
LEMMA SharedAnswer ==
  ASSUME TypeOK, ClockOK, Sync, MdcEdge,
         IF Tick /\ mdc THEN PhyDrives ELSE phyBit' = phyBit
  PROVE  AnswerStep
<1>1. CASE Tick /\ mdc /\ state \in {"TA", "READ"}
            /\ (state = "READ" \/ bitCnt = 0)
  <2>1. /\ phyCnt \in Nat /\ phyCnt >= OpBits + 2 /\ phyFrame = value
        /\ value \in Requests /\ value.rw = "read"
    BY Sizes, <1>1, AnswerPlace DEF Serving
  <2>2. value # Nil /\ ~(phyCnt <= OpBits) /\ phyCnt # OpBits + 1
    BY Sizes, MdioAssumption, <2>1
  <2>3. PhyDrives
    BY <1>1
  <2>4. phyBit' = phy[value.reg][FrameBits - 1 - phyCnt]
    BY <2>1, <2>2, <2>3 DEF PhyDrives
  <2> QED BY <1>1, <2>4 DEF AnswerStep
<1>2. CASE ~(Tick /\ mdc)
  BY <1>2 DEF AnswerStep
<1>3. CASE Tick /\ mdc /\ ~(state = "READ" \/ bitCnt = 0)
  BY <1>3 DEF AnswerStep
<1>4. CASE state \notin {"TA", "READ"}
  BY <1>4 DEF AnswerStep
<1> QED BY <1>1, <1>2, <1>3, <1>4

(* ... and leaves the line to the master at all other times.               *)
LEMMA QuietStep ==
  ASSUME TypeOK, ClockOK, Sync, Quiet, program' = program,
         start \/ state # "IDLE" => rw' = rw, MdcEdge, FsmEdge, Samples,
         program # "direct" =>
           IF Tick /\ mdc THEN PhyDrives ELSE phyBit' = phyBit
  PROVE  Quiet'
<1> SUFFICES ASSUME program # "direct", phyBit' # Nil
             PROVE  /\ \/ state' \in {"TA", "READ"}
                       \/ state' = "FINISH" /\ ~fall'
                    /\ ~oe'
  BY DEF Quiet
<1>1. AnswerStep
  BY SharedAnswer
<1>2. CASE Tick /\ mdc
  <2>1. Sampled /\ ~rise /\ ~fall
    BY <1>2, AnswerPlace
  <2>2. phyCnt > OpBits /\ phyFrame # Nil /\ phyFrame.rw # "write"
    <3>1. PhyDrives
      BY <1>2
    <3>2. phyCnt \in Nat
      BY Sizes DEF TypeOK
    <3> QED BY Sizes, <3>1, <3>2 DEF PhyDrives
  <2>3. state \in {"TA", "READ"}
    <3>1. state # "IDLE" /\ state # "PREAMBLE" /\ state # "FINISH"
      <4>1. phyCnt # 0
        BY Sizes, <2>2 DEF TypeOK
      <4>2. state = "IDLE" => IdleSync
        BY DEF Sync
      <4>3. state = "PREAMBLE" => PreambleSync
        BY DEF Sync
      <4>4. state = "FINISH" => FinishSync
        BY DEF Sync
      <4> QED BY <4>1, <4>2, <4>3, <4>4
              DEF IdleSync, PreambleSync, FinishSync
    <3>2. ASSUME state = "OPCODE" PROVE FALSE
      <4>1. FrameSync
        BY <3>2 DEF Sync
      <4>2. /\ phyCnt = IF shifted + 1 = FrameBits THEN 0 ELSE shifted + 1
            /\ shifted + bitCnt + 1 = Length /\ shifted \in Nat /\ bitCnt \in Nat
            /\ phyCnt > 0 /\ phyFrame = value /\ rw = value.rw
            /\ value.rw \in {"read", "write"}
        BY Sizes, <2>1, <2>2, <4>1 DEF FrameSync, Serving, Requests
      <4>3. Length = OpBits
        BY <2>2, <4>2 DEF Length
      <4> QED BY Sizes, <2>2, <4>2, <4>3
    <3> QED BY <3>1, <3>2 DEF TypeOK
  <2>4. state' = state /\ oe' = oe
    BY <2>1, <2>3, FsmStill DEF fsmVars
  <2>5. ~oe
    BY <2>3 DEF Sync, TurnSync, ReadSync
  <2> QED BY <2>3, <2>4, <2>5
<1>3. CASE ~(Tick /\ mdc)
  <2>1. ~fall' /\ phyBit # Nil
    BY <1>3, ClockStep
  <2>2. (state \in {"TA", "READ"} \/ (state = "FINISH" /\ ~fall)) /\ ~oe
    BY <2>1 DEF Quiet
  <2>3. CASE state = "TA"
    <3>1. \/ state' = "READ" /\ ReadSync'
          \/ state' = "TA" /\ TurnSync'
      BY <1>1, <2>3, TurnStep DEF Sync
    <3> QED BY <3>1 DEF TurnSync, ReadSync
  <2>4. CASE state = "READ"
    <3>1. \/ state' = "FINISH" /\ ~oe'
          \/ state' = "READ" /\ ReadSync'
      BY <1>1, <2>4, ReadStep DEF Sync
    <3> QED BY <2>1, <3>1 DEF ReadSync
  <2>5. CASE state = "FINISH" /\ ~fall
    <3>1. FinishSync /\ ~rise
      BY <2>2, <2>5 DEF Sync, FinishSync
    <3>2. state' = "FINISH" /\ oe' = (oe \/ fall)
      BY <2>5, <3>1, FinishStep
    <3>3. ~oe'
      BY <2>2, <2>5, <3>2
    <3> QED BY <2>1, <3>2, <3>3
  <2> QED BY <2>2, <2>3, <2>4, <2>5
<1> QED BY <1>2, <1>3

-----------------------------------------------------------------------------
(* phy_respond_read drives the line when the answer is due.                *)
LEMMA DirectPlace ==
  ASSUME TypeOK, ClockOK, Sync, program = "direct", DirectInv, RespInv
  PROVE  /\ resp.phase = "drive" => DriveOK /\ pc = 4 /\ want.rw = "read"
         /\ state \in {"TA", "READ"} =>
              /\ pc \in {4, 5} /\ value = want /\ want.rw = "read"
              /\ MdcEdge /\ Tick /\ mdc => DriveOK
<1>1. ASSUME resp.phase = "drive"
      PROVE  DriveOK /\ pc = 4 /\ want.rw = "read"
  <2>1. resp # Silent
    BY <1>1 DEF Silent
  <2>2. pc \in {4, 5} /\ want.rw # "write"
    BY <2>1 DEF RespInv
  <2>3. want.rw = "read"
    BY <2>2 DEF TypeOK, Requests
  <2>4. pc = 4
    BY <2>1, <2>2, <2>3 DEF RespInv, OffOK
  <2> QED BY <1>1, <2>1, <2>3, <2>4 DEF RespInv, SeekOK, SkipOK, OffOK
<1>2. ASSUME state \in {"TA", "READ"}
      PROVE  /\ pc \in {4, 5} /\ value = want /\ want.rw = "read"
             /\ MdcEdge /\ Tick /\ mdc => DriveOK
  <2>1. pc \in {4, 5}
    BY <1>2 DEF DirectInv, Ready, Served, Early
  <2>2. value = want /\ rw = want.rw
    BY <1>2, <2>1 DEF DirectInv, Running, Served
  <2>3. rw = "read"
    BY <1>2 DEF Sync, TurnSync, ReadSync
  <2>4. ASSUME MdcEdge, Tick, mdc PROVE DriveOK
    <3>1. ~rise /\ ~fall /\ phyCnt > OpBits /\ phyCnt \in Nat
      BY <1>2, <2>4, AnswerPlace
    <3>2. ~SeekOK
      BY <1>2 DEF SeekOK
    <3>3. ~SkipOK
      BY Sizes, <3>1 DEF SkipOK
    <3>4. ~OffOK
      BY <1>2, <2>4, <3>1 DEF OffOK
    <3> QED BY <2>1, <2>2, <2>3, <3>2, <3>3, <3>4 DEF RespInv
  <2> QED BY <2>1, <2>2, <2>3, <2>4
<1> QED BY <1>1, <1>2

LEMMA DirectAnswer ==
  ASSUME TypeOK, ClockOK, Sync, program = "direct", DirectInv, RespInv, MdcEdge,
         NEW step, step = "none" \/ step = Now, Respond(step)
  PROVE  AnswerStep /\ phyBit' \in {0, 1, Nil}
<1>1. /\ step = "aim" => pc = 1
      /\ step = "call" => pc = 3
  BY DirectNow DEF TypeOK
<1>2. ASSUME step # "aim", step # "call", Tick, mdc
      PROVE  RespondDrives
  BY <1>2 DEF Respond
<1>3. ASSUME ~(Tick /\ mdc /\ RespondDrives /\ step # "call")
      PROVE  phyBit' = phyBit \/ (step = "aim" /\ phyBit' = 1)
  BY <1>2, <1>3 DEF Respond
<1>4. ASSUME Tick, mdc, RespondDrives
      PROVE  phyBit' \in {0, 1, Nil}
  <2>1. CASE resp.phase # "drive"
    BY <1>4, <2>1 DEF RespondDrives, TypeOK
  <2>2. CASE resp.phase = "drive"
    <3>1. DriveOK
      BY <2>2, DirectPlace
    <3>2. resp.n \in Nat /\ resp.n >= 1 /\ resp.n <= DataBits + 1
      BY Sizes, <1>4, <3>1 DEF DriveOK, TypeOK
    <3>3. phy[want.reg] \in [0 .. DataBits - 1 -> {0, 1}]
      BY DEF TypeOK, Words, Requests
    <3>4. CASE resp.n = DataBits + 1
      BY <1>4, <2>2, <3>4 DEF RespondDrives
    <3>5. CASE resp.n # DataBits + 1
      <4>1. resp.n - 1 \in 0 .. DataBits - 1
        BY Sizes, <3>2, <3>5
      <4>2. phyBit' = phy[want.reg][resp.n - 1]
        BY <1>4, <2>2, <3>5 DEF RespondDrives
      <4>3. phy[want.reg][resp.n - 1] \in {0, 1}
        BY <3>3, <4>1
      <4> QED BY <4>2, <4>3
    <3> QED BY <3>4, <3>5
  <2> QED BY <2>1, <2>2
<1>5. phyBit' \in {0, 1, Nil}
  <2>1. phyBit \in {0, 1, Nil}
    BY DEF TypeOK
  <2> QED BY <1>3, <1>4, <2>1
<1>6. AnswerStep
  <2> SUFFICES ASSUME state \in {"TA", "READ"}
               PROVE  IF Tick /\ mdc
                      THEN state = "READ" \/ bitCnt = 0 =>
                             phyBit' = phy[value.reg][FrameBits - 1 - phyCnt]
                      ELSE phyBit' = phyBit
    BY DEF AnswerStep
  <2>1. pc \in {4, 5} /\ value = want /\ step # "aim" /\ step # "call"
    BY <1>1, DirectPlace
  <2>2. CASE ~(Tick /\ mdc)
    BY <1>3, <2>1, <2>2
  <2>3. CASE Tick /\ mdc /\ (state = "READ" \/ bitCnt = 0)
    <3>1. RespondDrives /\ DriveOK
      BY <1>2, <2>1, <2>3, DirectPlace
    <3>2. resp.n = FrameBits - phyCnt /\ phyCnt \in Nat /\ phyCnt >= OpBits + 2
      BY Sizes, <2>3, <3>1, AnswerPlace DEF DriveOK
    <3>3. resp.n # DataBits + 1 /\ resp.n - 1 = FrameBits - 1 - phyCnt
      BY Sizes, <3>2
    <3> QED BY <2>1, <2>3, <3>1, <3>3 DEF RespondDrives, DriveOK
  <2>4. CASE Tick /\ mdc /\ ~(state = "READ" \/ bitCnt = 0)
    BY <2>4
  <2> QED BY <2>2, <2>3, <2>4
<1> QED BY <1>5, <1>6

-----------------------------------------------------------------------------
(* Every step of the system is a clock edge at which the program's current *)
(* step takes effect, or none.                                             *)
LEMMA NextEdge ==
  ASSUME Next
  PROVE  \E step : (step = "none" \/ step = Now) /\ Edge(step)
                   /\ program' = program
<1>1. CASE Wait
  BY <1>1 DEF Wait, Elapse
<1>2. CASE Begin
  BY <1>2 DEF Begin, Elapse
<1>3. CASE Program
  BY <1>3 DEF Program, Store, Poll, Rest, Result, Over, Return, Access, Elapse
<1> QED BY <1>1, <1>2, <1>3 DEF Next

LEMMA ProgramIs == TypeOK => program \in {"bench", "firmware", "direct"}
BY MdioAssumption DEF TypeOK

(* The direction bit is stored between transactions only, or left alone.   *)
LEMMA RwHeld ==
  ASSUME TypeOK, ProgInv, NEW step, step = "none" \/ step = Now,
         RegsEdge(step), start \/ state # "IDLE"
  PROVE  rw' = rw
<1>1. step \notin {"clear", "start", "stop", "aim"} => rw' = rw
  BY DEF RegsEdge
<1>2. rw' = want.rw \/ rw' = rw
  BY DEF RegsEdge
<1>3. pc \in 0 .. 7 /\ want \in Requests
  BY DEF TypeOK
<1>4. CASE program = "bench"
  <2>1. BenchInv
    BY <1>4 DEF ProgInv
  <2>2. /\ step = "clear" => pc = 1
        /\ step = "start" => pc = 3
        /\ step = "stop" => pc = 4
        /\ step # "aim"
    BY <1>3, <1>4, BenchNow
  <2>3. pc \notin {1, 3}
    BY <2>1 DEF BenchInv, Ready
  <2>4. pc = 4 => rw = want.rw
    BY <2>1 DEF BenchInv
  <2> QED BY <1>1, <1>2, <2>2, <2>3, <2>4
<1>5. CASE program = "firmware"
  <2>1. FirmwareInv
    BY <1>5 DEF ProgInv
  <2>2. step = "start" => pc = 2
    BY <1>3, <1>5, FirmwareNow
  <2>3. step \notin {"clear", "stop", "aim"}
    BY <1>3, <1>5, FirmwareNow
  <2>4. pc = 2 => rw = want.rw
    BY <2>1 DEF FirmwareInv
  <2> QED BY <1>1, <1>2, <2>2, <2>3, <2>4
<1>6. CASE program = "direct"
  <2>1. DirectInv
    BY <1>6 DEF ProgInv
  <2>2. /\ step = "aim" => pc = 1
        /\ step \notin {"clear", "start", "stop"}
    BY <1>3, <1>6, DirectNow
  <2>3. pc # 1
    BY <2>1 DEF DirectInv, Ready
  <2> QED BY <1>1, <2>2, <2>3
<1> QED BY <1>4, <1>5, <1>6, ProgramIs

LEMMA CoreStep ==
  ASSUME TypeOK, ClockOK, Sync, Quiet, ProgInv, program' = program,
         NEW step, step = "none" \/ step = Now, Edge(step)
  PROVE  /\ ClockOK' /\ Sync' /\ Quiet'
         /\ MdcEdge /\ FsmEdge /\ Samples /\ RegsEdge(step) /\ AnswerStep
         /\ phyBit' \in {0, 1, Nil}
         /\ start \/ state # "IDLE" => rw' = rw
         /\ IF program = "direct" THEN Respond(step) ELSE resp' = resp
<1>1. /\ MdcEdge /\ FsmEdge /\ RegsEdge(step) /\ Samples
      /\ IF program = "direct" THEN Respond(step)
         ELSE /\ resp' = resp
              /\ IF Tick /\ mdc THEN PhyDrives ELSE phyBit' = phyBit
  BY DEF Edge, PhyEdge, Samples
<1>2. start \/ state # "IDLE" => rw' = rw
  BY <1>1, RwHeld
<1>3. AnswerStep /\ phyBit' \in {0, 1, Nil}
  <2>1. CASE program = "direct"
    BY <1>1, <2>1, DirectAnswer DEF ProgInv
  <2>2. CASE program # "direct"
    <3>1. AnswerStep
      BY <1>1, <2>2, SharedAnswer
    <3>2. CASE Tick /\ mdc
      <4>1. PhyDrives
        BY <1>1, <2>2, <3>2
      <4>2. ASSUME ~(phyCnt <= OpBits \/ phyFrame = Nil), phyCnt # OpBits + 1
            PROVE  phy[phyFrame.reg][FrameBits - 1 - phyCnt] \in {0, 1}
        <5>1. FrameBits - 1 - phyCnt \in 0 .. DataBits - 1
          <6>1. phyCnt \in 0 .. FrameBits - 1 /\ ~(phyCnt <= OpBits)
            BY <4>2 DEF TypeOK
          <6> QED BY Sizes, <4>2, <6>1
        <5>2. phy[phyFrame.reg] \in [0 .. DataBits - 1 -> {0, 1}]
          <6>1. phyFrame \in Requests
            BY <4>2 DEF TypeOK
          <6> QED BY <6>1 DEF TypeOK, Requests, Words
        <5> QED BY <5>1, <5>2
      <4>3. \/ phyBit' = Nil \/ phyBit' = 0
            \/ /\ ~(phyCnt <= OpBits \/ phyFrame = Nil) /\ phyCnt # OpBits + 1
               /\ phyBit' = phy[phyFrame.reg][FrameBits - 1 - phyCnt]
        BY <4>1, Zenon DEF PhyDrives
      <4> QED BY <3>1, <4>2, <4>3
    <3>3. CASE ~(Tick /\ mdc)
      <4>1. phyBit' = phyBit /\ phyBit \in {0, 1, Nil}
        BY <1>1, <2>2, <3>3 DEF TypeOK
      <4> QED BY <3>1, <4>1
    <3> QED BY <3>2, <3>3
  <2> QED BY <2>1, <2>2
<1>4. ClockOK'
  BY <1>1, ClockStep
<1>5. Sync'
  BY <1>1, <1>2, <1>3, SyncStep
<1>6. Quiet'
  BY <1>1, <1>2, QuietStep
<1> QED BY <1>1, <1>2, <1>3, <1>4, <1>5, <1>6

-----------------------------------------------------------------------------
(* Types, one part of the system after the other.                          *)
LEMMA FsmTypes ==
  ASSUME TypeOK, Sync, FsmEdge
  PROVE  /\ state' \in {"IDLE", "PREAMBLE", "OPCODE", "TA", "READ", "FINISH"}
         /\ bitCnt' \in Nat /\ value' \in Requests \cup {Nil}
         /\ shifted' \in 0 .. FrameBits
         /\ oe' \in BOOLEAN /\ done' \in BOOLEAN
         /\ word' \in Words /\ rdata' \in Words
<1>1. /\ bitCnt \in Nat /\ value \in Requests \cup {Nil}
      /\ shifted \in 0 .. FrameBits /\ oe \in BOOLEAN /\ done \in BOOLEAN
      /\ word \in Words /\ rdata \in Words
  BY DEF TypeOK
<1>2. CASE Idle
  <2>1. value' \in Requests \cup {Nil}
    BY <1>1, <1>2 DEF Idle, TypeOK, Requests
  <2>2. oe' \in BOOLEAN /\ done' \in BOOLEAN /\ word' \in Words
        /\ rdata' \in Words
    BY <1>1, <1>2, Zenon DEF Idle
  <2>3. state' \in {"IDLE", "PREAMBLE"} /\ bitCnt' \in Nat
        /\ shifted' \in 0 .. FrameBits
    BY Sizes, <1>1, <1>2 DEF Idle
  <2> QED BY <2>1, <2>2, <2>3
<1>3. CASE SendPreamble
  <2>1. oe' \in BOOLEAN /\ UNCHANGED <<value, shifted, done, word, rdata>>
    BY <1>1, <1>3, Zenon DEF SendPreamble
  <2>2. state' \in {"PREAMBLE", "OPCODE"} /\ bitCnt' \in Nat
    BY Sizes, <1>1, <1>3 DEF SendPreamble
  <2> QED BY <1>1, <2>1, <2>2
<1>4. CASE SendFrame
  <2>1. oe' \in BOOLEAN /\ UNCHANGED <<value, done, word, rdata>>
    BY <1>1, <1>4, Zenon DEF SendFrame
  <2>2. state' \in {"OPCODE", "TA", "FINISH"} /\ bitCnt' \in Nat
    BY <1>1, <1>4 DEF SendFrame
  <2>3. shifted' \in 0 .. FrameBits
    <3>1. FrameSync
      BY <1>4 DEF SendFrame, Sync
    <3>2. shifted \in 0 .. FrameBits - 1
      BY <3>1 DEF FrameSync
    <3> QED BY Sizes, <1>1, <1>4, <3>2 DEF SendFrame
  <2> QED BY <1>1, <2>1, <2>2, <2>3
<1>5. CASE TurnAround
  <2>1. oe' \in BOOLEAN /\ UNCHANGED <<value, shifted, done, word, rdata>>
    BY <1>1, <1>5, Zenon DEF TurnAround
  <2>2. state' \in {"TA", "READ"} /\ bitCnt' \in Nat
    BY Sizes, <1>1, <1>5 DEF TurnAround
  <2> QED BY <1>1, <2>1, <2>2
<1>6. CASE ReadData
  <2>1. UNCHANGED <<value, shifted, oe, done>>
    BY <1>6 DEF ReadData
  <2>2. state' \in {"READ", "FINISH"} /\ bitCnt' \in Nat
    BY <1>1, <1>6 DEF ReadData
  <2>3. word' \in Words /\ rdata' \in Words
    <3>1. CASE rise
      <4>1. Answer(bitCnt) /\ value \in Requests
            /\ bitCnt \in 0 .. DataBits - 1
        BY <1>6, <3>1 DEF ReadData, Sync, ReadSync, Serving
      <4>2. MdioIn \in {0, 1}
        BY DEF MdioIn, TypeOK
      <4>3. word' \in Words
        BY <1>1, <1>6, <3>1, <4>1, <4>2 DEF ReadData, Words
      <4> QED BY <1>1, <1>6, <3>1, <4>3 DEF ReadData
    <3>2. CASE ~rise
      BY <1>1, <1>6, <3>2 DEF ReadData
    <3> QED BY <3>1, <3>2
  <2> QED BY <1>1, <2>1, <2>2, <2>3
<1>7. CASE Finish
  <2>1. oe' \in BOOLEAN /\ done' \in BOOLEAN
    BY <1>1, <1>7, Zenon DEF Finish
  <2>2. UNCHANGED <<value, shifted, bitCnt, word, rdata>>
        /\ state' \in {"IDLE", "FINISH"}
    BY <1>7 DEF Finish
  <2> QED BY <1>1, <2>1, <2>2
<1> QED BY <1>2, <1>3, <1>4, <1>5, <1>6, <1>7 DEF FsmEdge

LEMMA RegTypes ==
  ASSUME TypeOK, NEW step, RegsEdge(step)
  PROVE  /\ start' \in BOOLEAN /\ flag' \in BOOLEAN
         /\ rw' \in {"read", "write"} /\ cfg' \in [reg: PhyRegs, data: Words]
<1>1. /\ want.rw \in {"read", "write"} /\ want.reg \in PhyRegs
      /\ want.data \in Words
  BY DEF TypeOK, Requests
<1>2. flag' \in BOOLEAN
  BY DEF TypeOK, RegsEdge
<1>3. start \in BOOLEAN
  BY DEF TypeOK
<1>4. start' \in BOOLEAN
  <2>1. CASE step \in {"start", "raise"}
    BY <2>1 DEF RegsEdge
  <2>2. CASE step \in {"clear", "stop", "drop", "call"}
    <3>1. step \notin {"start", "raise"}
      BY <2>2
    <3> QED BY <2>2, <3>1 DEF RegsEdge
  <2>3. CASE step \notin {"start", "raise", "clear", "stop", "drop", "call"}
    <3>1. start' = (start /\ (done => program = "direct"))
      BY <2>3 DEF RegsEdge
    <3> QED BY <3>1, Zenon
  <2> QED BY <2>1, <2>2, <2>3
<1>5. rw' \in {"read", "write"} /\ cfg' \in [reg: PhyRegs, data: Words]
  BY <1>1 DEF TypeOK, RegsEdge
<1> QED BY <1>2, <1>4, <1>5

LEMMA PhyTypes ==
  ASSUME TypeOK, Samples
  PROVE  /\ phyCnt' \in 0 .. FrameBits - 1
         /\ phyFrame' \in Requests \cup {Nil}
         /\ ones' \in 0 .. Preamble /\ phy' \in [PhyRegs -> Words]
<1>1. /\ phyCnt \in 0 .. FrameBits - 1 /\ phyFrame \in Requests \cup {Nil}
      /\ ones \in 0 .. Preamble /\ phy \in [PhyRegs -> Words]
      /\ value \in Requests \cup {Nil}
  BY DEF TypeOK
<1>2. CASE PhySamples
  <2>1. phyCnt' \in 0 .. FrameBits - 1
    BY Sizes, <1>1, <1>2 DEF PhySamples
  <2>2. phyFrame' \in Requests \cup {Nil}
    BY <1>1, <1>2 DEF PhySamples
  <2>3. ones' \in 0 .. Preamble
    BY Sizes, <1>1, <1>2 DEF PhySamples
  <2>4. phy' \in [PhyRegs -> Words]
    <3>1. phy' = phy \/ (phyFrame # Nil /\
                         phy' = [phy EXCEPT ![phyFrame.reg] = phyFrame.data])
      BY <1>1, <1>2 DEF PhySamples
    <3>2. phyFrame # Nil => phyFrame.data \in Words
      BY <1>1 DEF Requests
    <3> QED BY <1>1, <3>1, <3>2
  <2> QED BY <2>1, <2>2, <2>3, <2>4
<1> QED BY <1>1, <1>2 DEF Samples

LEMMA RespTypes ==
  ASSUME TypeOK, NEW step, Respond(step)
  PROVE  resp' \in [phase: {"off", "seek", "skip", "drive"}, prev: {0, 1},
                    n: 0 .. Preamble + FrameBits]
<1> DEFINE Type == [phase: {"off", "seek", "skip", "drive"}, prev: {0, 1},
                    n: 0 .. Preamble + FrameBits]
<1> SUFFICES resp' \in Type
  OBVIOUS
<1>1. resp \in Type
  BY DEF TypeOK
<1>2. resp.n \in 0 .. Preamble + FrameBits
  BY <1>1
<1>3. Silent \in Type
  BY Sizes DEF Silent
<1>4. \A m \in 0 .. Preamble + FrameBits :
        \A p \in {"off", "seek", "skip", "drive"} :
          [resp EXCEPT !.phase = p, !.n = m] \in Type
  BY <1>1
<1>5. \A m \in 0 .. Preamble + FrameBits : \A b \in {0, 1} :
        [resp EXCEPT !.prev = b, !.n = m] \in Type
  BY <1>1
<1>6. [Silent EXCEPT !.phase = "seek"] \in Type
  BY <1>3
<1>7. resp.n > 1 => [resp EXCEPT !.n = @ - 1] \in Type
  BY <1>1, <1>2, Sizes
<1>8. CASE RespondSamples
  <2>1. CASE resp.phase = "seek"
    <3>1. PICK bit \in LineBits :
            LET count == IF resp.n < Preamble THEN resp.n + bit ELSE resp.n
            IN  resp' = IF count = Preamble /\ resp.prev = 0 /\ bit = 1
                        THEN [resp EXCEPT !.phase = "skip", !.n = OpBits - 1]
                        ELSE [resp EXCEPT !.prev = bit, !.n = count]
      BY <1>8, <2>1 DEF RespondSamples
    <3> DEFINE count == IF resp.n < Preamble THEN resp.n + bit ELSE resp.n
    <3>2. bit \in {0, 1}
      BY Sizes, <3>1 DEF LineBits, TypeOK
    <3>3. count \in 0 .. Preamble + FrameBits
      BY Sizes, <1>2, <3>2
    <3>4. OpBits - 1 \in 0 .. Preamble + FrameBits
      BY Sizes
    <3> HIDE DEF count, Type
    <3>5. \/ resp' = [resp EXCEPT !.phase = "skip", !.n = OpBits - 1]
          \/ resp' = [resp EXCEPT !.prev = bit, !.n = count]
      BY <3>1 DEF count
    <3> QED BY <1>4, <1>5, <3>2, <3>3, <3>4, <3>5
  <2>2. CASE resp.phase = "skip"
    <3>1. DataBits + 1 \in 0 .. Preamble + FrameBits
      BY Sizes
    <3>2. resp' = IF resp.n > 1 THEN [resp EXCEPT !.n = @ - 1]
                  ELSE [resp EXCEPT !.phase = "drive", !.n = DataBits + 1]
      BY <1>8, <2>2 DEF RespondSamples
    <3> HIDE DEF Type
    <3> QED BY <1>4, <1>7, <3>1, <3>2
  <2>3. CASE resp.phase \notin {"seek", "skip"}
    BY <1>1, <1>8, <2>3 DEF RespondSamples
  <2> QED BY <2>1, <2>2, <2>3
<1> HIDE DEF Type
<1>9. CASE RespondDrives
  BY <1>1, <1>3, <1>7, <1>9 DEF RespondDrives
<1>10. \/ resp' = [Silent EXCEPT !.phase = "seek"]
       \/ resp' = resp \/ RespondDrives \/ RespondSamples
  BY DEF Respond
<1> QED BY <1>1, <1>6, <1>8, <1>9, <1>10

LEMMA NowPc == ASSUME TypeOK, Now # "compute" PROVE pc \in 1 .. 6
<1>1. pc \in 0 .. 7 /\ want \in Requests
  BY DEF TypeOK
<1>2. pc # 0 /\ ~Returning
  BY DEF Now
<1>3. CASE program = "bench"
  BY <1>1, <1>2, <1>3, BenchNow
<1>4. CASE program = "firmware"
  BY <1>1, <1>2, <1>4, FirmwareNow
<1>5. CASE program = "direct"
  BY <1>1, <1>2, <1>5, DirectNow
<1> QED BY <1>3, <1>4, <1>5, ProgramIs

LEMMA ProgTypes ==
  ASSUME TypeOK, Next
  PROVE  /\ program' \in Programs /\ pc' \in 0 .. 7
         /\ gap' \in 0 .. MinGap + Delay /\ want' \in Requests
         /\ got' \in Words /\ runs' \in Nat
<1>1. /\ program \in Programs /\ pc \in 0 .. 7 /\ gap \in 0 .. MinGap + Delay
      /\ want \in Requests /\ got \in Words /\ rdata \in Words /\ runs \in Nat
  BY DEF TypeOK
<1>2. Runs \in Nat
  BY <1>1 DEF Runs
<1>3. CASE Wait \/ Begin \/ Return
  <2>1. /\ runs' = Runs /\ program' = program /\ got' = got
        /\ gap' = IF gap > 0 THEN gap - 1 ELSE 0
        /\ pc' = pc \/ pc' = 1 \/ pc' = 0
        /\ want' = want \/ want' \in Requests
    BY <1>3 DEF Wait, Begin, Return, Elapse
  <2> QED BY Sizes, <1>1, <1>2, <2>1
<1>4. CASE \E step \in Stores : Access(step, pc + 1, MinGap) /\ UNCHANGED got
  <2>1. PICK step \in Stores : Access(step, pc + 1, MinGap) /\ UNCHANGED got
    BY <1>4
  <2>2. step # "compute"
    BY <2>1 DEF Stores, Prompt
  <2>3. pc \in 1 .. 6
    BY <2>1, <2>2, NowPc DEF Access
  <2>4. /\ runs' = 0 \/ runs' = Runs
        /\ program' = program /\ got' = got /\ want' = want
        /\ gap' = MinGap - 1 /\ pc' = pc + 1
    BY <2>1 DEF Access
  <2> QED BY Sizes, <1>1, <1>2, <2>3, <2>4
<1>5. CASE Poll \/ Rest \/ Result \/ Over
  <2>1. /\ Now # "compute"
        /\ pc' = pc \/ pc' = pc + 1
        /\ runs' = 0 \/ runs' = Runs
        /\ program' = program /\ want' = want
        /\ got' = got \/ got' = rdata
        /\ gap' = MinGap - 1 \/ gap' = Delay - 1
    BY <1>5 DEF Poll, Rest, Result, Over, Access
  <2>2. pc \in 1 .. 6
    BY <2>1, NowPc
  <2> QED BY Sizes, <1>1, <1>2, <2>1, <2>2
<1> QED BY <1>3, <1>4, <1>5 DEF Next, Program, Store

LEMMA TypeStep ==
  ASSUME TypeOK, ClockOK, Sync, Quiet, ProgInv, Next
  PROVE  TypeOK'
<1>1. PICK step : /\ step = "none" \/ step = Now
                  /\ Edge(step) /\ program' = program
  BY NextEdge
<1>2. /\ MdcEdge /\ FsmEdge /\ Samples /\ RegsEdge(step)
      /\ phyBit' \in {0, 1, Nil}
      /\ IF program = "direct" THEN Respond(step) ELSE resp' = resp
  BY <1>1, CoreStep
<1>3. /\ div' \in 0 .. Div - 1 /\ mdc' \in BOOLEAN
      /\ rise' \in BOOLEAN /\ fall' \in BOOLEAN
  BY <1>2, ClockStep
<1>4. resp' \in [phase: {"off", "seek", "skip", "drive"}, prev: {0, 1},
                 n: 0 .. Preamble + FrameBits]
  <2>1. CASE program = "direct"
    BY <1>2, <2>1, RespTypes
  <2>2. CASE program # "direct"
    BY <1>2, <2>2 DEF TypeOK
  <2> QED BY <2>1, <2>2
<1>5. /\ state' \in {"IDLE", "PREAMBLE", "OPCODE", "TA", "READ", "FINISH"}
      /\ bitCnt' \in Nat /\ value' \in Requests \cup {Nil}
      /\ shifted' \in 0 .. FrameBits
      /\ oe' \in BOOLEAN /\ done' \in BOOLEAN
      /\ word' \in Words /\ rdata' \in Words
  BY <1>2, FsmTypes
<1>6. /\ start' \in BOOLEAN /\ flag' \in BOOLEAN
      /\ rw' \in {"read", "write"} /\ cfg' \in [reg: PhyRegs, data: Words]
  BY <1>2, RegTypes
<1>7. /\ phyCnt' \in 0 .. FrameBits - 1 /\ phyFrame' \in Requests \cup {Nil}
      /\ ones' \in 0 .. Preamble /\ phy' \in [PhyRegs -> Words]
  BY <1>2, PhyTypes
<1>8. /\ program' \in Programs /\ pc' \in 0 .. 7
      /\ gap' \in 0 .. MinGap + Delay /\ want' \in Requests
      /\ got' \in Words /\ runs' \in Nat
  BY ProgTypes
<1>9. {mdc', rise', fall'} \subseteq BOOLEAN
      /\ {oe', done', start', flag'} \subseteq BOOLEAN
  BY <1>3, <1>5, <1>6, Zenon
<1>10. {word', rdata', got'} \subseteq Words
  BY <1>5, <1>8
<1> QED BY <1>2, <1>3, <1>4, <1>5, <1>6, <1>7, <1>8, <1>9, <1>10 DEF TypeOK

-----------------------------------------------------------------------------
(* What a step of the program leaves in the registers.                     *)
LEMMA RegFacts ==
  ASSUME TypeOK, NEW step, RegsEdge(step)
  PROVE  /\ step \in {"start", "raise"} => start'
         /\ step \in {"stop", "drop", "call"} => ~start'
         /\ step \notin {"start", "raise"} /\ ~start => ~start'
         /\ step \notin {"start", "raise", "clear", "stop", "drop", "call"}
              => start' = (start /\ (done => program = "direct"))
         /\ step \in {"clear", "start", "stop", "aim"} => rw' = want.rw
         /\ step \notin {"clear", "start", "stop", "aim"} => rw' = rw
         /\ step \in {"cfg", "aim"} =>
              cfg' = [reg |-> want.reg, data |-> want.data]
         /\ step \notin {"cfg", "aim"} => cfg' = cfg
         /\ flag' = done
<1>1. step \in {"start", "raise"} => start'
  BY DEF RegsEdge
<1>2. step \in {"clear", "stop", "drop", "call"} => ~start'
  BY DEF RegsEdge
<1>3. step \notin {"start", "raise", "clear", "stop", "drop", "call"}
        => start' = (start /\ (done => program = "direct"))
  BY DEF RegsEdge
<1>4. step \notin {"start", "raise"} /\ ~start => ~start'
  BY <1>2, <1>3
<1>5. /\ step \in {"clear", "start", "stop", "aim"} => rw' = want.rw
      /\ step \notin {"clear", "start", "stop", "aim"} => rw' = rw
      /\ step \in {"cfg", "aim"} => cfg' = [reg |-> want.reg, data |-> want.data]
      /\ step \notin {"cfg", "aim"} => cfg' = cfg
      /\ flag' = done
  BY DEF RegsEdge
<1> QED BY <1>1, <1>2, <1>3, <1>4, <1>5

(* Without START an idle master stays idle.                                *)
LEMMA RestStep ==
  ASSUME TypeOK, ClockOK, Sync, state = "IDLE", ~start,
         MdcEdge, FsmEdge, Samples
  PROVE  /\ state' = "IDLE" /\ done' = done /\ phy' = phy /\ rdata' = rdata
         /\ Runs = runs
         /\ Served /\ want' = want => Served'
<1>1. IdleSync
  BY DEF Sync
<1>2. state' = "IDLE" /\ done' = done /\ phy' = phy /\ rdata' = rdata
  BY <1>1, IdleStep
<1> QED BY <1>2 DEF Runs, Served

(* A transaction ends with what was wanted of it.                          *)
LEMMA RunStep ==
  ASSUME TypeOK, ClockOK, Sync, Running, rw' = rw, want' = want,
         MdcEdge, FsmEdge, Samples, AnswerStep
  PROVE  /\ Runs = runs
         /\ IF state = "FINISH" /\ rise
            THEN Served' /\ done' = TRUE
            ELSE Running' /\ done' = done
         /\ state = "FINISH" => (want.rw = "read" => rdata' = phy'[want.reg])
<1>1. /\ value' = value /\ value = want /\ state # "IDLE"
      /\ done' = IF state = "FINISH" /\ rise THEN TRUE ELSE done
      /\ state' = "IDLE" <=> state = "FINISH" /\ rise
      /\ state = "FINISH" => Delivered'
  BY SyncStep DEF Running
<1>2. Runs = runs
  BY <1>1 DEF Runs
<1>3. CASE state = "FINISH" /\ rise
  BY <1>1, <1>2, <1>3 DEF Served, Delivered
<1>4. CASE ~(state = "FINISH" /\ rise)
  <2>1. Running' /\ done' = done
    BY <1>1, <1>4 DEF Running
  <2>2. state = "FINISH" => (want.rw = "read" => rdata' = phy'[want.reg])
    BY <1>1 DEF Delivered
  <2> QED BY <1>2, <1>4, <2>1, <2>2
<1> QED BY <1>3, <1>4

(* From one step of the program to the next the transaction gets no        *)
(* further than its second preamble bit.                                   *)
LEMMA EarlyStep ==
  ASSUME TypeOK, ClockOK, Sync, Early, gap > 0, gap' = gap - 1, runs' = Runs,
         rw = want.rw, cfg = [reg |-> want.reg, data |-> want.data],
         rw' = rw, want' = want, MdcEdge, FsmEdge, Samples
  PROVE  Early' /\ state' = "PREAMBLE"
<1>1. /\ gap \in Nat /\ want \in Requests /\ runs \in Nat
      /\ div \in 0 .. Div - 1
  BY DEF TypeOK
<1>2. CASE state = "IDLE" /\ start /\ gap = MinGap - 1 /\ runs = 0
  <2>1. IdleSync
    BY <1>2 DEF Sync
  <2>2. /\ state' = "PREAMBLE" /\ bitCnt' = Preamble - 1 /\ done' = FALSE
        /\ value' = [rw |-> rw, reg |-> cfg.reg, data |-> cfg.data]
    BY <1>2, <2>1, IdleStep
  <2>3. value' = want'
    BY <1>1, <2>2 DEF Requests
  <2>4. runs' = 1 /\ gap' <= MinGap - 2
    BY Sizes, <1>2 DEF Runs
  <2> QED BY <2>2, <2>3, <2>4 DEF Early
<1>3. CASE state = "PREAMBLE"
  <2>1. /\ PreambleSync /\ value = want /\ ~done /\ runs = 1
        /\ gap <= MinGap - 2
        /\ \/ bitCnt = Preamble - 1
           \/ bitCnt = Preamble - 2 /\ ~Sampled /\ gap + div <= Div - 2
    BY <1>3 DEF Sync, Early
  <2>2. ~(fall /\ bitCnt = 0)
    BY Sizes, <2>1, ClockStep
  <2>3. /\ state' = "PREAMBLE" /\ value' = value /\ done' = done
        /\ bitCnt' = IF fall THEN bitCnt - 1 ELSE bitCnt
    BY <1>3, <2>1, <2>2, PreambleStep
  <2>4. runs' = 1 /\ gap' <= MinGap - 2
    BY Sizes, <1>1, <1>3, <2>1 DEF Runs
  <2>5. CASE bitCnt = Preamble - 1 /\ ~fall
    BY <2>1, <2>3, <2>4, <2>5 DEF Early
  <2>6. CASE bitCnt = Preamble - 1 /\ fall
    <3>1. ~Sampled' /\ div' = div + 1 /\ div = 0
      BY <2>6, ClockStep DEF ClockOK
    <3>2. gap' + div' <= Div - 2 /\ bitCnt' = Preamble - 2
      BY Sizes, <1>1, <2>1, <2>3, <2>6, <3>1
    <3> QED BY <2>1, <2>3, <2>4, <3>1, <3>2 DEF Early
  <2>7. CASE bitCnt = Preamble - 2 /\ ~Sampled /\ gap + div <= Div - 2
    <3>1. ~fall
      BY <2>7, ClockStep
    <3>2. ~Tick
      BY Sizes, <1>1, <2>7 DEF Tick
    <3>3. ~Sampled' /\ div' = div + 1
      BY <2>7, <3>1, <3>2, ClockStep
    <3>4. gap' + div' <= Div - 2 /\ bitCnt' = Preamble - 2
      BY Sizes, <1>1, <2>3, <2>7, <3>1, <3>3
    <3> QED BY <2>1, <2>3, <2>4, <3>3, <3>4 DEF Early
  <2> QED BY <2>1, <2>5, <2>6, <2>7
<1> QED BY <1>2, <1>3 DEF Early

LEMMA EarlyEnds ==
  ASSUME TypeOK, ClockOK, Sync, Early, gap = 0, rw' = rw, want' = want,
         MdcEdge, FsmEdge, Samples
  PROVE  /\ Running' /\ ~done' /\ Runs = 1
         /\ state = "PREAMBLE" /\ state' = "PREAMBLE"
         /\ bitCnt' \in Nat /\ bitCnt' + Due' >= Preamble - 1
<1>1. /\ state = "PREAMBLE" /\ value = want /\ ~done /\ runs = 1
      /\ \/ bitCnt = Preamble - 1
         \/ bitCnt = Preamble - 2 /\ ~Sampled /\ gap + div <= Div - 2
  BY Sizes DEF Early
<1>2. PreambleSync
  BY <1>1 DEF Sync
<1>3. ~(fall /\ bitCnt = 0)
  BY Sizes, <1>1, ClockStep
<1>4. /\ state' = "PREAMBLE" /\ value' = value /\ done' = done
      /\ bitCnt' = IF fall THEN bitCnt - 1 ELSE bitCnt
  BY <1>1, <1>2, <1>3, PreambleStep
<1>5. bitCnt' \in Nat /\ bitCnt' + Due' >= Preamble - 1
  <2>1. CASE bitCnt = Preamble - 1
    <3>1. fall => ~Sampled'
      BY ClockStep
    <3>2. IF Sampled' THEN Due' = 0 ELSE Due' = 1
      BY DEF Due
    <3> QED BY Sizes, <1>4, <2>1, <3>1, <3>2
  <2>2. CASE bitCnt = Preamble - 2 /\ ~Sampled /\ gap + div <= Div - 2
    <3>1. ~Tick
      BY Sizes, <2>2 DEF Tick, TypeOK
    <3>2. ~fall
      BY <2>2, ClockStep
    <3>3. Due' = 1
      BY <2>2, <3>1, <3>2, ClockStep DEF Due
    <3> QED BY Sizes, <1>4, <2>2, <3>2, <3>3
  <2> QED BY <1>1, <2>1, <2>2
<1>6. Running' /\ Runs = 1
  BY <1>1, <1>4 DEF Running, Runs
<1> QED BY <1>1, <1>4, <1>5, <1>6

-----------------------------------------------------------------------------
(* The three programs, step by step.                                       *)
LEMMA FirmwareStep ==
  ASSUME TypeOK, ClockOK, Sync, Quiet, ProgInv, program = "firmware", Next
  PROVE  ProgInv'
<1>1. PICK step : /\ step = "none" \/ step = Now
                  /\ Edge(step) /\ program' = program
  BY NextEdge
<1>2. /\ MdcEdge /\ FsmEdge /\ Samples /\ RegsEdge(step)
      /\ start \/ state # "IDLE" => rw' = rw
      /\ resp' = resp
  BY <1>1, CoreStep
<1>3. FirmwareInv /\ resp = Silent
  BY DEF ProgInv
<1>4. start' \/ state' # "IDLE" => rw' = "read"
  <2>1. CASE start \/ state # "IDLE"
    BY <1>2, <1>3, <2>1 DEF FirmwareInv
  <2>2. CASE ~start /\ state = "IDLE"
    <3>1. state' = "IDLE"
      BY <1>2, <2>2, RestStep
    <3>2. start' => step = "start"
      BY <1>1, <1>2, <2>2, RegFacts, FirmwareNow DEF TypeOK
    <3>3. step = "start" => pc = 2 /\ rw' = want.rw
      BY <1>1, <1>2, RegFacts, FirmwareNow DEF TypeOK
    <3> QED BY <1>3, <3>1, <3>2, <3>3 DEF FirmwareInv
  <2> QED BY <2>1, <2>2
<1>5. pc' > 0 => want'.rw = "read"
  <2>1. CASE Wait
    BY <1>3, <2>1 DEF Wait, FirmwareInv
  <2>2. CASE Begin
    <3>1. want' \in {r \in Requests : IF r.rw = "read" THEN r.data = ZeroWord
                                      ELSE program # "firmware"}
      BY <2>2 DEF Begin
    <3> QED BY <3>1
  <2>3. CASE Return
    BY <2>3 DEF Return
  <2>4. CASE Store \/ Poll \/ Rest \/ Result \/ Over
    <3>1. Now # "compute" /\ want' = want
      BY <2>4 DEF Store, Poll, Rest, Result, Over, Access, Stores, Prompt
    <3>2. pc > 0
      BY <3>1, NowPc
    <3> QED BY <1>3, <3>1, <3>2 DEF FirmwareInv
  <2> QED BY <2>1, <2>2, <2>3, <2>4 DEF Next, Program
<1> QED BY <1>1, <1>2, <1>3, <1>4, <1>5 DEF ProgInv, FirmwareInv

(* While it polls, the flag says no more than what DONE said an edge ago.  *)
LEMMA PollingStep ==
  ASSUME TypeOK, ClockOK, Sync, Polling, rw' = rw, want' = want, runs' = Runs,
         MdcEdge, FsmEdge, Samples, AnswerStep, flag' = done, ~start'
  PROVE  /\ Polling'
         /\ flag => Ready' /\ Served'
<1>1. CASE done
  <2>1. Served /\ state = "IDLE"
    BY <1>1 DEF Polling, Served
  <2>2. state' = "IDLE" /\ done' = done /\ Runs = runs /\ Served'
    BY <2>1, RestStep DEF Polling
  <2> QED BY <1>1, <2>2 DEF Polling, Ready
<1>2. CASE ~done
  <2>1. Running /\ ~flag
    BY <1>2 DEF Polling
  <2>2. /\ Runs = runs
        /\ \/ Served' /\ done' = TRUE
           \/ Running' /\ done' = done
    BY <2>1, RunStep
  <2> QED BY <1>2, <2>1, <2>2 DEF Polling
<1> QED BY <1>1, <1>2

LEMMA BenchStep ==
  ASSUME TypeOK, ClockOK, Sync, Quiet, ProgInv, program = "bench", Next
  PROVE  ProgInv'
<1>1. BenchInv /\ resp = Silent /\ want \in Requests /\ pc \in 0 .. 7
      /\ gap \in Nat
  BY DEF ProgInv, TypeOK
<1> SUFFICES BenchInv' /\ resp' = resp /\ program' = program
  BY <1>1 DEF ProgInv
<1>2. ASSUME NEW step, step = "none" \/ step = Now, Edge(step),
             program' = program
      PROVE  /\ MdcEdge /\ FsmEdge /\ Samples /\ AnswerStep
             /\ resp' = resp /\ RegsEdge(step)
             /\ start \/ state # "IDLE" => rw' = rw
  BY <1>2, CoreStep
<1>3. CASE Wait
  <2>1. /\ pc' = pc /\ want' = want /\ got' = got /\ program' = program
        /\ gap' = IF gap > 0 THEN gap - 1 ELSE 0
        /\ runs' = Runs /\ Edge("none")
        /\ gap = 0 => Now \notin Prompt
    BY <1>3 DEF Wait, Elapse
  <2>2. /\ MdcEdge /\ FsmEdge /\ Samples /\ AnswerStep
        /\ resp' = resp /\ RegsEdge("none")
    BY <1>2, <2>1
  <2>3. /\ rw' = rw /\ cfg' = cfg /\ flag' = done
        /\ ~start => ~start'
    BY <2>2, RegFacts
  <2>4. CASE pc \in {0, 1, 2, 3, 6, 7}
    <3>1. Ready /\ state = "IDLE" /\ ~start
      BY <1>1, <2>4 DEF BenchInv, Ready
    <3>2. /\ state' = "IDLE" /\ phy' = phy /\ rdata' = rdata /\ Runs = runs
          /\ Served => Served'
      BY <2>1, <2>2, <3>1, RestStep
    <3> QED BY <1>1, <2>1, <2>2, <2>3, <2>4, <3>1, <3>2
            DEF BenchInv, Ready, HasGot
  <2>5. CASE pc = 4
    <3>1. gap > 0
      BY <1>1, <2>1, <2>5, BenchNow DEF Prompt
    <3>2. Early'
      BY <1>1, <2>1, <2>2, <2>3, <2>5, <3>1, EarlyStep DEF BenchInv
    <3> QED BY <1>1, <2>1, <2>2, <2>3, <2>5, <3>2 DEF BenchInv
  <2>6. CASE pc = 5
    <3>1. Polling'
      BY <1>1, <2>1, <2>2, <2>3, <2>6, PollingStep DEF BenchInv, Polling
    <3> QED BY <1>1, <2>1, <2>2, <2>3, <2>6, <3>1 DEF BenchInv
  <2> QED BY <1>1, <2>4, <2>5, <2>6
<1>4. CASE Begin \/ Return
  <2>1. /\ program' = program /\ runs' = Runs /\ Edge("none")
        /\ \/ pc = 0 /\ pc' = 1
           \/ Returning /\ pc' = 0
    BY <1>4 DEF Begin, Return, Elapse
  <2>2. /\ MdcEdge /\ FsmEdge /\ Samples /\ resp' = resp /\ RegsEdge("none")
    BY <1>2, <2>1
  <2>3. pc \in {0, 6, 7} /\ pc' \in {0, 1}
    BY <1>1, <2>1, BenchNow
  <2>4. Ready /\ state = "IDLE" /\ ~start
    BY <1>1, <2>3 DEF BenchInv, Ready
  <2>5. ~start' /\ state' = "IDLE" /\ Runs = runs
    BY <2>2, <2>4, RestStep, RegFacts
  <2> QED BY <2>1, <2>2, <2>3, <2>4, <2>5 DEF BenchInv, Ready
<1>5. CASE Store
  <2>1. PICK step \in Stores : Access(step, pc + 1, MinGap) /\ UNCHANGED got
    BY <1>5 DEF Store
  <2>2. /\ step = Now /\ gap = 0 /\ pc' = pc + 1 /\ gap' = MinGap - 1
        /\ runs' = IF step \in {"start", "raise"} THEN 0 ELSE Runs
        /\ program' = program /\ want' = want /\ Edge(step)
    BY <2>1 DEF Access
  <2>3. /\ MdcEdge /\ FsmEdge /\ Samples /\ AnswerStep
        /\ resp' = resp /\ RegsEdge(step)
        /\ start \/ state # "IDLE" => rw' = rw
    BY <1>2, <2>2
  <2>4. \/ pc = 1 /\ step = "clear"
        \/ pc = 2 /\ step = "cfg"
        \/ pc = 3 /\ step = "start"
        \/ pc = 4 /\ step = "stop"
    BY <1>1, <2>1, <2>2, BenchNow DEF Stores, Prompt
  <2>5. CASE pc \in {1, 2, 3}
    <3>1. Ready /\ state = "IDLE" /\ ~start
      BY <1>1, <2>5 DEF BenchInv, Ready
    <3>2. state' = "IDLE" /\ Runs = runs
      BY <2>3, <3>1, RestStep
    <3>3. CASE pc = 1 /\ step = "clear"
      <4>1. rw' = want.rw /\ ~start'
        BY <2>3, <3>1, <3>3, RegFacts
      <4> QED BY <2>2, <2>3, <3>1, <3>2, <3>3, <4>1 DEF BenchInv, Ready
    <3>4. CASE pc = 2 /\ step = "cfg"
      <4>1. /\ rw' = rw /\ ~start'
            /\ cfg' = [reg |-> want.reg, data |-> want.data]
        BY <2>3, <3>1, <3>4, RegFacts
      <4> QED BY <1>1, <2>2, <2>3, <3>1, <3>2, <3>4, <4>1 DEF BenchInv, Ready
    <3>5. CASE pc = 3 /\ step = "start"
      <4>1. start' /\ rw' = want.rw /\ cfg' = cfg
        BY <2>3, <3>5, RegFacts
      <4>2. Early'
        BY <2>2, <3>2, <3>5, <4>1 DEF Early
      <4> QED BY <1>1, <2>2, <2>3, <3>5, <4>1, <4>2 DEF BenchInv
    <3> QED BY <2>4, <2>5, <3>3, <3>4, <3>5
  <2>6. CASE pc = 4 /\ step = "stop"
    <3>1. Early /\ rw = want.rw /\ cfg = [reg |-> want.reg, data |-> want.data]
      BY <1>1, <2>6 DEF BenchInv
    <3>2. ~start' /\ rw' = want.rw /\ cfg' = cfg /\ flag' = done
      BY <2>3, <2>6, RegFacts
    <3>3. Running' /\ ~done' /\ Runs = 1 /\ ~done
      BY <2>2, <2>3, <3>1, <3>2, EarlyEnds, Sizes DEF Early
    <3>4. Polling'
      BY <2>2, <2>6, <3>2, <3>3 DEF Polling
    <3> QED BY <2>2, <2>3, <2>6, <3>1, <3>2, <3>4 DEF BenchInv
  <2> QED BY <2>4, <2>5, <2>6
<1>6. CASE Poll
  <2>1. /\ "poll" = Now /\ pc' = IF flag THEN pc + 1 ELSE pc
        /\ runs' = Runs
        /\ program' = program /\ want' = want /\ Edge("poll") /\ got' = got
    BY <1>6 DEF Poll, Access
  <2>2. /\ MdcEdge /\ FsmEdge /\ Samples /\ AnswerStep
        /\ resp' = resp /\ RegsEdge("poll")
    BY <1>2, <2>1
  <2>3. pc = 5 /\ Polling
    BY <1>1, <2>1, BenchNow DEF BenchInv
  <2>4. rw' = rw /\ cfg' = cfg /\ flag' = done /\ ~start'
    BY <2>2, <2>3, RegFacts DEF Polling
  <2>5. Polling' /\ (flag => Ready' /\ Served')
    BY <2>1, <2>2, <2>3, <2>4, PollingStep
  <2> QED BY <1>1, <2>1, <2>2, <2>3, <2>4, <2>5 DEF BenchInv
<1>7. CASE Result
  <2>1. /\ "result" = Now /\ pc' = pc + 1 /\ runs' = Runs
        /\ program' = program /\ want' = want /\ Edge("result") /\ got' = rdata
    BY <1>7 DEF Result, Access
  <2>2. /\ MdcEdge /\ FsmEdge /\ Samples /\ resp' = resp /\ RegsEdge("result")
    BY <1>2, <2>1
  <2>3. pc = 6 /\ want.rw = "read" /\ Ready /\ Served /\ state = "IDLE" /\ ~start
    BY <1>1, <2>1, BenchNow DEF BenchInv, Ready
  <2>4. /\ state' = "IDLE" /\ phy' = phy /\ Runs = runs /\ Served' /\ ~start'
    BY <2>1, <2>2, <2>3, RestStep, RegFacts
  <2>5. HasGot'
    BY <2>1, <2>3, <2>4 DEF HasGot, Served
  <2> QED BY <2>1, <2>2, <2>3, <2>4, <2>5 DEF BenchInv, Ready
<1>8. ~Rest /\ ~Over
  BY <1>1, BenchNow DEF Rest, Over, Access
<1> QED BY <1>3, <1>4, <1>5, <1>6, <1>7, <1>8 DEF Next, Program

-----------------------------------------------------------------------------
(* How long a transaction takes.                                           *)
LEMMA SpanFacts ==
  /\ \A k \in Nat : Span(k) \in Nat
  /\ \A k \in Nat : Span(k + 1) = Span(k) + 2 * Div
  /\ \A j, k \in Nat : j <= k => Span(j) <= Span(k)
<1>1. 2 * Div \in Nat
  BY Sizes
<1> DEFINE d == 2 * Div
<1>2. \A k \in Nat : d * k \in Nat
  BY <1>1
<1>3. \A k \in Nat : d * (k + 1) = d * k + d
  BY <1>1
<1>4. \A j, k \in Nat : j <= k => d * j <= d * k
  BY <1>1
<1> QED BY <1>2, <1>3, <1>4 DEF Span

(* A period less is left each time MDC falls.                              *)
LEMMA LeftStep ==
  ASSUME TypeOK, ClockOK, Sync, state # "IDLE", state' # "IDLE", rw' = rw,
         MdcEdge, FsmEdge, Samples, AnswerStep
  PROVE  /\ Left \in Nat /\ Left' \in Nat
         /\ Left' = IF fall THEN Left - 1 ELSE Left
<1>1. CASE state = "PREAMBLE"
  <2>1. /\ PreambleSync
        /\ IF fall /\ bitCnt = 0
           THEN state' = "OPCODE" /\ shifted' = 0
           ELSE /\ state' = "PREAMBLE"
                /\ bitCnt' = IF fall THEN bitCnt - 1 ELSE bitCnt
    BY <1>1, PreambleStep DEF Sync
  <2>2. bitCnt \in Nat /\ Left = bitCnt + 1 + FrameBits
    BY <1>1 DEF TypeOK, Left
  <2>3. CASE fall /\ bitCnt = 0
    <3>1. Left' = FrameBits
      BY Sizes, <2>1, <2>3 DEF Left
    <3> QED BY Sizes, <2>2, <2>3, <3>1
  <2>4. CASE ~(fall /\ bitCnt = 0)
    <3>1. Left' = bitCnt' + 1 + FrameBits
      BY <2>1, <2>4 DEF Left
    <3> QED BY Sizes, <2>1, <2>2, <2>4, <3>1
  <2> QED BY <2>3, <2>4
<1>2. CASE state = "OPCODE"
  <2>1. FrameSync
    BY <1>2 DEF Sync
  <2>2. /\ shifted \in 0 .. FrameBits - 1 /\ bitCnt \in Nat
        /\ shifted + bitCnt + 1 = Length
    BY <2>1 DEF FrameSync
  <2>3. Left = FrameBits - shifted
    BY <1>2 DEF Left
  <2>4. CASE fall /\ bitCnt = 0 /\ rw = "read"
    <3>1. state' = "TA" /\ bitCnt' = 1
      BY <1>2, <2>1, <2>4, FrameStep
    <3>2. Left' = bitCnt' + 1 + DataBits
      BY <3>1 DEF Left
    <3>3. Length = OpBits
      BY <2>4 DEF Length
    <3> QED BY Sizes, <2>2, <2>3, <2>4, <3>1, <3>2, <3>3
  <2>5. CASE fall /\ bitCnt = 0 /\ rw # "read"
    <3>1. state' = "FINISH" /\ oe'
      BY <1>2, <2>1, <2>5, FrameStep
    <3>2. Left' = 0
      BY <3>1 DEF Left
    <3>3. Length = FrameBits
      BY <2>5 DEF Length
    <3> QED BY Sizes, <2>2, <2>3, <2>5, <3>2, <3>3
  <2>6. CASE ~(fall /\ bitCnt = 0)
    <3>1. /\ state' = "OPCODE"
          /\ shifted' = IF fall THEN shifted + 1 ELSE shifted
      BY <1>2, <2>1, <2>6, FrameStep
    <3>2. Left' = FrameBits - shifted'
      BY <3>1 DEF Left
    <3> QED BY Sizes, <2>2, <2>3, <3>1, <3>2
  <2> QED BY <2>4, <2>5, <2>6
<1>3. CASE state = "TA"
  <2>1. TurnSync /\ (bitCnt = 0 /\ fall => Answer(DataBits - 1))
    BY <1>3 DEF Sync
  <2>2. bitCnt \in {0, 1} /\ Left = bitCnt + 1 + DataBits
    BY <1>3, <2>1 DEF TurnSync, Left
  <2>3. CASE fall /\ bitCnt = 0
    <3>1. state' = "READ" /\ bitCnt' = DataBits - 1
      BY <1>3, <2>1, <2>3, TurnStep
    <3>2. ~Sampled'
      BY <2>3, ClockStep
    <3>3. Left' = bitCnt' + 1
      BY <3>1, <3>2 DEF Left
    <3> QED BY Sizes, <2>2, <2>3, <3>1, <3>3
  <2>4. CASE ~(fall /\ bitCnt = 0)
    <3>1. /\ state' = "TA"
          /\ bitCnt' = IF fall THEN bitCnt - 1 ELSE bitCnt
      BY <1>3, <2>1, <2>4, TurnStep
    <3>2. Left' = bitCnt' + 1 + DataBits
      BY <3>1 DEF Left
    <3> QED BY Sizes, <2>2, <2>4, <3>1, <3>2
  <2> QED BY <2>3, <2>4
<1>4. CASE state = "READ"
  <2>1. ReadSync
    BY <1>4 DEF Sync
  <2>2. /\ bitCnt \in 0 .. DataBits - 1
        /\ Left = bitCnt + (IF rise \/ ~Sampled THEN 1 ELSE 2)
    BY <1>4, <2>1 DEF ReadSync, Left
  <2>3. CASE rise /\ bitCnt = 0
    <3>1. state' = "FINISH" /\ ~oe' /\ ~fall
      BY <1>4, <2>1, <2>3, ReadStep DEF ClockOK
    <3>2. Left' = 1 /\ Left = 1
      BY <2>2, <2>3, <3>1 DEF Left
    <3> QED BY <3>1, <3>2
  <2>4. CASE rise /\ bitCnt # 0
    <3>1. state' = "READ" /\ bitCnt' = bitCnt - 1
      BY <1>4, <2>1, <2>4, ReadStep
    <3>2. Sampled' /\ ~rise' /\ ~fall
      BY <2>4, ClockStep DEF ClockOK
    <3>3. Left' = bitCnt' + 2
      BY <3>1, <3>2 DEF Left
    <3> QED BY Sizes, <2>2, <2>4, <3>1, <3>2, <3>3
  <2>5. CASE ~rise
    <3>1. state' = "READ" /\ bitCnt' = bitCnt
      BY <1>4, <2>1, <2>5, ReadStep
    <3>2. Left' = bitCnt' + (IF rise' \/ ~Sampled' THEN 1 ELSE 2)
      BY <3>1 DEF Left
    <3>3. CASE fall
      <4>1. Sampled /\ ~Sampled'
        BY <3>3, ClockStep
      <4>2. Left = bitCnt + 2 /\ Left' = bitCnt' + 1
        BY <2>2, <2>5, <3>2, <4>1
      <4> QED BY <2>2, <3>1, <3>3, <4>2
    <3>4. CASE ~fall /\ Tick /\ ~mdc
      <4>1. ~Sampled /\ rise'
        BY <3>4, ClockStep
      <4>2. Left = bitCnt + 1 /\ Left' = bitCnt' + 1
        BY <2>2, <3>2, <4>1
      <4> QED BY <2>2, <3>1, <3>4, <4>2
    <3>5. CASE ~fall /\ ~(Tick /\ ~mdc)
      <4>1. (Sampled' <=> Sampled) /\ ~rise'
        BY <3>5, ClockStep DEF Sampled
      <4>2. Left' = Left
        BY <2>2, <2>5, <3>1, <3>2, <4>1
      <4> QED BY <2>2, <3>5, <4>2
    <3> QED BY <3>3, <3>4, <3>5
  <2> QED BY <2>3, <2>4, <2>5
<1>5. CASE state = "FINISH"
  <2>1. FinishSync
    BY <1>5 DEF Sync
  <2>2. state' = "FINISH" /\ oe' = (oe \/ fall) /\ ~rise
    BY <1>5, <2>1, FinishStep
  <2>3. Left = (IF oe THEN 0 ELSE 1) /\ Left' = (IF oe' THEN 0 ELSE 1)
    BY <1>5, <2>2 DEF Left
  <2>4. fall => ~oe
    BY <2>1, <2>2, ClockStep DEF FinishSync
  <2>5. CASE fall
    <3>1. Left = 1 /\ Left' = 0
      BY <2>2, <2>3, <2>4, <2>5
    <3> QED BY <2>5, <3>1
  <2>6. CASE ~fall
    <3>1. oe' <=> oe
      BY <2>2, <2>6
    <3>2. Left' = Left
      BY <2>3, <3>1
    <3> QED BY <2>3, <2>6, <3>2
  <2> QED BY <2>5, <2>6
<1> QED BY <1>1, <1>2, <1>3, <1>4, <1>5 DEF TypeOK

LEMMA PhaseStep ==
  ASSUME TypeOK, ClockOK, MdcEdge
  PROVE  /\ Phase \in 0 .. 2 * Div
         /\ IF fall THEN Phase = 2 * Div /\ Phase' = 1
            ELSE Phase' = Phase + 1
<1>1. /\ div \in 0 .. Div - 1 /\ mdc \in BOOLEAN /\ fall \in BOOLEAN
      /\ Div \in Nat /\ Div >= 2
  BY Sizes DEF TypeOK
<1>2. Phase \in 0 .. 2 * Div
  BY <1>1 DEF Phase
<1>3. CASE fall
  <2>1. ~mdc /\ ~Tick /\ div = 0
    BY <1>3, ClockStep DEF ClockOK
  <2>2. ~fall' /\ ~mdc' /\ div' = 1
    BY <2>1, ClockStep
  <2>3. Phase = 2 * Div /\ Phase' = 1
    BY <1>3, <2>2 DEF Phase
  <2> QED BY <1>2, <1>3, <2>3
<1>4. CASE ~fall /\ ~Tick
  <2>1. mdc' = mdc /\ ~fall' /\ div' = div + 1
    BY <1>4, ClockStep
  <2>2. CASE mdc
    BY <1>1, <1>2, <1>4, <2>1, <2>2 DEF Phase
  <2>3. CASE ~mdc
    BY <1>1, <1>2, <1>4, <2>1, <2>3 DEF Phase
  <2> QED BY <2>2, <2>3
<1>5. CASE ~fall /\ Tick /\ mdc
  <2>1. fall' /\ div = Div - 1
    BY <1>5, ClockStep DEF Tick
  <2>2. Phase = Div - 1 + Div /\ Phase' = 2 * Div
    BY <1>5, <2>1 DEF Phase
  <2> QED BY <1>1, <1>2, <1>5, <2>2
<1>6. CASE ~fall /\ Tick /\ ~mdc
  <2>1. mdc' /\ ~fall' /\ div' = 0 /\ div = Div - 1
    BY <1>6, ClockStep DEF Tick
  <2>2. Phase = Div - 1 /\ Phase' = Div
    BY <1>1, <1>6, <2>1 DEF Phase
  <2> QED BY <1>1, <1>2, <1>6, <2>2
<1> QED BY <1>3, <1>4, <1>5, <1>6

(* The rest of the master's own bench is long enough: it does not end      *)
(* before the transaction does.                                            *)
LEMMA TimeBegins ==
  TypeOK /\ Sync /\ state # "IDLE" /\ gap = Delay - 1 => InTime
<1> SUFFICES ASSUME TypeOK, Sync, state # "IDLE", gap = Delay - 1
             PROVE  InTime
  OBVIOUS
<1>1. Phase \in Nat
  BY Sizes DEF Phase, TypeOK
<1>2. Left \in Nat /\ Left <= Preamble + FrameBits
  <2>1. CASE state = "PREAMBLE"
    BY Sizes, <2>1 DEF Sync, PreambleSync, Left
  <2>2. CASE state = "OPCODE"
    BY Sizes, <2>2 DEF Left, TypeOK
  <2>3. CASE state = "TA"
    BY Sizes, <2>3 DEF Sync, TurnSync, Left
  <2>4. CASE state = "READ"
    BY Sizes, <2>4 DEF Sync, ReadSync, Left
  <2>5. CASE state = "FINISH"
    BY Sizes, <2>5 DEF Left
  <2> QED BY <2>1, <2>2, <2>3, <2>4, <2>5 DEF TypeOK
<1>3. /\ Preamble + FrameBits \in Nat
      /\ Span(Preamble + FrameBits) \in Nat /\ Span(Left) \in Nat
      /\ Span(Preamble + FrameBits + 1) = Span(Preamble + FrameBits) + 2 * Div
      /\ Span(Left) <= Span(Preamble + FrameBits)
  <2>1. Preamble + FrameBits \in Nat
    BY Sizes
  <2> QED BY <1>2, <2>1, SpanFacts
<1>4. Delay >= Span(Preamble + FrameBits + 1)
  BY MdioAssumption DEF Span
<1> QED BY Sizes, <1>1, <1>3, <1>4 DEF InTime

LEMMA TimeStep ==
  ASSUME TypeOK, ClockOK, Sync, InTime, gap > 0, gap' = gap - 1,
         state # "IDLE", state' # "IDLE", rw' = rw,
         MdcEdge, FsmEdge, Samples, AnswerStep
  PROVE  InTime'
<1>1. /\ Left \in Nat /\ Left' \in Nat
      /\ Left' = IF fall THEN Left - 1 ELSE Left
  BY LeftStep
<1>2. /\ Phase \in 0 .. 2 * Div
      /\ IF fall THEN Phase = 2 * Div /\ Phase' = 1 ELSE Phase' = Phase + 1
  BY PhaseStep
<1>3. gap + Phase >= Span(Left) + Div
  BY DEF InTime
<1>4. /\ gap \in Nat /\ Span(Left) \in Nat /\ Span(Left') \in Nat
      /\ Div \in Nat
  <2>1. Span(Left) \in Nat /\ Span(Left') \in Nat
    BY <1>1, SpanFacts, Zenon
  <2>2. gap \in Nat
    BY Sizes DEF TypeOK
  <2> QED BY Sizes, <2>1, <2>2
<1>5. InTime' <=> gap' + Phase' >= Span(Left') + Div
  BY DEF InTime, Span
<1>6. CASE fall
  <2>1. Left = Left' + 1
    BY <1>1, <1>6
  <2>2. Span(Left) = Span(Left') + 2 * Div
    BY <1>1, <2>1, SpanFacts
  <2> QED BY <1>2, <1>3, <1>4, <1>5, <1>6, <2>2
<1>7. CASE ~fall
  BY <1>1, <1>2, <1>3, <1>4, <1>5, <1>7
<1> QED BY <1>6, <1>7

LEMMA TimeEnds ==
  ASSUME TypeOK, ClockOK, Sync, InTime, gap = 0, state # "IDLE", MdcEdge
  PROVE  state = "FINISH" /\ rise
<1>1. Phase \in 0 .. 2 * Div /\ Div \in Nat /\ Div >= 2
  BY Sizes, PhaseStep
<1>2. Phase >= Span(Left) + Div
  BY <1>1 DEF InTime
<1>3. ASSUME Left \in Nat, Left >= 1 PROVE FALSE
  <2>1. Span(1) = 2 * Div
    BY Sizes DEF Span
  <2>2. Span(Left) >= Span(1) /\ Span(Left) \in Nat
    BY <1>3, SpanFacts
  <2> QED BY <1>1, <1>2, <2>1, <2>2
<1>4. state = "FINISH" /\ oe
  <2>1. state # "PREAMBLE"
    BY Sizes, <1>3 DEF Left, TypeOK
  <2>2. state = "OPCODE" => FALSE
    <3>1. ASSUME state = "OPCODE" PROVE Left \in Nat /\ Left >= 1
      <4>1. shifted \in 0 .. FrameBits - 1
        BY <3>1 DEF Sync, FrameSync
      <4> QED BY Sizes, <3>1, <4>1 DEF Left
    <3> QED BY <1>3, <3>1
  <2>3. state = "TA" => FALSE
    BY Sizes, <1>3 DEF Left, TypeOK
  <2>4. state = "READ" => FALSE
    <3>1. ASSUME state = "READ" PROVE Left \in Nat /\ Left >= 1
      BY <3>1 DEF Left, TypeOK
    <3> QED BY <1>3, <3>1
  <2>5. state = "FINISH" /\ ~oe => FALSE
    BY <1>3 DEF Left
  <2> QED BY <2>1, <2>2, <2>3, <2>4, <2>5 DEF TypeOK
<1>5. Left = 0
  BY <1>4 DEF Left
<1>6. Phase >= Div
  <2>1. Span(0) = 0
    BY Sizes DEF Span
  <2> QED BY <1>1, <1>2, <1>5, <2>1
<1>7. Sampled
  BY <1>1, <1>6 DEF Phase, Sampled, TypeOK
<1> QED BY <1>4, <1>7 DEF Sync, FinishSync

-----------------------------------------------------------------------------
(* Where phy_respond_read stands in the frame it answers.                  *)
LEMMA CountStep ==
  ASSUME TypeOK, Samples, phyCnt > 0, phyFrame # Nil
  PROVE  phyCnt' = IF Tick /\ ~mdc
                   THEN IF phyCnt = FrameBits - 1 THEN 0 ELSE phyCnt + 1
                   ELSE phyCnt
<1>1. phyCnt # 0
  BY Sizes DEF TypeOK
<1> QED BY <1>1 DEF Samples, PhySamples

LEMMA RespondNone ==
  ASSUME Respond("none")
  PROVE  /\ Tick /\ ~mdc => RespondSamples
         /\ Tick /\ mdc => RespondDrives
         /\ ~Tick => resp' = resp
BY DEF Respond

(* It looks for the start of the frame ...                                 *)
LEMMA SeekStep ==
  ASSUME TypeOK, ClockOK, Sync, SeekOK, rw = "read", rw' = rw,
         MdcEdge, FsmEdge, Samples, Respond("none")
  PROVE  SeekOK' \/ SkipOK'
<1>1. /\ resp.phase = "seek" /\ resp.n \in 0 .. Preamble
      /\ resp.prev \in {0, 1}
  BY DEF SeekOK, TypeOK
<1>2. CASE ~(Tick /\ ~mdc)
  <2>1. resp' = resp
    <3>1. Tick => RespondDrives
      BY <1>2, RespondNone
    <3> QED BY <1>1, <3>1, RespondNone DEF RespondDrives
  <2>2. ~fall => (Sampled' <=> Sampled)
    BY <1>2, ClockStep DEF Sampled
  <2>3. CASE state = "PREAMBLE"
    <3>1. /\ resp.n + bitCnt + Due >= Preamble - 1
          /\ resp.prev = 0 => resp.n = 0
      BY <2>3 DEF SeekOK
    <3>2. PreambleSync /\ bitCnt \in Nat
      BY <2>3 DEF Sync, PreambleSync
    <3>3. CASE fall /\ bitCnt = 0
      <4>1. state' = "OPCODE" /\ shifted' = 0 /\ ~Sampled'
        BY <2>3, <3>2, <3>3, PreambleStep
      <4>2. Due = 0
        BY <3>3, ClockStep DEF Due
      <4>3. resp.n >= Preamble - 1
        BY Sizes, <1>1, <3>1, <3>3, <4>2
      <4> QED BY <1>1, <2>1, <3>1, <4>1, <4>3 DEF SeekOK
    <3>4. CASE fall /\ bitCnt # 0
      <4>1. state' = "PREAMBLE" /\ bitCnt' = bitCnt - 1
        BY <2>3, <3>2, <3>4, PreambleStep
      <4>2. Due = 0 /\ Due' = 1
        BY <3>4, ClockStep DEF Due
      <4>3. resp'.n + bitCnt' + Due' >= Preamble - 1
        BY Sizes, <1>1, <2>1, <3>1, <3>2, <4>1, <4>2
      <4> QED BY <1>1, <2>1, <3>1, <4>1, <4>3 DEF SeekOK
    <3>5. CASE ~fall
      <4>1. state' = "PREAMBLE" /\ bitCnt' = bitCnt
        BY <2>3, <3>2, <3>5, PreambleStep
      <4>2. Due' = Due
        BY <2>2, <3>5 DEF Due
      <4> QED BY <1>1, <2>1, <3>1, <4>1, <4>2 DEF SeekOK
    <3> QED BY <3>3, <3>4, <3>5
  <2>4. CASE state = "OPCODE" /\ shifted = 0 /\ ~Sampled
    <3>1. ~fall /\ FrameSync
      BY <2>4, ClockStep DEF Sync
    <3>2. state' = "OPCODE" /\ shifted' = shifted
      BY <2>4, <3>1, FrameStep
    <3>3. ~Sampled' /\ Due = 1 /\ Due' = 1
      BY <2>2, <2>4, <3>1 DEF Due
    <3> QED BY <1>1, <2>1, <2>4, <3>2, <3>3 DEF SeekOK
  <2>5. CASE state = "OPCODE" /\ resp.n >= Preamble - 1 /\ resp.prev = 0
             /\ shifted = Due
    <3>1. FrameSync
      BY <2>5 DEF Sync
    <3>2. CASE fall
      <4>1. Due = 0 /\ Due' = 1
        BY <3>2, ClockStep DEF Due
      <4>2. bitCnt # 0
        BY Sizes, <2>5, <3>1, <4>1 DEF FrameSync, Length
      <4>3. state' = "OPCODE" /\ shifted' = shifted + 1
        BY <2>5, <3>1, <3>2, <4>2, FrameStep
      <4> QED BY <1>1, <2>1, <2>5, <4>1, <4>3 DEF SeekOK
    <3>3. CASE ~fall
      <4>1. state' = "OPCODE" /\ shifted' = shifted
        BY <2>5, <3>1, <3>3, FrameStep
      <4>2. Due' = Due
        BY <2>2, <3>3 DEF Due
      <4> QED BY <1>1, <2>1, <2>5, <4>1, <4>2 DEF SeekOK
    <3> QED BY <3>2, <3>3
  <2> QED BY <2>3, <2>4, <2>5 DEF SeekOK
<1>3. CASE Tick /\ ~mdc
  <2>1. ~Sampled /\ Sampled' /\ ~fall /\ Due = 1 /\ Due' = 0
    BY <1>3, ClockStep DEF Due
  <2>2. PICK bit \in LineBits :
          LET count == IF resp.n < Preamble THEN resp.n + bit ELSE resp.n
          IN  resp' = IF count = Preamble /\ resp.prev = 0 /\ bit = 1
                      THEN [resp EXCEPT !.phase = "skip", !.n = OpBits - 1]
                      ELSE [resp EXCEPT !.prev = bit, !.n = count]
    BY <1>1, <1>3, RespondNone DEF RespondSamples
  <2> DEFINE count == IF resp.n < Preamble THEN resp.n + bit ELSE resp.n
             Found == count = Preamble /\ resp.prev = 0 /\ bit = 1
  <2>3. /\ Found => resp' = [resp EXCEPT !.phase = "skip", !.n = OpBits - 1]
        /\ ~Found => resp' = [resp EXCEPT !.prev = bit, !.n = count]
    BY <2>2
  <2>4. ~Found => resp'.phase = "seek" /\ resp'.prev = bit /\ resp'.n = count
    BY <1>1, <2>3 DEF TypeOK
  <2>5. Found => resp'.phase = "skip" /\ resp'.n = OpBits - 1
    BY <1>1, <2>3 DEF TypeOK
  <2>6. CASE state = "PREAMBLE"
    <3>1. /\ resp.n + bitCnt + Due >= Preamble - 1
          /\ resp.prev = 0 => resp.n = 0
      BY <2>6 DEF SeekOK
    <3>2. PreambleSync /\ bitCnt \in Nat /\ bit = 1
      BY <2>2, <2>6 DEF Sync, PreambleSync, LineBits
    <3>3. ~Found /\ count \in 0 .. Preamble
      BY Sizes, <1>1, <3>1, <3>2
    <3>4. state' = "PREAMBLE" /\ bitCnt' = bitCnt
      BY <2>1, <2>6, <3>2, PreambleStep
    <3>5. count + bitCnt >= Preamble - 1
      BY Sizes, <1>1, <2>1, <3>1, <3>2
    <3> HIDE DEF count, Found
    <3>6. resp'.n + bitCnt' + Due' >= Preamble - 1
      BY Sizes, <2>1, <2>4, <3>2, <3>3, <3>4, <3>5
    <3> QED BY <2>4, <3>2, <3>3, <3>4, <3>6 DEF SeekOK
  <2>7. CASE state = "OPCODE" /\ shifted = 0 /\ resp.n >= Preamble - 1
    <3>1. FrameSync /\ bit = 0
      BY <2>2, <2>7 DEF Sync, LineBits
    <3>2. ~Found /\ count = resp.n
      BY Sizes, <1>1, <3>1
    <3>3. state' = "OPCODE" /\ shifted' = shifted
      BY <2>1, <2>7, <3>1, FrameStep
    <3> HIDE DEF count, Found
    <3> QED BY <1>1, <2>1, <2>4, <2>7, <3>1, <3>2, <3>3 DEF SeekOK
  <2>8. CASE state = "OPCODE" /\ resp.n >= Preamble - 1 /\ resp.prev = 0
             /\ shifted = Due
    <3>1. FrameSync /\ bit = 1 /\ shifted = 1
      BY <2>1, <2>2, <2>8 DEF Sync, LineBits
    <3>2. Found
      BY Sizes, <1>1, <2>8, <3>1
    <3>3. state' = "OPCODE"
      BY <2>1, <2>8, <3>1, FrameStep
    <3>4. phyCnt' = 2
      BY Sizes, <1>3, <2>1, <2>8, <3>1, SamplesFrame
    <3> HIDE DEF count, Found
    <3> QED BY Sizes, <2>5, <3>2, <3>3, <3>4 DEF SkipOK
  <2> QED BY <2>1, <2>6, <2>7, <2>8 DEF SeekOK
<1> QED BY <1>2, <1>3

(* ... counts the bits up to the turnaround ...                            *)
LEMMA SkipStep ==
  ASSUME TypeOK, ClockOK, Sync, SkipOK, rw = "read", rw' = rw,
         MdcEdge, FsmEdge, Samples, AnswerStep, Respond("none")
  PROVE  SkipOK' \/ DriveOK'
<1>1. /\ resp.phase = "skip" /\ resp.n = OpBits + 1 - phyCnt
      /\ phyCnt \in 2 .. OpBits /\ state \in {"OPCODE", "TA"}
  BY DEF SkipOK
<1>2. state = "OPCODE" => FrameSync
  BY DEF Sync
<1>3. state = "TA" => TurnSync /\ (bitCnt = 0 /\ fall => Answer(DataBits - 1))
  BY DEF Sync
<1>4. phyFrame # Nil
  <2>1. phyFrame = value /\ value \in Requests
    BY <1>1, <1>2, <1>3 DEF FrameSync, TurnSync, Serving
  <2> QED BY <2>1, MdioAssumption
<1>5. phyCnt' = IF Tick /\ ~mdc THEN phyCnt + 1 ELSE phyCnt
  BY Sizes, <1>1, <1>4, CountStep
<1>6. /\ state' \in {"OPCODE", "TA"}
      /\ state = "TA" => state' = "TA"
  <2>1. CASE state = "OPCODE"
    BY <1>2, <2>1, FrameStep
  <2>2. CASE state = "TA"
    <3>1. ~(fall /\ bitCnt = 0)
      <4>1. fall => Due = 0
        BY ClockStep DEF Due
      <4> QED BY Sizes, <1>1, <1>3, <2>2, <4>1 DEF TurnSync
    <3> QED BY <1>3, <2>2, <3>1, TurnStep
  <2> QED BY <1>1, <2>1, <2>2
<1>7. CASE ~(Tick /\ ~mdc)
  <2>1. Tick => RespondDrives
    BY <1>7, RespondNone
  <2>2. resp' = resp
    BY <1>1, <2>1, RespondNone DEF RespondDrives
  <2> QED BY <1>1, <1>5, <1>6, <1>7, <2>2 DEF SkipOK
<1>8. CASE Tick /\ ~mdc
  <2>1. ~Sampled /\ mdc'
    BY <1>8, ClockStep
  <2>2. resp' = IF resp.n > 1 THEN [resp EXCEPT !.n = @ - 1]
                ELSE [resp EXCEPT !.phase = "drive", !.n = DataBits + 1]
    BY <1>1, <1>8, RespondNone DEF RespondSamples
  <2>3. CASE phyCnt < OpBits
    <3>1. resp.n > 1
      BY Sizes, <1>1, <2>3
    <3>2. resp'.phase = "skip" /\ resp'.n = resp.n - 1
      BY <1>1, <2>2, <3>1 DEF TypeOK
    <3> QED BY Sizes, <1>1, <1>5, <1>6, <1>8, <2>3, <3>2 DEF SkipOK
  <2>4. CASE phyCnt = OpBits
    <3>1. ~(resp.n > 1)
      BY Sizes, <1>1, <2>4
    <3>2. resp'.phase = "drive" /\ resp'.n = DataBits + 1
      BY <2>2, <3>1 DEF TypeOK
    <3>3. state = "TA"
      BY Sizes, <1>1, <1>2, <2>1, <2>4 DEF FrameSync, Length
    <3> QED BY Sizes, <1>5, <1>6, <1>8, <2>1, <2>4, <3>2, <3>3 DEF DriveOK
  <2> QED BY Sizes, <1>1, <2>3, <2>4
<1> QED BY <1>7, <1>8

(* ... and shifts out its word as the master takes it.                     *)
LEMMA DriveStep ==
  ASSUME TypeOK, ClockOK, Sync, DriveOK, rw = "read", rw' = rw,
         MdcEdge, FsmEdge, Samples, AnswerStep, Respond("none")
  PROVE  DriveOK' \/ OffOK'
<1>1. /\ resp.phase = "drive" /\ state \in {"TA", "READ"}
      /\ phyCnt > OpBits /\ phyCnt \in 0 .. FrameBits - 1
      /\ resp.n = IF mdc THEN FrameBits - phyCnt ELSE FrameBits - 1 - phyCnt
      /\ resp.n >= 1
  BY DEF DriveOK, TypeOK
<1>2. state = "READ" => ReadSync
  BY DEF Sync
<1>3. state = "TA" => TurnSync /\ (bitCnt = 0 /\ fall => Answer(DataBits - 1))
  BY DEF Sync
<1>4. phyFrame # Nil
  <2>1. phyCnt > 0
    BY Sizes, <1>1
  <2>2. phyFrame = value /\ value \in Requests
    BY <1>1, <1>2, <1>3, <2>1 DEF ReadSync, TurnSync, Serving
  <2> QED BY <2>2, MdioAssumption
<1>5. phyCnt' = IF Tick /\ ~mdc
                THEN IF phyCnt = FrameBits - 1 THEN 0 ELSE phyCnt + 1
                ELSE phyCnt
  BY Sizes, <1>1, <1>4, CountStep
<1>6. state' \in {"TA", "READ"}
  <2>1. CASE state = "TA"
    BY <1>3, <2>1, TurnStep
  <2>2. CASE state = "READ"
    <3>1. ~(rise /\ bitCnt = 0)
      BY Sizes, <1>1, <1>2, <2>2 DEF ReadSync
    <3> QED BY <1>2, <2>2, <3>1, ReadStep
  <2> QED BY <1>1, <2>1, <2>2
<1>7. CASE ~Tick
  <2>1. resp' = resp /\ mdc' = mdc
    BY <1>7, RespondNone, ClockStep
  <2> QED BY <1>1, <1>5, <1>6, <1>7, <2>1 DEF DriveOK
<1>8. CASE Tick /\ ~mdc
  <2>1. RespondSamples /\ mdc'
    BY <1>8, RespondNone, ClockStep
  <2>2. resp' = resp
    BY <1>1, <2>1 DEF RespondSamples
  <2>3. phyCnt # FrameBits - 1
    BY Sizes, <1>1, <1>8
  <2>4. phyCnt' = phyCnt + 1
    BY <1>5, <1>8, <2>3
  <2> QED BY Sizes, <1>1, <1>6, <1>8, <2>1, <2>2, <2>4 DEF DriveOK
<1>9. CASE Tick /\ mdc
  <2>1. RespondDrives /\ ~mdc' /\ fall'
    BY <1>9, RespondNone, ClockStep
  <2>2. resp' = IF resp.n > 1 THEN [resp EXCEPT !.n = @ - 1] ELSE Silent
    BY <1>1, <2>1 DEF RespondDrives
  <2>3. phyCnt' = phyCnt
    BY <1>5, <1>9
  <2>4. CASE resp.n > 1
    <3>1. resp'.phase = "drive" /\ resp'.n = resp.n - 1
      BY <1>1, <2>2, <2>4 DEF TypeOK
    <3> QED BY Sizes, <1>1, <1>6, <1>9, <2>1, <2>3, <2>4, <3>1 DEF DriveOK
  <2>5. CASE ~(resp.n > 1)
    <3>1. resp' = Silent
      BY <2>2, <2>5
    <3>2. phyCnt = FrameBits - 1
      BY Sizes, <1>1, <1>9, <2>5
    <3>3. ~rise /\ ~fall
      BY <1>9, ClockStep
    <3>4. state' = state /\ bitCnt' = bitCnt
      BY <1>1, <3>3, FsmStill DEF fsmVars
    <3>5. state = "TA" => bitCnt = 0 /\ DataBits = 1
      BY Sizes, <1>9, <3>2, AnswerPlace
    <3>6. state = "READ" => bitCnt = 0
      BY Sizes, <1>9, <3>2, AnswerPlace
    <3> QED BY <1>1, <2>1, <3>1, <3>4, <3>5, <3>6 DEF OffOK
  <2> QED BY <2>4, <2>5
<1> QED BY <1>7, <1>8, <1>9

LEMMA OffStep ==
  ASSUME TypeOK, ClockOK, Sync, OffOK, ~start, start \/ state # "IDLE" => rw' = rw,
         MdcEdge, FsmEdge, Samples, AnswerStep, Respond("none")
  PROVE  OffOK'
<1>1. resp' = resp /\ resp = Silent
  BY RespondNone DEF OffOK, Silent, RespondSamples, RespondDrives
<1>2. CASE state = "TA" /\ bitCnt = 0 /\ fall /\ DataBits = 1
  <2>1. TurnSync /\ (bitCnt = 0 /\ fall => Answer(DataBits - 1))
    BY <1>2 DEF Sync
  <2>2. state' = "READ" /\ bitCnt' = 0
    BY <1>2, <2>1, TurnStep
  <2>3. ~mdc'
    BY <1>2, ClockStep DEF ClockOK
  <2> QED BY <1>1, <2>2, <2>3 DEF OffOK
<1>3. CASE state = "READ" /\ bitCnt = 0 /\ (~mdc \/ rise)
  <2>1. ReadSync
    BY <1>3 DEF Sync
  <2>2. CASE rise
    <3>1. state' = "FINISH"
      BY <1>3, <2>1, <2>2, ReadStep
    <3> QED BY <1>1, <3>1 DEF OffOK
  <2>3. CASE ~rise
    <3>1. state' = "READ" /\ bitCnt' = 0
      BY <1>3, <2>1, <2>3, ReadStep
    <3>2. ~mdc' \/ rise'
      BY <1>3, <2>3, ClockStep
    <3> QED BY <1>1, <3>1, <3>2 DEF OffOK
  <2> QED BY <2>2, <2>3
<1>4. CASE state = "FINISH"
  <2>1. state' \in {"FINISH", "IDLE"}
    BY <1>4, FinishStep DEF Sync
  <2> QED BY <1>1, <2>1 DEF OffOK
<1>5. CASE state = "IDLE"
  <2>1. state' = "IDLE"
    BY <1>5, RestStep
  <2> QED BY <1>1, <2>1 DEF OffOK
<1> QED BY <1>2, <1>3, <1>4, <1>5 DEF OffOK

LEMMA AnswerKept ==
  ASSUME TypeOK, ClockOK, Sync, SeekOK \/ SkipOK \/ DriveOK \/ OffOK,
         rw = "read", rw' = rw, ~start,
         MdcEdge, FsmEdge, Samples, AnswerStep, Respond("none")
  PROVE  SeekOK' \/ SkipOK' \/ DriveOK' \/ OffOK'
BY SeekStep, SkipStep, DriveStep, OffStep

LEMMA SilentStep ==
  ASSUME resp = Silent, NEW step, Respond(step), step # "call"
  PROVE  resp' = Silent
<1>1. resp' = resp \/ RespondDrives \/ RespondSamples
  BY DEF Respond
<1>2. resp.phase = "off"
  BY DEF Silent
<1>3. RespondDrives => resp' = resp
  BY <1>2 DEF RespondDrives
<1>4. RespondSamples => resp' = resp
  BY <1>2 DEF RespondSamples
<1> QED BY <1>1, <1>3, <1>4

(* A transaction that runs while the bench rests.                          *)
LEMMA CourseStep ==
  ASSUME TypeOK, ClockOK, Sync, Served \/ Running, ~start, rw' = rw,
         want' = want, MdcEdge, FsmEdge, Samples, AnswerStep
  PROVE  /\ Runs = runs
         /\ Served' \/ Running'
         /\ Served => Served'
         /\ Running' => Running
<1>1. CASE Served
  <2>1. Runs = runs /\ Served'
    BY <1>1, RestStep DEF Served
  <2> QED BY <2>1 DEF Served, Running
<1>2. CASE Running
  <2>1. Runs = runs /\ (Served' \/ Running')
    BY <1>2, RunStep
  <2> QED BY <1>2, <2>1 DEF Served, Running
<1> QED BY <1>1, <1>2

LEMMA DirectWaits ==
  ASSUME TypeOK, ClockOK, Sync, Quiet, DirectInv, RespInv,
         program = "direct", Wait,
         MdcEdge, FsmEdge, Samples, AnswerStep, RegsEdge("none"), Respond("none")
  PROVE  DirectInv' /\ RespInv'
<1>1. /\ pc' = pc /\ want' = want /\ got' = got
      /\ gap' = IF gap > 0 THEN gap - 1 ELSE 0
      /\ runs' = Runs /\ gap \in Nat
      /\ gap = 0 => Answering
  BY Sizes DEF Wait, Elapse, TypeOK
<1>2. /\ rw' = rw /\ cfg' = cfg
      /\ ~start => ~start'
      /\ start' = (start /\ (done => program = "direct"))
  BY RegFacts
<1>3. pc \in 0 .. 6 /\ (gap = 0 => pc = 4) /\ want.rw \in {"read", "write"}
  BY <1>1, DirectNow DEF DirectInv, Answering, TypeOK, Requests
<1>4. resp = Silent => resp' = Silent
  BY SilentStep
<1>5. CASE pc \in {0, 1, 2}
  <2>1. Ready /\ state = "IDLE" /\ ~start
    BY <1>5 DEF DirectInv, Ready
  <2>2. state' = "IDLE" /\ Runs = runs
    BY <2>1, RestStep
  <2>3. resp = Silent
    BY <1>5 DEF RespInv
  <2>4. DirectInv'
    BY <1>1, <1>2, <1>5, <2>1, <2>2 DEF DirectInv, Ready
  <2> QED BY <1>1, <1>4, <1>5, <2>3, <2>4 DEF RespInv
<1>6. CASE pc = 3
  <2>1. /\ Early /\ rw = want.rw /\ cfg = [reg |-> want.reg, data |-> want.data]
        /\ state = "IDLE" \/ start
    BY <1>6 DEF DirectInv
  <2>2. gap > 0 /\ start
    BY <1>1, <1>3, <1>6, <2>1 DEF Early
  <2>3. Early'
    BY <1>1, <1>2, <2>1, <2>2, EarlyStep
  <2>4. start'
    BY <1>2, <2>2
  <2>5. resp = Silent
    BY <1>6 DEF RespInv
  <2>6. DirectInv'
    BY <1>1, <1>2, <1>6, <2>1, <2>3, <2>4 DEF DirectInv
  <2> QED BY <1>1, <1>4, <1>6, <2>5, <2>6 DEF RespInv
<1>7. CASE pc = 4
  <2>1. /\ ~start /\ runs = 1
        /\ Served \/ Running
        /\ rw = want.rw /\ cfg = [reg |-> want.reg, data |-> want.data]
    BY <1>7 DEF DirectInv
  <2>2. Runs = runs /\ (Served' \/ Running')
    BY <1>1, <1>2, <2>1, CourseStep
  <2>3. DirectInv'
    BY <1>1, <1>2, <1>7, <2>1, <2>2 DEF DirectInv
  <2>4. want.rw = "write" => resp' = Silent
    BY <1>4 DEF RespInv
  <2>5. want.rw = "read" => SeekOK' \/ SkipOK' \/ DriveOK' \/ OffOK'
    BY <1>2, <1>7, <2>1, AnswerKept DEF RespInv
  <2> QED BY <1>1, <1>3, <1>7, <2>3, <2>4, <2>5 DEF RespInv
<1>8. CASE pc = 5
  <2>1. /\ ~start /\ runs = 1
        /\ Served \/ (Running /\ InTime)
        /\ rw = want.rw /\ cfg = [reg |-> want.reg, data |-> want.data]
    BY <1>8 DEF DirectInv
  <2>2. Runs = runs /\ (Served' \/ Running')
    BY <1>1, <1>2, <2>1, CourseStep
  <2>3. Running' => Running /\ InTime
    BY <1>1, <1>2, <2>1, CourseStep DEF Served, Running
  <2>4. Running' => InTime'
    BY <1>1, <1>2, <1>3, <1>8, <2>3, TimeStep DEF Running
  <2>5. DirectInv'
    BY <1>1, <1>2, <1>8, <2>1, <2>2, <2>4 DEF DirectInv
  <2>6. want.rw = "write" => resp' = Silent
    BY <1>4 DEF RespInv
  <2>7. want.rw = "read" => OffOK'
    BY <1>2, <1>8, <2>1, OffStep DEF RespInv
  <2> QED BY <1>1, <1>3, <1>8, <2>5, <2>6, <2>7 DEF RespInv
<1>9. CASE pc = 6
  <2>1. ~start /\ runs = 1 /\ Served /\ HasGot /\ state = "IDLE"
    BY <1>9 DEF DirectInv, Served
  <2>2. state' = "IDLE" /\ phy' = phy /\ Runs = runs /\ Served'
    BY <1>1, <2>1, RestStep
  <2>3. HasGot'
    BY <1>1, <2>1, <2>2 DEF HasGot
  <2>4. resp = Silent
    BY <1>9 DEF RespInv
  <2>5. DirectInv'
    BY <1>1, <1>2, <1>9, <2>1, <2>2, <2>3 DEF DirectInv
  <2> QED BY <1>1, <1>4, <1>9, <2>4, <2>5 DEF RespInv
<1> QED BY <1>3, <1>5, <1>6, <1>7, <1>8, <1>9

LEMMA DirectStores ==
  ASSUME TypeOK, ClockOK, Sync, Quiet, DirectInv, RespInv,
         program = "direct", NEW step \in Stores, Access(step, pc + 1, MinGap),
         MdcEdge, FsmEdge, Samples, AnswerStep, RegsEdge(step), Respond(step),
         start \/ state # "IDLE" => rw' = rw
  PROVE  DirectInv' /\ RespInv'
<1>1. /\ step = Now /\ gap = 0 /\ pc' = pc + 1 /\ gap' = MinGap - 1
      /\ runs' = IF step \in {"start", "raise"} THEN 0 ELSE Runs
      /\ want' = want /\ want \in Requests /\ pc \in 0 .. 7
  BY DEF Access, TypeOK
<1>2. want.rw \in {"read", "write"}
  BY <1>1 DEF Requests
<1>3. \/ pc = 1 /\ step = "aim"
      \/ pc = 2 /\ step = "raise"
      \/ pc = 3 /\ step = "drop" /\ want.rw = "write"
      \/ pc = 3 /\ step = "call" /\ want.rw = "read"
  BY <1>1, DirectNow DEF Stores, Prompt
<1>4. resp = Silent
  BY <1>3 DEF RespInv
<1>5. CASE pc \in {1, 2}
  <2>1. Ready /\ state = "IDLE" /\ ~start
    BY <1>5 DEF DirectInv, Ready
  <2>2. state' = "IDLE" /\ Runs = runs
    BY <2>1, RestStep
  <2>3. resp' = Silent
    BY <1>3, <1>4, <1>5, SilentStep
  <2>4. CASE pc = 1 /\ step = "aim"
    <3>1. /\ rw' = want.rw /\ ~start'
          /\ cfg' = [reg |-> want.reg, data |-> want.data]
      BY <2>1, <2>4, RegFacts
    <3>2. DirectInv'
      BY <1>1, <2>1, <2>2, <2>4, <3>1 DEF DirectInv, Ready
    <3> QED BY <1>1, <2>3, <2>4, <3>2 DEF RespInv
  <2>5. CASE pc = 2 /\ step = "raise"
    <3>1. start' /\ rw' = rw /\ cfg' = cfg
      BY <2>5, RegFacts
    <3>2. Early'
      BY <1>1, <2>2, <2>5, <3>1 DEF Early
    <3>3. DirectInv'
      BY <1>1, <2>2, <2>5, <3>1, <3>2 DEF DirectInv
    <3> QED BY <1>1, <2>3, <2>5, <3>3 DEF RespInv
  <2> QED BY <1>3, <1>5, <2>4, <2>5
<1>6. CASE pc = 3 /\ step \in {"drop", "call"}
  <2>1. /\ Early /\ rw = want.rw /\ cfg = [reg |-> want.reg, data |-> want.data]
    BY <1>6 DEF DirectInv
  <2>2. ~start' /\ rw' = rw /\ cfg' = cfg
    BY <1>6, RegFacts
  <2>3. /\ Running' /\ Runs = 1 /\ state' = "PREAMBLE"
        /\ bitCnt' \in Nat /\ bitCnt' + Due' >= Preamble - 1
    BY <1>1, <2>1, <2>2, EarlyEnds
  <2>4. DirectInv'
    BY <1>1, <1>6, <2>1, <2>2, <2>3 DEF DirectInv
  <2>5. CASE step = "drop"
    <3>1. resp' = Silent /\ want.rw = "write"
      BY <1>3, <1>4, <2>5, SilentStep
    <3> QED BY <1>1, <1>6, <2>4, <3>1 DEF RespInv
  <2>6. CASE step = "call"
    <3>1. resp' = [Silent EXCEPT !.phase = "seek"]
      BY <2>6 DEF Respond
    <3>2. resp'.phase = "seek" /\ resp'.n = 0 /\ resp'.prev = 0
      BY <3>1 DEF Silent
    <3>3. Due' \in {0, 1}
      BY DEF Due
    <3>4. SeekOK'
      <4>1. resp'.n + bitCnt' + Due' >= Preamble - 1
        <5>1. bitCnt' \in Nat /\ bitCnt' + Due' >= Preamble - 1
          BY <2>3
        <5>2. 0 + bitCnt' + Due' = bitCnt' + Due'
          BY <3>3, <5>1
        <5> QED BY <3>2, <5>1, <5>2
      <4>2. resp'.n <= Preamble
        BY Sizes, <3>2
      <4> QED BY <2>3, <3>2, <4>1, <4>2 DEF SeekOK
    <3>5. want.rw = "read"
      BY <1>3, <2>6
    <3> QED BY <1>1, <1>6, <2>4, <3>4, <3>5 DEF RespInv
  <2> QED BY <1>6, <2>5, <2>6
<1> QED BY <1>3, <1>5, <1>6

(* The result is looked at after the bench's rest.                         *)
LEMMA DirectEnds ==
  ASSUME TypeOK, ClockOK, Sync, Quiet, DirectInv, RespInv,
         program = "direct", NEW step, Access(step, pc + 1, MinGap), pc = 5,
         step \in {"result", "over"}, got' = IF want.rw = "read" THEN rdata ELSE got,
         MdcEdge, FsmEdge, Samples, AnswerStep, RegsEdge(step), Respond(step),
         start \/ state # "IDLE" => rw' = rw
  PROVE  DirectInv' /\ RespInv'
<1>1. /\ gap = 0 /\ pc' = 6 /\ want' = want /\ runs' = Runs
  BY DEF Access
<1>2. /\ ~start /\ runs = 1
      /\ Served \/ (Running /\ InTime)
      /\ rw = want.rw
  BY DEF DirectInv
<1>3. ~start' /\ rw' = rw
  BY <1>2, RegFacts
<1>4. Served' /\ HasGot' /\ Runs = runs
  <2>1. CASE Served
    <3>1. Served' /\ Runs = runs /\ phy' = phy
      BY <1>1, <1>2, <2>1, RestStep DEF Served
    <3>2. HasGot'
      BY <1>1, <2>1, <3>1 DEF HasGot, Served
    <3> QED BY <3>1, <3>2
  <2>2. CASE Running /\ InTime
    <3>1. state = "FINISH" /\ rise
      BY <1>1, <2>2, TimeEnds DEF Running
    <3>2. Served' /\ Runs = runs /\ (want.rw = "read" => rdata' = phy'[want.reg])
      BY <1>1, <1>3, <2>2, <3>1, RunStep
    <3>3. rdata' = rdata
      BY <1>3, <3>1, FinishStep DEF Sync
    <3>4. HasGot'
      BY <1>1, <3>2, <3>3 DEF HasGot
    <3> QED BY <3>2, <3>4
  <2> QED BY <1>2, <2>1, <2>2
<1>5. resp' = Silent
  <2>1. want.rw \in {"read", "write"}
    BY DEF TypeOK, Requests
  <2>2. resp = Silent
    BY <2>1 DEF RespInv, OffOK
  <2> QED BY <2>2, SilentStep
<1>6. DirectInv'
  BY <1>1, <1>2, <1>3, <1>4 DEF DirectInv
<1> QED BY <1>1, <1>5, <1>6 DEF RespInv

LEMMA DirectStep ==
  ASSUME TypeOK, ClockOK, Sync, Quiet, ProgInv, program = "direct", Next
  PROVE  ProgInv'
<1>1. /\ DirectInv /\ RespInv /\ pc \in 0 .. 7 /\ want \in Requests
      /\ want.rw \in {"read", "write"}
  BY DEF ProgInv, TypeOK, Requests
<1>2. program' = program
  BY NextEdge
<1> SUFFICES DirectInv' /\ RespInv'
  BY <1>2 DEF ProgInv
<1>3. ASSUME NEW step, step = "none" \/ step = Now, Edge(step)
      PROVE  /\ MdcEdge /\ FsmEdge /\ Samples /\ AnswerStep
             /\ RegsEdge(step) /\ Respond(step)
             /\ start \/ state # "IDLE" => rw' = rw
  BY <1>2, <1>3, CoreStep
<1>4. CASE Wait
  <2>1. Edge("none")
    BY <1>4 DEF Wait, Elapse
  <2> QED BY <1>1, <1>3, <1>4, <2>1, DirectWaits
<1>5. CASE Begin \/ Return
  <2>1. /\ runs' = Runs /\ Edge("none")
        /\ \/ pc = 0 /\ pc' = 1
           \/ Returning /\ pc' = 0
    BY <1>5 DEF Begin, Return, Elapse
  <2>2. MdcEdge /\ FsmEdge /\ Samples /\ RegsEdge("none") /\ Respond("none")
    BY <1>3, <2>1
  <2>3. pc \in {0, 6} /\ pc' \in {0, 1}
    BY <1>1, <2>1, DirectNow DEF DirectInv
  <2>4. state = "IDLE" /\ ~start /\ runs <= 1 /\ resp = Silent
    BY <1>1, <2>3 DEF DirectInv, RespInv, Ready, Served
  <2>5. ~start' /\ state' = "IDLE" /\ Runs = runs /\ resp' = Silent
    BY <2>2, <2>4, RestStep, RegFacts, SilentStep
  <2> QED BY <2>1, <2>3, <2>4, <2>5 DEF DirectInv, RespInv, Ready
<1>6. CASE Store
  <2>1. PICK step \in Stores : Access(step, pc + 1, MinGap)
    BY <1>6 DEF Store
  <2>2. step = Now /\ Edge(step)
    BY <2>1 DEF Access
  <2> QED BY <1>1, <1>3, <2>1, <2>2, DirectStores
<1>7. CASE Rest
  <2>1. /\ "rest" = Now /\ pc' = pc + 1 /\ gap' = Delay - 1 /\ runs' = Runs
        /\ want' = want /\ Edge("rest") /\ resp = Silent
    BY <1>7 DEF Rest, Access
  <2>2. /\ MdcEdge /\ FsmEdge /\ Samples /\ AnswerStep
        /\ RegsEdge("rest") /\ Respond("rest")
    BY <1>3, <2>1
  <2>3. Respond("none")
    BY <2>2 DEF Respond
  <2>4. pc = 4
    BY <1>1, <2>1, DirectNow
  <2>5. /\ ~start /\ runs = 1
        /\ Served \/ Running
        /\ rw = want.rw /\ cfg = [reg |-> want.reg, data |-> want.data]
    BY <1>1, <2>4 DEF DirectInv
  <2>6. ~start' /\ rw' = rw /\ cfg' = cfg
    BY <2>2, <2>5, RegFacts
  <2>7. Runs = runs /\ (Served' \/ Running')
    BY <2>1, <2>2, <2>5, <2>6, CourseStep
  <2>8. Running' => InTime'
    <3>1. Sync'
      BY <1>2, <2>1, CoreStep
    <3>2. TypeOK'
      BY TypeStep
    <3>3. (TypeOK /\ Sync /\ state # "IDLE" /\ gap = Delay - 1 => InTime)'
      BY TimeBegins, PTL
    <3> QED BY <2>1, <3>1, <3>2, <3>3 DEF Running
  <2>9. DirectInv'
    BY <2>1, <2>4, <2>5, <2>6, <2>7, <2>8 DEF DirectInv
  <2>10. resp' = Silent
    BY <2>1, <2>2, SilentStep
  <2>11. want.rw = "read" => OffOK'
    <3> SUFFICES ASSUME want.rw = "read" PROVE OffOK'
      OBVIOUS
    <3>1. OffOK
      <4>1. resp.phase = "off"
        BY <2>1 DEF Silent
      <4>2. ~SeekOK /\ ~SkipOK /\ ~DriveOK
        BY <4>1 DEF SeekOK, SkipOK, DriveOK
      <4> QED BY <1>1, <2>4, <4>2 DEF RespInv
    <3> QED BY <2>2, <2>3, <2>5, <2>6, <3>1, OffStep
  <2> QED BY <1>1, <2>1, <2>4, <2>9, <2>10, <2>11 DEF RespInv
<1>8. CASE Result
  <2>1. Access("result", pc + 1, MinGap) /\ got' = rdata /\ "result" = Now
        /\ Edge("result")
    BY <1>8 DEF Result, Access
  <2>2. pc = 5 /\ want.rw = "read"
    BY <1>1, <2>1, DirectNow
  <2> QED BY <1>1, <1>3, <2>1, <2>2, DirectEnds
<1>9. CASE Over
  <2>1. Access("over", pc + 1, MinGap) /\ got' = got /\ "over" = Now
        /\ Edge("over")
    BY <1>9 DEF Over, Access
  <2>2. pc = 5 /\ want.rw = "write"
    BY <1>1, <2>1, DirectNow
  <2> QED BY <1>1, <1>3, <2>1, <2>2, DirectEnds
<1>10. ~Poll
  BY <1>1, DirectNow DEF Poll, Access
<1> QED BY <1>4, <1>5, <1>6, <1>7, <1>8, <1>9, <1>10 DEF Next, Program

-----------------------------------------------------------------------------
LEMMA Starts == Init => IInv
<1> SUFFICES ASSUME Init PROVE IInv
  OBVIOUS
<1>1. ZeroWord \in Words
  BY DEF ZeroWord, Words
<1>2. TypeOK
  <2>1. /\ div \in 0 .. Div - 1 /\ shifted \in 0 .. FrameBits
        /\ phyCnt \in 0 .. FrameBits - 1 /\ ones \in 0 .. Preamble
        /\ gap \in 0 .. MinGap + Delay /\ pc \in 0 .. 7
        /\ bitCnt \in Nat /\ runs \in Nat
    BY Sizes DEF Init
  <2>2. resp \in [phase: {"off", "seek", "skip", "drive"}, prev: {0, 1},
                  n: 0 .. Preamble + FrameBits]
    BY Sizes DEF Init, Silent
  <2>3. cfg \in [reg: PhyRegs, data: Words]
    BY <1>1 DEF Init
  <2>4. /\ {mdc, rise, fall} \subseteq BOOLEAN
        /\ {oe, done, start, flag} \subseteq BOOLEAN
        /\ {word, rdata, got} \subseteq Words
    BY <1>1 DEF Init
  <2> QED BY <2>1, <2>2, <2>3, <2>4 DEF Init, TypeOK
<1>3. ClockOK
  BY DEF Init, ClockOK
<1>4. Sync
  BY DEF Init, Sync, IdleSync, Sampled
<1>5. Quiet
  BY DEF Init, Quiet
<1>6. ProgInv
  <2>1. /\ state = "IDLE" /\ start = FALSE /\ runs = 0 /\ pc = 0
        /\ resp = Silent
    BY DEF Init
  <2>2. FirmwareInv
    BY <2>1 DEF FirmwareInv
  <2>3. Ready
    BY <2>1 DEF Ready
  <2>4. BenchInv
    BY <2>1, <2>3 DEF BenchInv
  <2>5. DirectInv /\ RespInv
    BY <2>1, <2>3 DEF DirectInv, RespInv
  <2> QED BY <1>2, <2>1, <2>2, <2>4, <2>5, ProgramIs DEF ProgInv
<1> QED BY <1>2, <1>3, <1>4, <1>5, <1>6 DEF IInv

LEMMA Stutters == IInv /\ UNCHANGED vars => IInv'
<1> SUFFICES ASSUME IInv, UNCHANGED vars PROVE IInv'
  OBVIOUS
<1> USE DEF vars, mdcVars, fsmVars, regVars, phyVars
<1>1. TypeOK'
  BY DEF IInv, TypeOK
<1>2. ClockOK' /\ Sync' /\ Quiet'
  BY DEF IInv, ClockOK, Sync, Quiet, IdleSync, PreambleSync, FrameSync, TurnSync,
         ReadSync, FinishSync, Serving, Length, Sampled, Due, Answer
<1>3. FirmwareInv' = FirmwareInv /\ BenchInv' = BenchInv
  BY DEF FirmwareInv, BenchInv, Polling, Ready, Served, Running, HasGot, Early,
         Sampled
<1>4. DirectInv' = DirectInv
  <2>1. Early' = Early /\ Served' = Served /\ Running' = Running
        /\ Ready' = Ready /\ HasGot' = HasGot
    BY DEF Ready, Served, Running, HasGot, Early, Sampled
  <2>2. InTime' = InTime
    <3>1. Left' = Left /\ Phase' = Phase
      BY DEF Left, Phase, Sampled
    <3> QED BY <3>1 DEF InTime, Span
  <2> QED BY <2>1, <2>2 DEF DirectInv
<1>5. RespInv' = RespInv
  BY DEF RespInv, SeekOK, SkipOK, DriveOK, OffOK, Due, Sampled
<1>6. ProgInv'
  BY <1>3, <1>4, <1>5 DEF IInv, ProgInv
<1> QED BY <1>1, <1>2, <1>6 DEF IInv

(* Controller, PHY and program keep in step for every divider, every       *)
(* length of preamble, opcode and data, and every program: the PHY's count *)
(* of bits is the master's, and each program's next step finds the         *)
(* transaction where it counts on it to be.                                *)
THEOREM StaysInStep == Spec => []IInv
<1>1. IInv /\ [Next]_vars => IInv'
  <2> SUFFICES ASSUME IInv, [Next]_vars PROVE IInv'
    OBVIOUS
  <2>1. CASE Next
    <3>1. TypeOK /\ ClockOK /\ Sync /\ Quiet /\ ProgInv
      BY DEF IInv
    <3>2. TypeOK'
      BY <2>1, <3>1, TypeStep
    <3>3. ClockOK' /\ Sync' /\ Quiet'
      BY <2>1, <3>1, NextEdge, CoreStep
    <3>4. ProgInv'
      BY <2>1, <3>1, ProgramIs, BenchStep, FirmwareStep, DirectStep
    <3> QED BY <3>2, <3>3, <3>4 DEF IInv
  <2>2. CASE UNCHANGED vars
    BY <2>2, Stutters
  <2> QED BY <2>1, <2>2
<1> QED BY <1>1, Starts, PTL DEF Spec

(* Every register and counter of the controller stays within its type.     *)
THEOREM TypeCorrect == Spec => []TypeOK
<1>1. IInv => TypeOK
  BY DEF IInv
<1> QED BY <1>1, StaysInStep, PTL

(* Whatever the phase of MDC when START is set, every frame reaches the    *)
(* PHY after a full preamble and bit by bit: mdio_master.v shifts on the   *)
(* falling edge what the PHY samples on the rising one.                    *)
THEOREM FramesIntact == Spec => []FrameIntact
<1>1. IInv => FrameIntact
  <2> SUFFICES ASSUME IInv, phyCnt > 0 PROVE phyFrame # Nil
    BY DEF FrameIntact
  <2>1. Sync /\ phyCnt # 0
    BY Sizes DEF IInv, TypeOK
  <2>2. state \in {"IDLE", "PREAMBLE", "OPCODE", "TA", "READ", "FINISH"}
    BY DEF IInv, TypeOK
  <2>3. Serving /\ phyFrame = value
    <3>1. CASE state \in {"IDLE", "PREAMBLE", "FINISH"}
      BY <2>1, <3>1 DEF Sync, IdleSync, PreambleSync, FinishSync
    <3>2. CASE state = "OPCODE"
      BY <3>2, <2>1 DEF Sync, FrameSync
    <3>3. CASE state = "TA"
      BY <3>3, <2>1 DEF Sync, TurnSync
    <3>4. CASE state = "READ"
      BY <3>4, <2>1 DEF Sync, ReadSync
    <3> QED BY <2>2, <3>1, <3>2, <3>3, <3>4
  <2> QED BY <2>3, MdioAssumption DEF Serving
<1> QED BY <1>1, StaysInStep, PTL

(* Controller and PHY never drive the MDIO line at the same time, also at  *)
(* the two turnarounds.                                                    *)
THEOREM NeverContends == Spec => []NoContention
<1>1. IInv => NoContention
  BY DEF IInv, Quiet, NoContention
<1> QED BY <1>1, StaysInStep, PTL

(* The test benches get what they ask for: a read returns the contents of  *)
(* the PHY register it names, a write has reached it.                      *)
THEOREM BenchesServed == Spec => []BenchServed
<1>1. IInv => BenchServed
  <2> SUFFICES ASSUME IInv, program # "firmware", Returning PROVE
               IF want.rw = "read" THEN got = phy[want.reg]
               ELSE phy[want.reg] = want.data
    BY DEF BenchServed, AnswersRequest
  <2>1. TypeOK /\ ProgInv /\ want \in Requests /\ pc \in 0 .. 7
    BY DEF IInv, TypeOK
  <2>2. CASE program = "bench"
    <3>1. BenchInv
      BY <2>1, <2>2 DEF ProgInv
    <3>2. pc \in 6 .. 7 /\ Served /\ (want.rw = "read" => pc = 7)
      BY <2>1, <2>2, <3>1, BenchNow DEF BenchInv
    <3>3. want.rw = "read" => HasGot
      BY <3>1, <3>2 DEF BenchInv
    <3> QED BY <3>2, <3>3 DEF Served, HasGot
  <2>3. CASE program = "direct"
    <3>1. DirectInv
      BY <2>1, <2>3 DEF ProgInv
    <3>2. Served /\ HasGot
      BY <2>1, <2>3, <3>1, DirectNow DEF DirectInv
    <3> QED BY <3>2 DEF Served, HasGot
  <2> QED BY <2>1, <2>2, <2>3, ProgramIs
<1> QED BY <1>1, StaysInStep, PTL

(* ... with one transaction for each time they set START, although START   *)
(* is a level and not a pulse.                                             *)
THEOREM StartsOnce == Spec => []OncePerStart
<1>1. IInv => OncePerStart
  <2> SUFFICES ASSUME IInv, program # "firmware" PROVE runs <= 1
    BY DEF OncePerStart
  <2>1. TypeOK /\ ProgInv /\ pc \in 0 .. 7
    BY DEF IInv, TypeOK
  <2>2. CASE program = "bench"
    BY <2>1, <2>2 DEF ProgInv, BenchInv, Ready, Early, Polling
  <2>3. CASE program = "direct"
    BY <2>1, <2>3 DEF ProgInv, DirectInv, Ready, Early
  <2> QED BY <2>1, <2>2, <2>3, ProgramIs
<1> QED BY <1>1, StaysInStep, PTL
=============================================================================
