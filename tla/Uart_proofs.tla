---------------------------- MODULE Uart_proofs ----------------------------
(* Proofs about Uart for every prescaler, stop bit, word length and set of *)
(* words.                                                                  *)
EXTENDS Uart, TLAPS

Half == Prescaler \div 2
Last == Middle(DataBits + 1)

(* The transmitter before, during and after the transmission putchar waits *)
(* for.                                                                    *)
Idle == txState = "IDLE" /\ ~fired /\ ~txDone
Ready == Idle /\ ~txFlag
AtWork == txState # "IDLE" /\ en /\ fired /\ ~txDone /\ ~txFlag /\ ~txRst
Finished == txState = "IDLE" /\ fired /\ txDone /\ ~txRst
Rearmed == txState = "IDLE" /\ (fired \/ txDone => txRst)

TxPhase ==
  /\ pc = "poll" => (Ready /\ en) \/ AtWork \/ Finished
  /\ pc \in {"rdClear", "clear"} => Finished /\ ~en
  /\ pc = "sent" => Rearmed /\ ~en
  /\ pc = "idle" => Idle /\ ~en
  /\ pc \in {"tdr", "rdStart", "start", "look", "rdr", "rdAck", "ack"}
       => Ready /\ ~en
  /\ pc \in {"clear", "ack"} => ~held.en

(* A flag that outlives its reception does so until the program clears it. *)
RxPhase ==
  /\ rxRst => gap = MinGap - 1
  /\ rxDone /\ ~unread => pc \in {"rdAck", "ack"} \/ rxRst
  /\ rxFlag /\ ~unread => pc \in {"rdAck", "ack"} \/ rxRst \/ gap > 0
  /\ pc = "rdr" => unread

-----------------------------------------------------------------------------
(* What is on the line, and where the other end stands in the frame.       *)
PinOK ==
  /\ txState = "IDLE" => txPin = 1
  /\ txState = "START" => /\ txBit = 0 /\ txCnt < Prescaler
                          /\ txPin = IF txCnt = 0 THEN 1 ELSE 0
  /\ txState = "DATA" => /\ txCnt < Prescaler
                         /\ txPin = IF txCnt > 0 THEN txData[txBit]
                                    ELSE IF txBit = 0 THEN 0
                                    ELSE txData[txBit - 1]
  /\ txState = "STOP" => txPin = IF txCnt = 0 THEN txData[DataBits - 1] ELSE 1

EarPlace ==
  /\ txState = "IDLE" => ear \in {0, Last} /\ (ear # 0 => txDone)
  /\ txState = "START" => ear = IF txCnt = 0 THEN 0 ELSE txCnt - 1
  /\ txState = "DATA" => ear = (txBit + 1) * Prescaler + txCnt - 1
  /\ txState = "STOP" =>
       ear = IF txCnt <= Half + 1 THEN (DataBits + 1) * Prescaler + txCnt - 1
             ELSE 0
EarBits == \A b \in 0 .. DataBits - 1 :
             ear > Middle(b + 1) => earWord[b] = txData[b]

Unheard == Ready \/ txState \in {"START", "DATA"} \/ ear # 0

HeardOK ==
  /\ heard <= 1
  /\ pc \in {"rdStart", "start"} => tdr = want /\ heard = 0
  /\ pc = "poll" => /\ tdr = want /\ (~Ready => txData = want)
                    /\ IF Unheard THEN heard = 0
                       ELSE heard = 1 /\ heardWord = want
                    /\ Finished /\ ear # 0 => ~txFlag
  /\ pc \in {"rdClear", "clear", "sent"} => heard = 1 /\ heardWord = want
  /\ pc # "poll" => ear = 0

-----------------------------------------------------------------------------
(* The clock edges since the receiver was last idle, and those until a     *)
(* listening program looks.                                                *)
Age == CASE rxState = "IDLE"  -> 0
         [] rxState = "START" -> rxCnt + 1
         [] rxState = "DATA"  -> rxBit * Prescaler + rxCnt + 2
         [] rxState = "STOP"  -> DataBits * Prescaler + rxCnt + 2
FrameTime == DataBits * Prescaler + StopTime(Prescaler) + 1
UntilLook == IF pc = "look" THEN gap + 1 ELSE gap + 2

ListenPhase ==
  program = "listen" =>
    /\ pc \in {"idle", "look", "rdr", "rdAck", "ack"}
    /\ unread => rxDone
    /\ unread /\ pc \in {"idle", "look"} =>
         Age = 0 \/ (rxFlag /\ Age + UntilLook <= MinGap + 2)
    /\ pc = "rdr" => Age + gap <= 2 * MinGap + 1
    /\ pc = "rdAck" => Age + gap <= 3 * MinGap + 1
    /\ pc = "ack" => Age + gap <= 4 * MinGap + 1
    /\ pc \in {"rdAck", "ack"} \/ rxRst => ~unread

StartBit == rxState = "START" => rxBit = 0

(* Words that are sent are words.                                          *)
WordsOK == /\ pc = "tdr" => want \in Words
           /\ peerBit > 0 => peerWord \in Words

-----------------------------------------------------------------------------
LEMMA StopTimes ==
  ASSUME NEW time \in Nat
  PROVE  StopTime(time) \in Nat /\ StopTime(time) >= time
<1>1. StopCfg \in 0 .. 3
  BY UartAssumption
<1> QED BY <1>1 DEF StopTime

LEMMA Params ==
  /\ Prescaler \in Nat /\ Prescaler >= 2
  /\ DataBits \in Nat /\ DataBits >= 1
  /\ MinGap \in Nat /\ MinGap >= 1
  /\ Half \in Nat /\ Half >= 1 /\ Half <= Prescaler - 1
  /\ StopTime(Prescaler) \in Nat /\ StopTime(Prescaler) >= Prescaler
  /\ Words \subseteq AllWords /\ Nil \notin Words
<1>1. /\ Prescaler \in Nat /\ Prescaler >= 2
      /\ DataBits \in Nat \ {0} /\ MinGap \in Nat \ {0}
      /\ Words \subseteq AllWords /\ Nil \notin Words
  BY UartAssumption DEF AllWords
<1>2. Half \in Nat /\ Half >= 1 /\ Half <= Prescaler - 1
  BY <1>1 DEF Half
<1> QED BY <1>1, <1>2, StopTimes

(* Bits of the frame do not overlap.                                       *)
LEMMA Places ==
  /\ \A a \in Nat : a * Prescaler \in Nat /\ Middle(a) = Half + a * Prescaler
                    /\ Middle(a) \in Nat
                    /\ (a + 1) * Prescaler = a * Prescaler + Prescaler
  /\ \A a, b \in Nat : a < b => a * Prescaler + Prescaler <= b * Prescaler
<1>1. \A a, n \in Nat : a * n \in Nat /\ (a + 1) * n = a * n + n
  OBVIOUS
<1>2. \A a \in Nat : a * Prescaler \in Nat /\ Middle(a) = Half + a * Prescaler
                     /\ Middle(a) \in Nat
                     /\ (a + 1) * Prescaler = a * Prescaler + Prescaler
  BY <1>1, Params DEF Middle, Half
<1>3. ASSUME NEW a \in Nat, NEW b \in Nat, a < b, NEW n \in Nat
      PROVE  a * n + n <= b * n
  <2>1. PICK d \in Nat : b = a + 1 + d
    <3>1. b - a - 1 \in Nat /\ b = a + 1 + (b - a - 1)
      BY <1>3
    <3> QED BY <3>1
  <2>2. b * n = (a + 1) * n + d * n
    BY <2>1
  <2>3. d * n \in Nat /\ (a + 1) * n = a * n + n
    BY <1>1
  <2>4. a * n \in Nat
    BY <1>1
  <2> QED BY <2>2, <2>3, <2>4
<1> QED BY <1>2, <1>3, Params

-----------------------------------------------------------------------------
(* Types.                                                                  *)
LEMMA TxTypes ==
  ASSUME TypeOK, TxEdge
  PROVE  /\ {fired', txDone'} \subseteq BOOLEAN
         /\ txData' \in AllWords /\ txState' \in {"IDLE", "START", "DATA", "STOP"}
         /\ txCnt' \in 0 .. StopTime(Prescaler) - 1
         /\ txBit' \in 0 .. DataBits - 1 /\ txPin' \in {0, 1}
<1>1. /\ txCnt \in 0 .. StopTime(Prescaler) - 1
      /\ txBit \in 0 .. DataBits - 1
      /\ tdr \in AllWords /\ txData \in AllWords
      /\ txState \in {"IDLE", "START", "DATA", "STOP"}
  BY DEF TypeOK
<1>2. fired \in BOOLEAN /\ txDone \in BOOLEAN
  BY DEF TypeOK
<1>3. txData[txBit] \in {0, 1}
  BY <1>1 DEF AllWords
<1> USE DEF Clear
<1>4. CASE TxIdle
  <2>1. fired' \in BOOLEAN /\ txDone' \in BOOLEAN
    BY <1>4 DEF TxIdle
  <2>2. /\ txData' \in AllWords /\ txState' \in {"IDLE", "START", "DATA", "STOP"}
        /\ txCnt' = 0 /\ txBit' = 0 /\ txPin' = 1
    BY <1>1, <1>4 DEF TxIdle
  <2> QED BY <2>1, <2>2, Params
<1>5. CASE TxStart
  BY <1>1, <1>2, <1>5, Params DEF TxStart
<1>6. CASE TxData
  BY <1>1, <1>2, <1>3, <1>6, Params DEF TxData
<1>7. CASE TxStop
  <2>1. fired' \in BOOLEAN /\ txDone' \in BOOLEAN
    BY <1>7 DEF TxStop
  <2> QED BY <1>1, <1>7, <2>1, Params DEF TxStop
<1> QED BY <1>4, <1>5, <1>6, <1>7 DEF TxEdge

LEMMA LineIsBit == TypeOK /\ WordsOK => Line \in {0, 1}
<1> SUFFICES ASSUME TypeOK, WordsOK PROVE Line \in {0, 1}
  OBVIOUS
<1>1. peerBit \in 0 .. DataBits + 1
  BY DEF TypeOK
<1>2. CASE peerBit > 0 /\ peerBit <= DataBits
  <2>1. peerWord \in AllWords /\ peerBit - 1 \in 0 .. DataBits - 1
    BY <1>1, <1>2, Params DEF WordsOK
  <2> QED BY <2>1 DEF Line, AllWords
<1>3. CASE peerBit = 0 \/ peerBit > DataBits
  BY <1>1, <1>3, Params DEF Line
<1> QED BY <1>1, <1>2, <1>3, Params

LEMMA RxTypes ==
  ASSUME TypeOK, WordsOK, RxEdge
  PROVE  /\ rxDone' \in BOOLEAN
         /\ rxData' \in AllWords /\ rdr' \in AllWords
         /\ rxState' \in {"IDLE", "START", "DATA", "STOP"}
         /\ rxCnt' \in 0 .. StopTime(Prescaler) - 1
         /\ rxBit' \in 0 .. DataBits - 1
         /\ sync0' \in {0, 1} /\ sync1' \in {0, 1}
<1>1. /\ rxCnt \in 0 .. StopTime(Prescaler) - 1
      /\ rxBit \in 0 .. DataBits - 1
      /\ rxData \in AllWords /\ rdr \in AllWords
      /\ rxState \in {"IDLE", "START", "DATA", "STOP"}
      /\ sync0 \in {0, 1} /\ sync1 \in {0, 1}
  BY DEF TypeOK
<1>2. rxDone \in BOOLEAN
  BY DEF TypeOK
<1>3. sync0' \in {0, 1} /\ sync1' \in {0, 1}
  BY <1>1, LineIsBit DEF RxEdge
<1>4. CASE RxIdle
  BY <1>1, <1>2, <1>3, <1>4, Params DEF RxIdle
<1>5. CASE RxStart
  BY <1>1, <1>2, <1>3, <1>5, Params DEF RxStart, Half
<1>6. CASE RxData
  <2>1. [rxData EXCEPT ![rxBit] = sync1] \in AllWords
    BY <1>1 DEF AllWords
  <2> QED BY <1>1, <1>2, <1>3, <1>6, <2>1, Params DEF RxData
<1>7. CASE RxStop
  <2>1. rxDone' \in BOOLEAN
    BY <1>7 DEF RxStop
  <2> QED BY <1>1, <1>3, <1>7, <2>1, Params DEF RxStop
<1> QED BY <1>4, <1>5, <1>6, <1>7 DEF RxEdge

(* What a store may carry.                                                 *)
Stores == {NoStore} \cup {StoreCfg(f) : f \in Flags}
          \cup {StoreTdr(w) : w \in Words}

LEMMA RegsTypes ==
  ASSUME TypeOK, NEW store \in Stores, RegsEdge(store)
  PROVE  /\ tdr' \in AllWords
         /\ {en', txRst', rxRst', txFlag', rxFlag'} \subseteq BOOLEAN
<1>1. {en, txDone, rxDone, txFlag} \subseteq BOOLEAN /\ tdr \in AllWords
  BY DEF TypeOK
<1>2. store.reg = "CFG" => store.flags \in Flags
  BY DEF Stores, NoStore, StoreCfg, StoreTdr
<1>3. store.reg = "TDR" => store.word \in AllWords
  BY Params DEF Stores, NoStore, StoreCfg, StoreTdr
<1>4. tdr' \in AllWords
  BY <1>1, <1>3 DEF RegsEdge
<1>5. {txRst', rxRst', txFlag', rxFlag'} \subseteq BOOLEAN
  BY <1>1 DEF RegsEdge
<1>6. en' \in BOOLEAN
  BY <1>1 DEF RegsEdge
<1> QED BY <1>4, <1>5, <1>6

LEMMA PeerTypes ==
  ASSUME TypeOK, WordsOK, PeerEdge
  PROVE  /\ peerWord' \in Words \cup {Nil} /\ peerTime' \in BitTimes
         /\ peerBit' \in 0 .. DataBits + 1
         /\ peerCnt' \in 0 .. StopTime(peerTime') \cup 1 .. Prescaler
         /\ peerBit' > 0 => peerWord' \in Words
<1>1. /\ peerWord \in Words \cup {Nil} /\ peerTime \in BitTimes
      /\ peerBit \in 0 .. DataBits + 1
      /\ peerCnt \in 0 .. StopTime(peerTime) \cup 1 .. Prescaler
  BY DEF TypeOK
<1>2. \A time \in BitTimes : time \in Nat /\ StopTime(time) \in Nat
                             /\ StopTime(time) >= time
  BY StopTimes, UartAssumption
<1>3. CASE PeerStarts
  <2>1. Prescaler \div 2 <= Prescaler /\ Prescaler \div 2 \in Nat
    BY Params DEF Half
  <2> QED BY <1>1, <1>2, <1>3, <2>1, Params DEF PeerStarts
<1>4. CASE PeerSilent
  BY <1>1, <1>4 DEF PeerSilent, peerVars, WordsOK
<1>5. CASE PeerSends
  <2>1. CASE peerCnt > 1 \/ peerBit = DataBits + 1 \/ peerWord = Nil
    BY <1>1, <1>2, <1>5, <2>1, Params DEF PeerSends, WordsOK
  <2>2. CASE ~(peerCnt > 1 \/ peerBit = DataBits + 1 \/ peerWord = Nil)
    <3>1. /\ peerBit' = peerBit + 1 /\ peerCnt' = BitLength(peerBit + 1, peerTime)
          /\ peerWord' = peerWord /\ peerTime' = peerTime
      BY <1>5, <2>2 DEF PeerSends
    <3>2. BitLength(peerBit + 1, peerTime) \in 0 .. StopTime(peerTime)
      BY <1>1, <1>2 DEF BitLength
    <3> QED BY <1>1, <2>2, <3>1, <3>2, Params
  <2> QED BY <2>1, <2>2
<1> QED BY <1>3, <1>4, <1>5 DEF PeerEdge

LEMMA EarTypes ==
  ASSUME TypeOK, NEW restart \in BOOLEAN, EarEdge(restart)
  PROVE  /\ ear' \in 0 .. Last /\ heard' \in Nat
         /\ earWord' \in AllWords /\ heardWord' \in AllWords \cup {Nil}
<1>1. /\ ear \in 0 .. Last /\ heard \in Nat /\ txPin \in {0, 1}
      /\ earWord \in AllWords /\ heardWord \in AllWords \cup {Nil}
  BY DEF TypeOK, Last
<1>2. Last \in Nat
  BY Places, Params DEF Last
<1>3. ear' \in 0 .. Last
  BY <1>1, <1>2 DEF EarEdge, Last
<1>4. heard' \in Nat
  BY <1>1 DEF EarEdge
<1>5. earWord' \in AllWords
  BY <1>1 DEF EarEdge, AllWords
<1>6. heardWord' \in AllWords \cup {Nil}
  BY <1>1 DEF EarEdge
<1> QED BY <1>3, <1>4, <1>5, <1>6

LEMMA PastTypes ==
  ASSUME TypeOK, NEW loads \in BOOLEAN, PastEdge(loads)
  PROVE  lastSent' \in Words \cup {Nil} /\ {owed', unread'} \subseteq BOOLEAN
BY DEF TypeOK, PastEdge, StopBegins, Completes

(* Every step of the program is an edge, with at most one store.           *)
LEMMA NextEdge ==
  ASSUME TypeOK, WordsOK, Next
  PROVE  \E store \in Stores, loads \in BOOLEAN : Edge(store, loads)
<1>1. NoStore \in Stores
  BY DEF Stores
<1>2. \A f \in Flags : StoreCfg(f) \in Stores
  BY DEF Stores
<1>3. held \in Flags
  BY DEF TypeOK
<1>4. CASE Wait
  BY <1>1, <1>4 DEF Wait
<1>5. CASE Begin
  BY <1>1, <1>5 DEF Begin
<1>6. CASE PutWord
  <2>1. StoreTdr(want) \in Stores
    BY <1>6 DEF PutWord, Access, WordsOK, Stores
  <2> QED BY <1>6, <2>1 DEF PutWord, Access
<1>7. CASE LoadForStart \/ Poll \/ LoadForClear \/ Look \/ LoadForAck
  BY <1>1, <1>7
  DEF LoadForStart, Poll, LoadForClear, Look, LoadForAck, LoadCfg, Access
<1>8. CASE Start
  <2>1. [held EXCEPT !.en = TRUE] \in Flags
    BY <1>3 DEF Flags
  <2> QED BY <1>2, <1>8, <2>1 DEF Start, WriteCfg, Access
<1>9. CASE ClearTx
  <2>1. [held EXCEPT !.tx = FALSE] \in Flags
    BY <1>3 DEF Flags
  <2> QED BY <1>2, <1>9, <2>1 DEF ClearTx, WriteCfg, Access
<1>10. CASE ClearRx
  <2>1. [held EXCEPT !.rx = FALSE] \in Flags
    BY <1>3 DEF Flags
  <2> QED BY <1>2, <1>10, <2>1 DEF ClearRx, WriteCfg, Access
<1>11. CASE Sent
  BY <1>1, <1>11 DEF Sent
<1>12. CASE LoadRdr
  BY <1>1, <1>12 DEF LoadRdr, Access
<1> QED BY <1>4, <1>5, <1>6, <1>7, <1>8, <1>9, <1>10, <1>11, <1>12
        DEF Next, Program

LEMMA ProgTypes ==
  ASSUME TypeOK, Next
  PROVE  /\ program' \in Programs
         /\ pc' \in {"idle", "tdr", "rdStart", "start", "poll", "rdClear",
                     "clear", "sent", "look", "rdr", "rdAck", "ack"}
         /\ gap' \in 0 .. MinGap - 1 /\ held' \in Flags
         /\ want' \in Words \cup {Nil} /\ got' \in AllWords \cup {Nil}
         /\ pc' = "tdr" => want' \in Words \/ (pc = "tdr" /\ want' = want)
<1>1. /\ program \in Programs
      /\ pc \in {"idle", "tdr", "rdStart", "start", "poll", "rdClear",
                 "clear", "sent", "look", "rdr", "rdAck", "ack"}
      /\ gap \in 0 .. MinGap - 1 /\ held \in Flags
      /\ want \in Words \cup {Nil} /\ got \in AllWords \cup {Nil}
      /\ rdr \in AllWords
  BY DEF TypeOK
<1>2. Cfg \in Flags
  <2>1. txFlag \in BOOLEAN /\ rxFlag \in BOOLEAN /\ en \in BOOLEAN
    BY DEF TypeOK
  <2> QED BY <2>1 DEF Cfg, Flags
<1> USE DEF Elapse
<1>3. CASE Wait
  BY <1>1, <1>3, Params DEF Wait
<1>4. CASE Begin
  BY <1>1, <1>4, Params DEF Begin
<1>5. CASE Sent
  BY <1>1, <1>5, Params DEF Sent
<1>6. CASE PutWord \/ LoadRdr
  BY <1>1, <1>6, Params DEF PutWord, LoadRdr, Access
<1>7. CASE LoadForStart \/ LoadForClear \/ LoadForAck
  BY <1>1, <1>2, <1>7, Params
  DEF LoadForStart, LoadForClear, LoadForAck, LoadCfg, Access
<1>8. CASE Poll \/ Look
  BY <1>1, <1>2, <1>8, Params DEF Poll, Look, LoadCfg, Access
<1>9. CASE Start \/ ClearTx \/ ClearRx
  BY <1>1, <1>9, Params DEF Start, ClearTx, ClearRx, WriteCfg, Access
<1> QED BY <1>3, <1>4, <1>5, <1>6, <1>7, <1>8, <1>9 DEF Next, Program

TypeInv == TypeOK /\ WordsOK

LEMMA TypeInit == Init => TypeInv
<1> SUFFICES ASSUME Init PROVE TypeInv
  OBVIOUS
<1>1. ZeroWord \in AllWords
  BY DEF ZeroWord, AllWords
<1>2. held \in Flags
  BY DEF Init, Flags
<1>3. Middle(DataBits + 1) \in Nat
  BY Places, Params
<1>4. peerTime \in Nat /\ StopTime(peerTime) \in Nat
  BY StopTimes, UartAssumption DEF Init
<1>5. {en, txRst, rxRst, txFlag, rxFlag, fired, txDone, rxDone, owed,
       unread} \subseteq BOOLEAN
  BY DEF Init
<1>6. {tdr, txData, rxData, rdr, earWord} \subseteq AllWords
  BY <1>1 DEF Init
<1>7. peerCnt \in 0 .. StopTime(peerTime) \cup 1 .. Prescaler
  BY <1>4 DEF Init
<1>8. TypeOK
  BY <1>2, <1>3, <1>5, <1>6, <1>7, Params DEF Init, TypeOK
<1> QED BY <1>8 DEF Init, TypeInv, WordsOK

LEMMA TypeStep ==
  ASSUME TypeInv, [Next]_vars
  PROVE  TypeInv'
<1>1. CASE Next
  <2>1. PICK store \in Stores, loads \in BOOLEAN : Edge(store, loads)
    BY <1>1, NextEdge DEF TypeInv
  <2>2. (store.reg = "TDR") \in BOOLEAN
    OBVIOUS
  <2>3. /\ TxEdge /\ RxEdge /\ RegsEdge(store) /\ PeerEdge
        /\ EarEdge(store.reg = "TDR") /\ PastEdge(loads)
    BY <2>1 DEF Edge
  <2>4. /\ {fired', txDone'} \subseteq BOOLEAN
        /\ txData' \in AllWords /\ txState' \in {"IDLE", "START", "DATA", "STOP"}
        /\ txCnt' \in 0 .. StopTime(Prescaler) - 1
        /\ txBit' \in 0 .. DataBits - 1 /\ txPin' \in {0, 1}
    BY <2>3, TxTypes DEF TypeInv
  <2>5. /\ rxDone' \in BOOLEAN
        /\ rxData' \in AllWords /\ rdr' \in AllWords
        /\ rxState' \in {"IDLE", "START", "DATA", "STOP"}
        /\ rxCnt' \in 0 .. StopTime(Prescaler) - 1
        /\ rxBit' \in 0 .. DataBits - 1
        /\ sync0' \in {0, 1} /\ sync1' \in {0, 1}
    BY <2>3, RxTypes DEF TypeInv
  <2>6. /\ tdr' \in AllWords
        /\ {en', txRst', rxRst', txFlag', rxFlag'} \subseteq BOOLEAN
    BY <2>3, RegsTypes DEF TypeInv
  <2>7. /\ peerWord' \in Words \cup {Nil} /\ peerTime' \in BitTimes
        /\ peerBit' \in 0 .. DataBits + 1
        /\ peerCnt' \in 0 .. StopTime(peerTime') \cup 1 .. Prescaler
        /\ peerBit' > 0 => peerWord' \in Words
    BY <2>3, PeerTypes DEF TypeInv
  <2>8. /\ ear' \in 0 .. Middle(DataBits + 1) /\ heard' \in Nat
        /\ earWord' \in AllWords /\ heardWord' \in AllWords \cup {Nil}
    BY <2>2, <2>3, EarTypes DEF TypeInv, Last
  <2>9. lastSent' \in Words \cup {Nil} /\ {owed', unread'} \subseteq BOOLEAN
    BY <2>3, PastTypes DEF TypeInv
  <2>10. /\ program' \in Programs
         /\ pc' \in {"idle", "tdr", "rdStart", "start", "poll", "rdClear",
                      "clear", "sent", "look", "rdr", "rdAck", "ack"}
         /\ gap' \in 0 .. MinGap - 1 /\ held' \in Flags
         /\ want' \in Words \cup {Nil} /\ got' \in AllWords \cup {Nil}
         /\ pc' = "tdr" => want' \in Words \/ (pc = "tdr" /\ want' = want)
    BY <1>1, ProgTypes DEF TypeInv
  <2>11. TypeOK'
    BY <2>4, <2>5, <2>6, <2>7, <2>8, <2>9, <2>10, Zenon DEF TypeOK
  <2>12. WordsOK'
    BY <2>7, <2>10 DEF TypeInv, WordsOK
  <2> QED BY <2>11, <2>12 DEF TypeInv
<1>2. CASE UNCHANGED vars
  BY <1>2 DEF vars, regVars, txVars, rxVars, peerVars, earVars, pastVars,
              progVars, TypeInv, TypeOK, WordsOK
<1> QED BY <1>1, <1>2

(* Registers, bit machines, the other end and the program keep their types.*)
THEOREM TypeCorrect == Spec => []TypeOK
<1>1. TypeInv => TypeOK
  BY DEF TypeInv
<1> QED BY <1>1, TypeInit, TypeStep, PTL DEF Spec

-----------------------------------------------------------------------------
(* The transmitter at an edge without and with a store to UART_CFG.        *)
LEMMA TxQuietEdge ==
  ASSUME TypeOK, TxEdge, NEW store, RegsEdge(store), store.reg # "CFG"
  PROVE  /\ ~txRst' /\ txFlag' = txDone
         /\ ~en => ~en'
         /\ txFlag => ~en'
         /\ Rearmed /\ ~en => Idle'
         /\ Idle /\ ~en => Ready'
         /\ Ready /\ en => AtWork'
         /\ AtWork => AtWork' \/ (Finished' /\ ~txFlag')
         /\ Finished => Finished' /\ txFlag'
<1>1. txState \in {"IDLE", "START", "DATA", "STOP"}
  BY DEF TypeOK
<1>2. {fired, txDone, txRst, en, txFlag} \subseteq BOOLEAN
  BY DEF TypeOK
<1>3. /\ ~txRst' /\ txFlag' = txDone
      /\ en' <=> ~txFlag /\ en
  BY <1>2 DEF RegsEdge
<1>4. CASE txState = "IDLE"
  <2>1. TxIdle
    BY <1>4 DEF TxEdge, TxStart, TxData, TxStop
  <2>2. /\ txDone' <=> txDone /\ ~txRst
        /\ en /\ ~fired /\ ~txDone => fired' /\ txState' = "START"
        /\ ~(en /\ ~fired /\ ~txDone) => /\ fired' <=> fired /\ ~txRst
                                         /\ txState' = "IDLE"
    BY <2>1, <1>4 DEF TxIdle, Clear
  <2>3. Rearmed /\ ~en => Idle'
    BY <2>2 DEF Rearmed, Idle
  <2>4. Idle /\ ~en => Ready'
    BY <2>2, <1>3 DEF Idle, Ready
  <2>5. Ready /\ en => AtWork'
    BY <2>2, <1>3 DEF Ready, Idle, AtWork
  <2>6. Finished => Finished' /\ txFlag'
    BY <2>2, <1>3 DEF Finished
  <2>7. ~AtWork
    BY <1>4 DEF AtWork
  <2> QED BY <1>3, <2>3, <2>4, <2>5, <2>6, <2>7
<1>5. CASE txState # "IDLE"
  <2>1. TxStart \/ TxData \/ TxStop
    BY <1>5 DEF TxEdge, TxIdle
  <2>2. /\ fired' <=> fired /\ ~txRst
        /\ \/ txState' # "IDLE" /\ (txDone' <=> txDone /\ ~txRst)
           \/ txState' = "IDLE" /\ txDone'
    <3>1. CASE TxStart
      BY <3>1 DEF TxStart, Clear
    <3>2. CASE TxData
      BY <3>2 DEF TxData, Clear
    <3>3. CASE TxStop
      BY <3>3 DEF TxStop, Clear
    <3> QED BY <2>1, <3>1, <3>2, <3>3
  <2>3. AtWork => AtWork' \/ (Finished' /\ ~txFlag')
    BY <2>2, <1>3 DEF AtWork, Finished
  <2> QED BY <1>3, <1>5, <2>3 DEF Rearmed, Idle, Ready, Finished
<1> QED BY <1>4, <1>5

LEMMA TxCfgEdge ==
  ASSUME TypeOK, TxEdge, NEW flags \in Flags, RegsEdge(StoreCfg(flags)), ~en
  PROVE  /\ Ready => Ready' /\ (en' <=> flags.en)
         /\ Finished /\ ~flags.tx /\ ~flags.en => Rearmed' /\ ~en'
<1>1. {fired, txDone, txRst, en, txFlag} \subseteq BOOLEAN
  BY DEF TypeOK
<1>2. /\ txFlag' = txDone
      /\ txRst' <=> ~flags.tx
      /\ en' <=> ~txFlag /\ flags.en
  BY <1>1 DEF RegsEdge, StoreCfg
<1>3. CASE txState = "IDLE"
  <2>1. TxIdle
    BY <1>3 DEF TxEdge, TxStart, TxData, TxStop
  <2>2. /\ txDone' <=> txDone /\ ~txRst
        /\ fired' <=> fired /\ ~txRst
        /\ txState' = "IDLE"
    BY <2>1, <1>3 DEF TxIdle, Clear
  <2>3. Ready => Ready' /\ (en' <=> flags.en)
    BY <2>2, <1>2 DEF Ready, Idle
  <2>4. Finished /\ ~flags.tx /\ ~flags.en => Rearmed' /\ ~en'
    BY <2>2, <1>2 DEF Finished, Rearmed
  <2> QED BY <2>3, <2>4
<1>4. CASE txState # "IDLE"
  BY <1>4 DEF Ready, Idle, Finished
<1> QED BY <1>3, <1>4

LEMMA TxPhaseStep ==
  ASSUME TypeInv, TxPhase, Next
  PROVE  TxPhase'
<1> USE DEF TypeInv
<1>1. pc \in {"idle", "tdr", "rdStart", "start", "poll", "rdClear", "clear",
              "sent", "look", "rdr", "rdAck", "ack"}
  BY DEF TypeOK
<1>2. Ready => Idle
  BY DEF Ready
<1>3. held \in Flags
  BY DEF TypeOK
<1>4. NoStore.reg # "CFG" /\ \A w : StoreTdr(w).reg # "CFG"
  BY DEF NoStore, StoreTdr
<1>5. CASE Wait
  <2>1. TxEdge /\ RegsEdge(NoStore) /\ pc' = pc /\ held' = held
    BY <1>5 DEF Wait, Edge
  <2>2. /\ ~en => ~en'
        /\ Rearmed /\ ~en => Idle'
        /\ Idle /\ ~en => Ready'
        /\ Ready /\ en => AtWork'
        /\ AtWork => AtWork' \/ Finished'
        /\ Finished => Finished'
    BY <1>4, <2>1, TxQuietEdge
  <2>3. Ready' => Idle'
    BY DEF Ready
  <2>4. Idle' => Rearmed'
    BY DEF Idle, Rearmed
  <2>5. CASE pc = "poll"
    BY <2>1, <2>2, <2>5 DEF TxPhase
  <2>6. CASE pc \in {"rdClear", "clear"}
    BY <2>1, <2>2, <2>6 DEF TxPhase
  <2>7. CASE pc \in {"sent", "idle"}
    BY <1>2, <2>1, <2>2, <2>3, <2>4, <2>7 DEF TxPhase
  <2>8. CASE pc \in {"tdr", "rdStart", "start", "look", "rdr", "rdAck", "ack"}
    BY <1>2, <2>1, <2>2, <2>8 DEF TxPhase
  <2> QED BY <1>1, <2>5, <2>6, <2>7, <2>8
<1>6. CASE Begin
  <2>1. /\ TxEdge /\ RegsEdge(NoStore) /\ pc = "idle"
        /\ pc' \in {"tdr", "look"}
    BY <1>6 DEF Begin, Edge
  <2> QED BY <1>4, <2>1, TxQuietEdge DEF TxPhase
<1>7. CASE Sent
  <2>1. TxEdge /\ RegsEdge(NoStore) /\ pc = "sent" /\ pc' = "idle"
    BY <1>7 DEF Sent, Edge
  <2> QED BY <1>4, <2>1, TxQuietEdge DEF TxPhase
<1>8. CASE PutWord
  <2>1. /\ TxEdge /\ RegsEdge(StoreTdr(want)) /\ pc = "tdr"
        /\ pc' = "rdStart"
    BY <1>8 DEF PutWord, Access, Edge
  <2> QED BY <1>2, <1>4, <2>1, TxQuietEdge DEF TxPhase
<1>9. CASE LoadForStart \/ Look \/ LoadRdr
  <2>1. /\ TxEdge /\ RegsEdge(NoStore) /\ pc \in {"rdStart", "look", "rdr"}
        /\ pc' \in {"start", "rdr", "idle", "rdAck"}
    BY <1>9 DEF LoadForStart, Look, LoadRdr, LoadCfg, Access, Edge
  <2> QED BY <1>2, <1>4, <2>1, TxQuietEdge DEF TxPhase, Ready
<1>10. CASE LoadForClear \/ LoadForAck
  <2>1. /\ TxEdge /\ RegsEdge(NoStore) /\ held' = Cfg
        /\ \/ pc = "rdClear" /\ pc' = "clear"
           \/ pc = "rdAck" /\ pc' = "ack"
    BY <1>10 DEF LoadForClear, LoadForAck, LoadCfg, Access, Edge
  <2>2. ~en /\ ~held'.en
    BY <2>1 DEF TxPhase, Cfg
  <2> QED BY <1>2, <1>4, <2>1, <2>2, TxQuietEdge DEF TxPhase
<1>11. CASE Start
  <2>1. /\ TxEdge /\ RegsEdge(StoreCfg([held EXCEPT !.en = TRUE]))
        /\ pc = "start" /\ pc' = "poll"
    BY <1>11 DEF Start, WriteCfg, Access, Edge
  <2>2. [held EXCEPT !.en = TRUE] \in Flags /\ [held EXCEPT !.en = TRUE].en
    BY <1>3 DEF Flags
  <2> QED BY <2>1, <2>2, TxCfgEdge DEF TxPhase
<1>12. CASE Poll
  <2>1. /\ TxEdge /\ RegsEdge(NoStore) /\ pc = "poll"
        /\ pc' = IF txFlag THEN "rdClear" ELSE "poll"
    BY <1>12 DEF Poll, LoadCfg, Access, Edge
  <2>2. CASE txFlag
    <3>1. Finished
      BY <2>1, <2>2 DEF TxPhase, Ready, AtWork
    <3> QED BY <1>4, <2>1, <2>2, <3>1, TxQuietEdge DEF TxPhase
  <2>3. CASE ~txFlag
    BY <1>4, <2>1, <2>3, TxQuietEdge DEF TxPhase
  <2> QED BY <2>2, <2>3
<1>13. CASE ClearTx
  <2>1. /\ TxEdge /\ RegsEdge(StoreCfg([held EXCEPT !.tx = FALSE]))
        /\ pc = "clear" /\ pc' = "sent"
    BY <1>13 DEF ClearTx, WriteCfg, Access, Edge
  <2>2. /\ [held EXCEPT !.tx = FALSE] \in Flags
        /\ ~[held EXCEPT !.tx = FALSE].tx
        /\ [held EXCEPT !.tx = FALSE].en = held.en
    BY <1>3 DEF Flags
  <2> QED BY <2>1, <2>2, TxCfgEdge DEF TxPhase
<1>14. CASE ClearRx
  <2>1. /\ TxEdge /\ RegsEdge(StoreCfg([held EXCEPT !.rx = FALSE]))
        /\ pc = "ack" /\ pc' = "idle"
    BY <1>14 DEF ClearRx, WriteCfg, Access, Edge
  <2>2. /\ [held EXCEPT !.rx = FALSE] \in Flags
        /\ [held EXCEPT !.rx = FALSE].en = held.en
    BY <1>3 DEF Flags
  <2> QED BY <2>1, <2>2, TxCfgEdge DEF TxPhase, Ready
<1> QED BY <1>5, <1>6, <1>7, <1>8, <1>9, <1>10, <1>11, <1>12, <1>13, <1>14
        DEF Next, Program

TxInv == TypeInv /\ TxPhase

LEMMA TxUnchanged == TxInv /\ UNCHANGED vars => TxInv'
<1> SUFFICES ASSUME TxInv, UNCHANGED vars PROVE TxInv'
  OBVIOUS
<1>1. TypeInv'
  BY TypeStep DEF TxInv
<1>2. TxPhase'
  BY DEF TxInv, TxPhase, Ready, Idle, AtWork, Finished, Rearmed,
         vars, regVars, txVars, progVars
<1> QED BY <1>1, <1>2 DEF TxInv

LEMMA TxAlways == Spec => []TxInv
<1>1. Init => TxInv
  <2>1. Init => TxPhase
    BY DEF Init, TxPhase, Idle
  <2> QED BY <2>1, TypeInit DEF TxInv
<1>2. TxInv /\ [Next]_vars => TxInv'
  BY TypeStep, TxPhaseStep, TxUnchanged DEF TxInv
<1> QED BY <1>1, <1>2, PTL DEF Spec

(* While putchar polls, the transmitter is about to start, at work or done *)
(* and holding its flag: the poll is answered.                             *)
THEOREM PollsAnswered == Spec => []PollIsAnswered
<1>1. TxInv => PollIsAnswered
  BY DEF TxInv, TxPhase, PollIsAnswered, Ready, Idle, AtWork, Finished
<1> QED BY <1>1, TxAlways, PTL

-----------------------------------------------------------------------------
(* The flag of the receiver and the reception it stands for.               *)
LEMMA RxFlagEdge ==
  ASSUME TypeOK, RxEdge, NEW loads \in BOOLEAN, PastEdge(loads),
         NEW store, RegsEdge(store)
  PROVE  /\ rxFlag' = rxDone
         /\ store.reg # "CFG" => ~rxRst'
         /\ rxRst' => store.reg = "CFG"
         /\ store.reg = "CFG" => (rxRst' <=> ~store.flags.rx)
         /\ IF Completes /\ sync1 = 1 THEN rxDone' /\ unread'
            ELSE (rxDone' <=> rxDone /\ ~rxRst) /\ (unread' <=> unread /\ ~loads)
<1>1. {rxDone, rxRst, unread} \subseteq BOOLEAN
  BY DEF TypeOK
<1>2. /\ rxFlag' = rxDone
      /\ rxRst' <=> store.reg = "CFG" /\ ~store.flags.rx
  BY DEF RegsEdge
<1>3. unread' <=> (Completes /\ sync1 = 1) \/ (unread /\ ~loads)
  BY DEF PastEdge
<1>4. IF Completes /\ sync1 = 1 THEN rxDone' ELSE rxDone' <=> rxDone /\ ~rxRst
  <2>1. CASE RxIdle
    BY <2>1 DEF RxIdle, Completes
  <2>2. CASE RxStart
    BY <2>2 DEF RxStart, Completes
  <2>3. CASE RxData
    BY <2>3 DEF RxData, Completes
  <2>4. CASE RxStop
    <3>1. CASE rxCnt < StopTime(Prescaler) - 1
      BY <2>4, <3>1 DEF RxStop, Completes
    <3>2. CASE ~(rxCnt < StopTime(Prescaler) - 1)
      BY <2>4, <3>2 DEF RxStop, Completes
    <3> QED BY <3>1, <3>2
  <2> QED BY <2>1, <2>2, <2>3, <2>4 DEF RxEdge
<1> QED BY <1>1, <1>2, <1>3, <1>4

(* A program step without an access.                                       *)
LEMMA RxPhaseRest ==
  ASSUME MinGap >= 3, TypeOK, RxPhase, Edge(NoStore, FALSE), Elapse,
         pc' = pc \/ (pc \notin {"rdAck", "ack"} /\ pc' # "rdr")
  PROVE  RxPhase'
<1>1. {rxDone, rxRst, unread, rxFlag} \subseteq BOOLEAN /\ gap \in 0 .. MinGap - 1
  BY DEF TypeOK
<1>2. NoStore.reg # "CFG"
  BY DEF NoStore
<1>3. RxEdge /\ PastEdge(FALSE) /\ RegsEdge(NoStore)
  BY DEF Edge
<1>4. /\ rxFlag' = rxDone /\ ~rxRst'
      /\ rxDone' /\ ~unread' => rxDone /\ ~rxRst /\ ~unread
      /\ unread => unread'
  BY <1>2, <1>3, RxFlagEdge
<1>5. rxDone' /\ ~unread' => pc' \in {"rdAck", "ack"}
  BY <1>4 DEF RxPhase
<1>6. rxFlag' /\ ~unread' => pc' \in {"rdAck", "ack"} \/ gap' > 0
  <2>1. rxRst => gap' > 0
    BY <1>1, Params DEF RxPhase, Elapse
  <2> QED BY <1>4, <2>1 DEF RxPhase
<1>7. pc' = "rdr" => unread'
  BY <1>4 DEF RxPhase
<1> QED BY <1>4, <1>5, <1>6, <1>7 DEF RxPhase

(* A program step with an access.                                          *)
LEMMA RxPhaseAccess ==
  ASSUME MinGap >= 3, TypeOK, RxPhase, NEW from, NEW to, NEW store,
         Access(from, to, store),
         from = "rdr" => to = "rdAck",
         from = "rdAck" => to = "ack",
         from = "ack" => store.reg = "CFG" /\ ~store.flags.rx,
         to = "rdr" => from = "look" /\ rxFlag
  PROVE  RxPhase'
<1>1. {rxDone, rxRst, unread, rxFlag} \subseteq BOOLEAN
  BY DEF TypeOK
<1>2. gap = 0 /\ gap' = MinGap - 1 /\ gap' > 0 /\ pc = from /\ pc' = to
  BY Params DEF Access
<1>3. RxEdge /\ PastEdge(from = "rdr") /\ RegsEdge(store)
  BY DEF Access, Edge
<1>4. ~rxRst
  BY <1>2 DEF RxPhase
<1>5. (from = "rdr") \in BOOLEAN
  OBVIOUS
<1>6. /\ store.reg = "CFG" /\ ~store.flags.rx => rxRst'
      /\ rxDone' /\ ~unread' => rxDone /\ (~unread \/ from = "rdr")
      /\ unread /\ from # "rdr" => unread'
  BY <1>3, <1>5, RxFlagEdge
<1>7. rxDone' /\ ~unread' => pc' \in {"rdAck", "ack"} \/ rxRst'
  BY <1>2, <1>4, <1>6 DEF RxPhase
<1>8. pc' = "rdr" => unread'
  BY <1>2, <1>4, <1>6 DEF RxPhase
<1> QED BY <1>2, <1>7, <1>8 DEF RxPhase

LEMMA RxPhaseStep ==
  ASSUME MinGap >= 3, TypeOK, RxPhase, Next
  PROVE  RxPhase'
<1>1. CASE Wait
  BY <1>1, RxPhaseRest DEF Wait
<1>2. CASE Begin
  <2>1. Edge(NoStore, FALSE) /\ Elapse /\ pc = "idle" /\ pc' \in {"tdr", "look"}
    BY <1>2 DEF Begin
  <2> QED BY <2>1, RxPhaseRest
<1>3. CASE Sent
  BY <1>3, RxPhaseRest DEF Sent
<1>4. CASE PutWord
  BY <1>4, RxPhaseAccess DEF PutWord
<1>5. CASE LoadForStart \/ LoadForClear \/ LoadForAck
  BY <1>5, RxPhaseAccess DEF LoadForStart, LoadForClear, LoadForAck, LoadCfg
<1>6. CASE Poll
  <2>1. PICK to \in {"rdClear", "poll"} : Access("poll", to, NoStore)
    BY <1>6 DEF Poll, LoadCfg
  <2> QED BY <2>1, RxPhaseAccess
<1>7. CASE Look
  <2>1. CASE rxFlag
    BY <1>7, <2>1, RxPhaseAccess DEF Look, LoadCfg
  <2>2. CASE ~rxFlag
    BY <1>7, <2>2, RxPhaseAccess DEF Look, LoadCfg
  <2> QED BY <2>1, <2>2
<1>8. CASE LoadRdr
  BY <1>8, RxPhaseAccess DEF LoadRdr
<1>9. CASE Start \/ ClearTx
  BY <1>9, RxPhaseAccess DEF Start, ClearTx, WriteCfg
<1>10. CASE ClearRx
  <2>1. held \in Flags
    BY DEF TypeOK
  <2>2. /\ StoreCfg([held EXCEPT !.rx = FALSE]).reg = "CFG"
        /\ ~StoreCfg([held EXCEPT !.rx = FALSE]).flags.rx
    BY <2>1 DEF StoreCfg, Flags
  <2> QED BY <1>10, <2>2, RxPhaseAccess DEF ClearRx, WriteCfg
<1> QED BY <1>1, <1>2, <1>3, <1>4, <1>5, <1>6, <1>7, <1>8, <1>9, <1>10
        DEF Next, Program

RxInv == TypeInv /\ RxPhase

LEMMA RxAlways ==
  ASSUME MinGap >= 3
  PROVE  Spec => []RxInv
<1>1. Init => RxInv
  <2>1. Init => RxPhase
    BY DEF Init, RxPhase
  <2> QED BY <2>1, TypeInit DEF RxInv
<1>2. RxInv /\ [Next]_vars => RxInv'
  <2> SUFFICES ASSUME RxInv, [Next]_vars PROVE RxInv'
    OBVIOUS
  <2>1. TypeInv'
    BY TypeStep DEF RxInv
  <2>2. CASE Next
    BY <2>1, <2>2, RxPhaseStep DEF RxInv, TypeInv
  <2>3. CASE UNCHANGED vars
    BY <2>1, <2>3
    DEF RxInv, RxPhase, vars, regVars, rxVars, pastVars, progVars
  <2> QED BY <2>2, <2>3
<1> QED BY <1>1, <1>2, PTL DEF Spec

(* The program never takes the same reception twice, provided its accesses *)
(* are three cycles apart: what a reset pulse clears is down by the next.  *)
THEOREM NeverTakenTwice ==
  ASSUME MinGap >= 3
  PROVE  Spec => []TakenOnce
<1>1. RxInv => TakenOnce
  BY DEF RxInv, RxPhase, TakenOnce
<1> QED BY <1>1, RxAlways, PTL

-----------------------------------------------------------------------------
(* The receiver takes its time for a frame.                                *)
LEMMA AgeStep ==
  ASSUME TypeOK, StartBit, RxEdge
  PROVE  /\ StartBit' /\ Age \in Nat /\ Age' \in Nat /\ Age' <= Age + 1
         /\ Completes => Age' = 0 /\ Age >= FrameTime
<1>1. /\ rxCnt \in 0 .. StopTime(Prescaler) - 1 /\ rxBit \in 0 .. DataBits - 1
      /\ rxState \in {"IDLE", "START", "DATA", "STOP"}
  BY DEF TypeOK
<1>2. /\ rxBit * Prescaler \in Nat /\ DataBits * Prescaler \in Nat
      /\ (rxBit + 1) * Prescaler = rxBit * Prescaler + Prescaler
      /\ 0 * Prescaler = 0
  BY <1>1, Places, Params
<1>3. CASE RxIdle
  BY <1>1, <1>3 DEF RxIdle, Age, StartBit, Completes
<1>4. CASE RxStart
  <2>1. rxBit' = 0 /\ rxState = "START" /\ Age = rxCnt + 1
    BY <1>4 DEF RxStart, StartBit, Age
  <2>2. CASE sync1 = 1
    BY <1>1, <1>4, <2>1, <2>2 DEF RxStart, Age, StartBit, Completes
  <2>3. CASE sync1 # 1 /\ rxCnt >= Half
    <3>1. rxCnt' = Half /\ rxState' = "DATA"
      BY <1>4, <2>3 DEF RxStart, Half
    <3>2. Age' = Half + 2
      BY <1>2, <2>1, <3>1, Params DEF Age
    <3> QED BY <1>1, <2>1, <2>3, <3>1, <3>2, Params DEF StartBit, Completes
  <2>4. CASE sync1 # 1 /\ ~(rxCnt >= Half)
    <3>1. rxCnt' = rxCnt + 1 /\ rxState' = "START"
      BY <1>4, <2>4 DEF RxStart, Half
    <3> QED BY <1>1, <2>1, <3>1 DEF Age, StartBit, Completes
  <2> QED BY <2>2, <2>3, <2>4
<1>5. CASE RxData
  <2>1. rxState = "DATA" /\ Age = rxBit * Prescaler + rxCnt + 2
    BY <1>5 DEF RxData, Age
  <2>2. CASE rxCnt < Prescaler - 1
    <3>1. rxCnt' = rxCnt + 1 /\ rxBit' = rxBit /\ rxState' = "DATA"
      BY <1>5, <2>2 DEF RxData
    <3> QED BY <1>1, <1>2, <2>1, <3>1 DEF Age, StartBit, Completes
  <2>3. CASE ~(rxCnt < Prescaler - 1) /\ rxBit < DataBits - 1
    <3>1. rxCnt' = 0 /\ rxBit' = rxBit + 1 /\ rxState' = "DATA"
      BY <1>5, <2>3 DEF RxData
    <3>2. Age' = rxBit * Prescaler + Prescaler + 2
      BY <1>1, <1>2, <3>1, Params DEF Age
    <3> QED BY <1>1, <1>2, <2>1, <2>3, <3>1, <3>2, Params DEF StartBit, Completes
  <2>4. CASE ~(rxCnt < Prescaler - 1) /\ ~(rxBit < DataBits - 1)
    <3>1. rxCnt' = 0 /\ rxBit' = 0 /\ rxState' = "STOP" /\ rxBit + 1 = DataBits
      BY <1>1, <1>5, <2>4, Params DEF RxData
    <3>2. Age' = rxBit * Prescaler + Prescaler + 2
      BY <1>1, <1>2, <3>1, Params DEF Age
    <3> QED BY <1>1, <1>2, <2>1, <2>4, <3>1, <3>2, Params DEF StartBit, Completes
  <2> QED BY <2>2, <2>3, <2>4
<1>6. CASE RxStop
  <2>1. rxState = "STOP" /\ Age = DataBits * Prescaler + rxCnt + 2
    BY <1>6 DEF RxStop, Age
  <2>2. CASE rxCnt < StopTime(Prescaler) - 1
    <3>1. rxCnt' = rxCnt + 1 /\ rxState' = "STOP"
      BY <1>6, <2>1, <2>2 DEF RxStop
    <3> QED BY <1>1, <1>2, <2>1, <3>1 DEF Age, StartBit, Completes
  <2>3. CASE ~(rxCnt < StopTime(Prescaler) - 1)
    <3>1. rxCnt = StopTime(Prescaler) - 1 /\ rxState' = "IDLE"
      BY <1>1, <1>6, <2>3, Params DEF RxStop
    <3> QED BY <1>1, <1>2, <2>1, <3>1, Params
            DEF Age, StartBit, Completes, FrameTime
  <2> QED BY <2>2, <2>3
<1> QED BY <1>3, <1>4, <1>5, <1>6 DEF RxEdge

(* A listening program reads a word and clears its flag before the next    *)
(* word is complete.                                                       *)
KeepsUp == MinGap >= 3 /\ FrameTime > 4 * MinGap + 1
ListenInv == RxInv /\ StartBit /\ ListenPhase

(* What an edge does to the ages and flags of a listener.                  *)
LEMMA ListenEdge ==
  ASSUME KeepsUp, ListenInv, program = "listen",
         NEW loads \in BOOLEAN, NEW store, Edge(store, loads)
  PROVE  /\ Age \in Nat /\ Age' \in Nat /\ Age' <= Age + 1
         /\ Completes => Age' = 0 /\ Age > 4 * MinGap + 1
         /\ unread => rxDone
         /\ unread' => rxDone'
         /\ unread' => (Completes \/ (unread /\ ~loads))
         /\ rxFlag' = rxDone
         /\ store.reg # "CFG" => ~rxRst'
<1>1. TypeOK /\ RxPhase /\ StartBit /\ ListenPhase
  BY DEF ListenInv, RxInv, TypeInv
<1>2. RxEdge /\ PastEdge(loads) /\ RegsEdge(store)
  BY DEF Edge
<1>3. /\ Age \in Nat /\ Age' \in Nat /\ Age' <= Age + 1
      /\ Completes => Age' = 0 /\ Age >= FrameTime
  BY <1>1, <1>2, AgeStep
<1>4. FrameTime \in Nat
  BY Places, Params DEF FrameTime
<1>5. Completes => Age > 4 * MinGap + 1
  BY <1>3, <1>4, Params DEF KeepsUp
<1>6. {unread, rxDone, rxRst} \subseteq BOOLEAN
  BY <1>1 DEF TypeOK
<1>7. /\ rxFlag' = rxDone
      /\ store.reg # "CFG" => ~rxRst'
      /\ IF Completes /\ sync1 = 1 THEN rxDone' /\ unread'
         ELSE (rxDone' <=> rxDone /\ ~rxRst) /\ (unread' <=> unread /\ ~loads)
  BY <1>1, <1>2, RxFlagEdge
<1>8. (unread => rxDone) /\ (rxRst => ~unread)
  BY <1>1 DEF ListenPhase
<1>9. unread' => rxDone'
  BY <1>7, <1>8
<1>10. unread' => (Completes \/ (unread /\ ~loads))
  BY <1>7
<1> QED BY <1>3, <1>5, <1>7, <1>8, <1>9, <1>10

(* Sums of ages and gaps, for the steps below.                              *)
LEMMA Sums ==
  ASSUME NEW age \in Nat, NEW next \in Nat, next <= age + 1,
         NEW m \in Nat, m >= 3
  PROVE  /\ \A u, v \in Nat :
              (age = 0 \/ age + u <= m + 2) /\ v <= u - 1 /\ v <= m + 1
                => next + v <= m + 2
         /\ age = 0 => next + (m + 1) <= m + 2
         /\ \A g \in Nat : g > 0 => next + (g - 1) <= age + g
         /\ age = 0 \/ age + 1 <= m + 2 => next + (m - 1) <= 2 * m + 1
         /\ age <= 2 * m + 1 => next + (m - 1) <= 3 * m + 1
         /\ age <= 3 * m + 1 => next + (m - 1) <= 4 * m + 1
OBVIOUS

LEMMA ListenPhaseStep ==
  ASSUME KeepsUp, ListenInv, Next
  PROVE  ListenPhase'
<1>1. TypeOK /\ RxPhase /\ ListenPhase
  BY DEF ListenInv, RxInv, TypeInv
<1>2. gap \in 0 .. MinGap - 1 /\ MinGap \in Nat /\ MinGap >= 3
  BY <1>1, Params DEF TypeOK, KeepsUp
<1>3. program' = program
  BY DEF Next, Wait, Begin, Program, PutWord, LoadForStart, Start, Poll,
         LoadForClear, ClearTx, Sent, Look, LoadRdr, LoadForAck, ClearRx,
         LoadCfg, WriteCfg, Access
<1> SUFFICES ASSUME program = "listen" PROVE ListenPhase'
  BY <1>3 DEF ListenPhase
<1>4. /\ pc \in {"idle", "look", "rdr", "rdAck", "ack"}
      /\ unread => rxDone
      /\ unread /\ pc \in {"idle", "look"} =>
           Age = 0 \/ (rxFlag /\ Age + UntilLook <= MinGap + 2)
      /\ pc = "rdr" => Age + gap <= 2 * MinGap + 1
      /\ pc = "rdAck" => Age + gap <= 3 * MinGap + 1
      /\ pc = "ack" => Age + gap <= 4 * MinGap + 1
      /\ pc \in {"rdAck", "ack"} \/ rxRst => ~unread
  BY <1>1 DEF ListenPhase
<1>5. NoStore.reg # "CFG"
  BY DEF NoStore
<1>6. CASE Wait \/ Begin
  <2>1. /\ Edge(NoStore, FALSE)
        /\ gap' = IF gap > 0 THEN gap - 1 ELSE 0
        /\ \/ pc' = pc /\ gap > 0
           \/ pc = "idle" /\ pc' = "look"
    BY <1>4, <1>6 DEF Wait, Begin, Elapse, Prompt
  <2>2. /\ Age \in Nat /\ Age' \in Nat /\ Age' <= Age + 1
        /\ Completes => Age' = 0 /\ Age > 4 * MinGap + 1
        /\ unread' => rxDone'
        /\ unread' => Completes \/ unread
        /\ rxFlag' = rxDone /\ ~rxRst'
    BY <1>5, <2>1, ListenEdge
  <2>3. UntilLook' <= UntilLook - 1 /\ UntilLook' <= MinGap + 1
        /\ UntilLook \in Nat /\ UntilLook' \in Nat
    BY <1>2, <2>1 DEF UntilLook
  <2>4. unread' /\ pc' \in {"idle", "look"} =>
          Age' = 0 \/ (rxFlag' /\ Age' + UntilLook' <= MinGap + 2)
    <3> SUFFICES ASSUME unread', pc' \in {"idle", "look"}, Age' # 0
                 PROVE  rxFlag' /\ Age' + UntilLook' <= MinGap + 2
      OBVIOUS
    <3>1. unread /\ pc \in {"idle", "look"}
      BY <2>1, <2>2
    <3>2. Age = 0 \/ Age + UntilLook <= MinGap + 2
      BY <1>4, <3>1
    <3>3. rxFlag'
      BY <1>4, <2>2, <3>1
    <3>4. Age' + UntilLook' <= MinGap + 2
      BY <1>2, <2>2, <2>3, <3>2, Sums, Zenon
    <3> QED BY <3>3, <3>4
  <2>5. /\ pc' = "rdr" => Age' + gap' <= 2 * MinGap + 1
        /\ pc' = "rdAck" => Age' + gap' <= 3 * MinGap + 1
        /\ pc' = "ack" => Age' + gap' <= 4 * MinGap + 1
    <3> SUFFICES ASSUME pc' \notin {"idle", "look"}
                 PROVE  \A n \in Nat : Age + gap <= n => Age' + gap' <= n /\ pc' = pc
      <4>1. 2 * MinGap + 1 \in Nat /\ 3 * MinGap + 1 \in Nat /\ 4 * MinGap + 1 \in Nat
        BY <1>2
      <4>2. pc' \notin {"idle", "look"} => pc' = pc
        BY <2>1
      <4>3. /\ pc = "rdr" => Age + gap <= 2 * MinGap + 1
            /\ pc = "rdAck" => Age + gap <= 3 * MinGap + 1
            /\ pc = "ack" => Age + gap <= 4 * MinGap + 1
        BY <1>4
      <4> QED BY <4>1, <4>2, <4>3, Zenon
    <3>1. pc' = pc /\ gap > 0 /\ gap' = gap - 1
      BY <2>1
    <3>2. gap \in Nat /\ Age + gap \in Nat
      BY <1>2, <2>2
    <3>3. Age' + (gap - 1) <= Age + gap
      BY <1>2, <2>2, <3>1, <3>2, Sums, Zenon
    <3>4. \A next \in Nat : next + (gap - 1) \in Nat
      BY <3>1, <3>2
    <3>5. \A sum \in Nat : sum <= Age + gap =>
            \A n \in Nat : Age + gap <= n => sum <= n
      BY <3>2
    <3> QED BY <2>2, <3>1, <3>3, <3>4, <3>5, Zenon
  <2>6. pc' \in {"rdAck", "ack"} => ~unread'
    BY <1>2, <1>4, <2>1, <2>2
  <2> QED BY <1>4, <2>1, <2>2, <2>4, <2>5, <2>6 DEF ListenPhase
<1>7. CASE Look
  <2>1. /\ Edge(NoStore, FALSE) /\ pc = "look" /\ gap = 0
        /\ gap' = MinGap - 1 /\ pc' = IF rxFlag THEN "rdr" ELSE "idle"
    BY <1>7 DEF Look, LoadCfg, Access
  <2>2. /\ Age \in Nat /\ Age' \in Nat /\ Age' <= Age + 1
        /\ Completes => Age' = 0
        /\ unread' => rxDone'
        /\ unread' => Completes \/ unread
        /\ rxFlag' = rxDone /\ ~rxRst'
    BY <1>5, <2>1, ListenEdge
  <2>3. UntilLook = 1
    BY <2>1 DEF UntilLook
  <2>4. CASE rxFlag
    <3>1. unread
      BY <1>1, <1>2, <2>1, <2>4 DEF RxPhase
    <3>2. Age = 0 \/ Age + UntilLook <= MinGap + 2
      BY <1>4, <2>1, <3>1
    <3>3. Age' + gap' <= 2 * MinGap + 1
      BY <1>2, <2>1, <2>2, <2>3, <3>2, Sums, Zenon
    <3> QED BY <2>1, <2>2, <2>4, <3>3 DEF ListenPhase
  <2>5. CASE ~rxFlag
    <3>1. UntilLook' = MinGap + 1
      BY <1>2, <2>1, <2>5 DEF UntilLook
    <3>2. unread' => Age' = 0 \/ (rxFlag' /\ Age' + UntilLook' <= MinGap + 2)
      <4> SUFFICES ASSUME unread', Age' # 0
                   PROVE  rxFlag' /\ Age' + UntilLook' <= MinGap + 2
        OBVIOUS
      <4>1. unread /\ Age = 0
        BY <1>4, <2>1, <2>2, <2>5
      <4>2. rxFlag'
        BY <1>4, <2>2, <4>1
      <4> QED BY <1>2, <2>2, <3>1, <4>1, <4>2, Sums, Zenon
    <3> QED BY <2>1, <2>2, <2>5, <3>2 DEF ListenPhase
  <2> QED BY <2>4, <2>5
<1>8. CASE LoadRdr
  <2>1. /\ Edge(NoStore, TRUE) /\ pc = "rdr" /\ gap = 0
        /\ gap' = MinGap - 1 /\ pc' = "rdAck"
    BY <1>8 DEF LoadRdr, Access
  <2>2. /\ Age \in Nat /\ Age' \in Nat /\ Age' <= Age + 1
        /\ Completes => Age > 4 * MinGap + 1
        /\ unread' => Completes
    BY <2>1, ListenEdge
  <2>3. Age <= 2 * MinGap + 1
    BY <1>2, <1>4, <2>1, <2>2
  <2>4. ~Completes
    BY <1>2, <2>2, <2>3
  <2>5. ~unread' /\ Age' + gap' <= 3 * MinGap + 1
    BY <1>2, <2>1, <2>2, <2>3, <2>4, Sums, Zenon
  <2> QED BY <2>1, <2>5 DEF ListenPhase
<1>9. CASE LoadForAck
  <2>1. /\ Edge(NoStore, FALSE) /\ pc = "rdAck" /\ gap = 0
        /\ gap' = MinGap - 1 /\ pc' = "ack"
    BY <1>9 DEF LoadForAck, LoadCfg, Access
  <2>2. /\ Age \in Nat /\ Age' \in Nat /\ Age' <= Age + 1
        /\ Completes => Age > 4 * MinGap + 1
        /\ unread' => Completes \/ unread
    BY <2>1, ListenEdge
  <2>3. Age <= 3 * MinGap + 1 /\ ~unread
    BY <1>2, <1>4, <2>1, <2>2
  <2>4. ~Completes
    BY <1>2, <2>2, <2>3
  <2>5. ~unread' /\ Age' + gap' <= 4 * MinGap + 1
    BY <1>2, <2>1, <2>2, <2>3, <2>4, Sums, Zenon
  <2> QED BY <2>1, <2>5 DEF ListenPhase
<1>10. CASE ClearRx
  <2>1. PICK flags : /\ Edge(StoreCfg(flags), FALSE) /\ pc = "ack" /\ gap = 0
                     /\ pc' = "idle"
    BY <1>10 DEF ClearRx, WriteCfg, Access
  <2>2. /\ Age \in Nat
        /\ Completes => Age > 4 * MinGap + 1
        /\ unread' => Completes \/ unread
    BY <2>1, ListenEdge
  <2>3. ~unread'
    BY <1>2, <1>4, <2>1, <2>2
  <2> QED BY <2>1, <2>3 DEF ListenPhase
<1>11. ~PutWord /\ ~LoadForStart /\ ~Start /\ ~Poll /\ ~LoadForClear /\ ~ClearTx
       /\ ~Sent
  BY <1>4 DEF PutWord, LoadForStart, Start, Poll, LoadForClear, ClearTx, Sent,
              LoadCfg, WriteCfg, Access
<1> QED BY <1>6, <1>7, <1>8, <1>9, <1>10, <1>11 DEF Next, Program

(* A program that only listens loses no reception, if the four accesses it *)
(* needs for one word take no longer than a frame.                         *)
THEOREM ListenerKeepsAll ==
  ASSUME MinGap >= 3, FrameTime > 4 * MinGap + 1
  PROVE  Spec => []ListenerLosesNothing
<1> USE DEF KeepsUp
<1>1. Init => ListenInv
  <2> SUFFICES ASSUME Init PROVE ListenInv
    OBVIOUS
  <2>1. RxPhase /\ StartBit
    BY DEF Init, RxPhase, StartBit
  <2>2. ListenPhase
    BY DEF Init, ListenPhase
  <2> QED BY <2>1, <2>2, TypeInit DEF ListenInv, RxInv
<1>2. ListenInv /\ RxInv' /\ [Next]_vars => ListenInv'
  <2> SUFFICES ASSUME ListenInv, RxInv', [Next]_vars PROVE ListenInv'
    OBVIOUS
  <2>1. CASE Next
    <3>1. PICK store \in Stores, loads \in BOOLEAN : Edge(store, loads)
      BY <2>1, NextEdge DEF ListenInv, RxInv, TypeInv
    <3>2. StartBit'
      BY <3>1, AgeStep DEF Edge, ListenInv, RxInv, TypeInv
    <3>3. ListenPhase'
      BY <2>1, ListenPhaseStep
    <3> QED BY <3>2, <3>3 DEF ListenInv
  <2>2. CASE UNCHANGED vars
    BY <2>2 DEF ListenInv, ListenPhase, StartBit, Age, UntilLook, vars, regVars,
                rxVars, pastVars, progVars
  <2> QED BY <2>1, <2>2
<1>3. ListenInv => ListenerLosesNothing
  BY DEF ListenInv, ListenPhase, ListenerLosesNothing, ReceptionKept
<1> QED BY <1>1, <1>2, <1>3, RxAlways, PTL DEF Spec

-----------------------------------------------------------------------------
(* The other end samples the middle of a bit: what the line shows then.    *)
LEMMA Sample ==
  ASSUME NEW t \in Nat, NEW b \in Nat, NEW c \in 0 .. Prescaler,
         (t + 1) * Prescaler + c - 1 = Middle(b + 1)
  PROVE  /\ b >= t => b = t /\ c > 0
         /\ b < t => t > 0 /\ b = t - 1 /\ c = 0
<1>1. /\ (t + 1) * Prescaler \in Nat /\ (b + 1) * Prescaler \in Nat
      /\ Middle(b + 1) = Half + (b + 1) * Prescaler
  BY Places
<1>2. CASE b = t
  BY <1>1, <1>2, Params
<1>3. CASE b > t
  <2>1. (t + 1) * Prescaler + Prescaler <= (b + 1) * Prescaler
    BY <1>3, Places
  <2> QED BY <1>1, <1>3, <2>1, Params
<1>4. CASE b = t - 1
  <2>1. b + 1 = t /\ (t + 1) * Prescaler = t * Prescaler + Prescaler
    BY <1>4, Places
  <2>2. t * Prescaler \in Nat /\ (b + 1) * Prescaler = t * Prescaler
    BY <2>1, Places
  <2> HIDE <1>1
  <2>3. Middle(b + 1) = Half + t * Prescaler
    BY <1>1, <2>2
  <2>4. t * Prescaler + Prescaler + c - 1 = Half + t * Prescaler
    BY <2>1, <2>3
  <2> QED BY <1>4, <2>1, <2>2, <2>4, Params
<1>5. CASE b < t - 1
  <2>1. (b + 2) * Prescaler + Prescaler <= (t + 1) * Prescaler
    BY <1>5, Places
  <2>2. (b + 2) * Prescaler = (b + 1) * Prescaler + Prescaler
    <3>1. b + 1 \in Nat /\ b + 2 = (b + 1) + 1
      OBVIOUS
    <3> QED BY <3>1, Places
  <2> QED BY <1>1, <1>5, <2>1, <2>2, Params
<1> QED BY <1>2, <1>3, <1>4, <1>5

LEMMA PinStep ==
  ASSUME TypeOK, PinOK, TxEdge
  PROVE  PinOK'
<1>1. /\ txCnt \in 0 .. StopTime(Prescaler) - 1
      /\ txBit \in 0 .. DataBits - 1
  BY DEF TypeOK
<1>2. CASE TxIdle
  <2>1. CASE en /\ ~fired /\ ~txDone
    BY <1>2, <2>1, Params DEF TxIdle, PinOK
  <2>2. CASE ~(en /\ ~fired /\ ~txDone)
    BY <1>2, <2>2, Params DEF TxIdle, PinOK
  <2> QED BY <2>1, <2>2
<1>3. CASE TxStart
  <2>1. /\ txState = "START" /\ txBit = 0 /\ txCnt < Prescaler
        /\ txPin' = 0 /\ txBit' = 0 /\ txData' = txData
    BY <1>3 DEF TxStart, PinOK
  <2>2. CASE txCnt < Prescaler - 1
    <3>1. txCnt' = txCnt + 1 /\ txState' = "START"
      BY <1>3, <2>1, <2>2 DEF TxStart
    <3>2. txCnt + 1 < Prescaler /\ txCnt + 1 # 0
      BY <1>1, <2>2, Params
    <3> QED BY <2>1, <3>1, <3>2 DEF PinOK
  <2>3. CASE ~(txCnt < Prescaler - 1)
    <3>1. txCnt' = 0 /\ txState' = "DATA"
      BY <1>3, <2>3 DEF TxStart
    <3> QED BY <2>1, <3>1, Params DEF PinOK
  <2> QED BY <2>2, <2>3
<1>4. CASE TxData
  <2>1. /\ txState = "DATA" /\ txCnt < Prescaler
        /\ txPin' = txData[txBit] /\ txData' = txData
    BY <1>4 DEF TxData, PinOK
  <2>2. CASE txCnt < Prescaler - 1
    <3>1. txCnt' = txCnt + 1 /\ txBit' = txBit /\ txState' = "DATA"
      BY <1>4, <2>1, <2>2 DEF TxData
    <3>2. txCnt + 1 < Prescaler /\ txCnt + 1 > 0
      BY <1>1, <2>2, Params
    <3> QED BY <2>1, <3>1, <3>2 DEF PinOK
  <2>3. CASE ~(txCnt < Prescaler - 1) /\ txBit < DataBits - 1
    <3>1. txCnt' = 0 /\ txBit' = txBit + 1 /\ txState' = "DATA"
      BY <1>4, <2>1, <2>3 DEF TxData
    <3>2. /\ \A n : n = txBit + 1 => n # 0 /\ n - 1 = txBit
          /\ \A n : n = 0 => ~(n > 0) /\ n < Prescaler
      BY <1>1, Params
    <3>3. /\ txBit' # 0 /\ txBit' - 1 = txBit
          /\ ~(txCnt' > 0) /\ txCnt' < Prescaler
      BY <3>1, <3>2, Zenon
    <3> QED BY <2>1, <3>1, <3>3, Zenon DEF PinOK
  <2>4. CASE ~(txCnt < Prescaler - 1) /\ ~(txBit < DataBits - 1)
    <3>1. txCnt' = 0 /\ txState' = "STOP" /\ txBit = DataBits - 1
      BY <1>1, <1>4, <2>4, Params DEF TxData
    <3> QED BY <2>1, <3>1 DEF PinOK
  <2> QED BY <2>2, <2>3, <2>4
<1>5. CASE TxStop
  <2>1. txState = "STOP" /\ txPin' = 1
    BY <1>5 DEF TxStop
  <2>2. CASE txCnt < StopTime(Prescaler) - 1
    <3>1. txCnt' = txCnt + 1 /\ txState' = "STOP"
      BY <1>5, <2>1, <2>2 DEF TxStop
    <3>2. txCnt + 1 # 0
      BY <1>1, Params
    <3> QED BY <2>1, <3>1, <3>2 DEF PinOK
  <2>3. CASE ~(txCnt < StopTime(Prescaler) - 1)
    <3>1. txState' = "IDLE"
      BY <1>5, <2>3 DEF TxStop
    <3> QED BY <2>1, <3>1 DEF PinOK
  <2> QED BY <2>2, <2>3
<1> QED BY <1>2, <1>3, <1>4, <1>5 DEF TxEdge

(* Where the other end may stand, and how it moves on.                     *)
LEMMA EarRange ==
  ASSUME TypeOK, PinOK, EarPlace
  PROVE  /\ Last \in Nat /\ Last > 0 /\ ear \in 0 .. Last
         /\ \A b \in 0 .. DataBits - 1 : Middle(b + 1) \in Nat
                                         /\ Middle(b + 1) < Last
                                         /\ Middle(b + 1) >= Prescaler
         /\ ear = Last => txState \in {"STOP", "IDLE"} /\ txPin = 1
         /\ ear = 0 /\ txState \in {"STOP", "IDLE"} => txPin = 1
<1>1. /\ txState \in {"IDLE", "START", "DATA", "STOP"} /\ ear \in 0 .. Last
      /\ txCnt \in 0 .. StopTime(Prescaler) - 1 /\ txBit \in 0 .. DataBits - 1
  BY DEF TypeOK, Last
<1>2. /\ Last \in Nat /\ Last = Half + (DataBits + 1) * Prescaler
      /\ (DataBits + 1) * Prescaler \in Nat
      /\ 0 * Prescaler + Prescaler <= (DataBits + 1) * Prescaler /\ 0 * Prescaler = 0
  BY Places, Params DEF Last
<1>3. ASSUME NEW b \in 0 .. DataBits - 1
      PROVE  /\ Middle(b + 1) \in Nat
             /\ Middle(b + 1) < Last /\ Middle(b + 1) >= Prescaler
  <2>1. b + 1 \in Nat /\ DataBits + 1 \in Nat /\ b + 1 < DataBits + 1
        /\ 0 < b + 1
    BY <1>3, Params
  <2>2. /\ Middle(b + 1) = Half + (b + 1) * Prescaler
        /\ Middle(b + 1) \in Nat /\ (b + 1) * Prescaler \in Nat
        /\ (b + 1) * Prescaler + Prescaler <= (DataBits + 1) * Prescaler
        /\ 0 * Prescaler + Prescaler <= (b + 1) * Prescaler
    BY <2>1, Places
  <2> QED BY <1>2, <2>2, Params
<1>4. CASE txState = "IDLE"
  BY <1>1, <1>2, <1>3, <1>4, Params DEF PinOK
<1>5. CASE txState = "START"
  <2>1. ear < Last
    BY <1>1, <1>2, <1>5, Params DEF PinOK, EarPlace
  <2> QED BY <1>1, <1>2, <1>3, <1>5, <2>1, Params
<1>6. CASE txState = "DATA"
  <2>1. /\ (txBit + 1) * Prescaler \in Nat
        /\ (txBit + 1) * Prescaler + Prescaler <= (DataBits + 1) * Prescaler
    <3>1. txBit + 1 \in Nat /\ DataBits + 1 \in Nat /\ txBit + 1 < DataBits + 1
      BY <1>1, Params
    <3> QED BY <3>1, Places
  <2>2. ear < Last
    BY <1>1, <1>2, <1>6, <2>1, Params DEF PinOK, EarPlace
  <2> QED BY <1>1, <1>2, <1>3, <1>6, <2>2, Params
<1>7. CASE txState = "STOP"
  <2>1. ear = IF txCnt <= Half + 1 THEN (DataBits + 1) * Prescaler + txCnt - 1
              ELSE 0
    BY <1>7 DEF EarPlace
  <2>2. ear \in {0, Last} => txCnt # 0
    BY <1>1, <1>2, <2>1, Params
  <2>3. ear \in {0, Last} => txPin = 1
    BY <1>7, <2>2 DEF PinOK
  <2> QED BY <1>1, <1>2, <1>3, <1>7, <2>3, Params
<1> QED BY <1>1, <1>4, <1>5, <1>6, <1>7

LEMMA EarMoves ==
  ASSUME TypeOK, PinOK, EarPlace, NEW restart \in BOOLEAN, EarEdge(restart)
  PROVE  /\ ear = Last => ear' = 0
         /\ ear = 0 /\ txState \in {"STOP", "IDLE"} => ear' = 0
         /\ ear = 0 /\ txPin = 1 => ear' = 0
         /\ ear # Last /\ (ear # 0 \/ txPin # 1) => ear' = ear + 1
<1>1. /\ Last > 0 /\ ear \in 0 .. Last
      /\ ear = 0 /\ txState \in {"STOP", "IDLE"} => txPin = 1
      /\ Last \in Nat
  BY EarRange
<1>2. ear' = IF ear = Last THEN 0
             ELSE IF ear = 0 /\ txPin = 1 THEN 0 ELSE ear + 1
  BY DEF EarEdge, Last
<1> QED BY <1>1, <1>2

LEMMA EarPlaceStep ==
  ASSUME TypeOK, PinOK, EarPlace, TxEdge,
         NEW restart \in BOOLEAN, EarEdge(restart)
  PROVE  EarPlace'
<1>1. /\ txCnt \in 0 .. StopTime(Prescaler) - 1 /\ txBit \in 0 .. DataBits - 1
  BY DEF TypeOK
<1>2. /\ Last \in Nat /\ Last > 0 /\ ear \in 0 .. Last
      /\ ear = Last => txState \in {"STOP", "IDLE"}
  BY EarRange
<1>3. Last = Half + (DataBits + 1) * Prescaler /\ (DataBits + 1) * Prescaler \in Nat
  BY Places, Params DEF Last
<1>4. /\ ear = Last => ear' = 0
      /\ ear = 0 /\ txState \in {"STOP", "IDLE"} => ear' = 0
      /\ ear = 0 /\ txPin = 1 => ear' = 0
      /\ ear # Last /\ (ear # 0 \/ txPin # 1) => ear' = ear + 1
  BY EarMoves
<1>5. CASE TxIdle
  <2>1. txState = "IDLE" /\ txCnt' = 0 /\ txState' \in {"IDLE", "START"}
    BY <1>5 DEF TxIdle
  <2>2. ear' = 0
    BY <1>4, <2>1 DEF EarPlace
  <2> QED BY <2>1, <2>2 DEF EarPlace
<1>6. CASE TxStart
  <2>1. /\ txState = "START" /\ txBit = 0 /\ txCnt < Prescaler
        /\ txPin = IF txCnt = 0 THEN 1 ELSE 0
        /\ ear = IF txCnt = 0 THEN 0 ELSE txCnt - 1
        /\ ear # Last /\ txBit' = txBit
    BY <1>2, <1>6 DEF TxStart, PinOK, EarPlace
  <2>2. ear' = txCnt
    BY <1>1, <1>4, <2>1, Params
  <2>3. CASE txCnt < Prescaler - 1
    <3>1. txCnt' = txCnt + 1 /\ txState' = "START"
      BY <1>6, <2>1, <2>3 DEF TxStart
    <3>2. \A n : n = txCnt + 1 => n # 0 /\ txCnt = n - 1
      BY <1>1
    <3> QED BY <2>2, <3>1, <3>2, Zenon DEF EarPlace
  <2>4. CASE ~(txCnt < Prescaler - 1)
    <3>1. txCnt' = 0 /\ txState' = "DATA" /\ txBit' = 0
      BY <1>6, <2>1, <2>4 DEF TxStart
    <3>2. \A n, m : n = 0 /\ m = 0 => txCnt = (n + 1) * Prescaler + m - 1
      BY <1>1, <2>1, <2>4, Params
    <3> QED BY <2>2, <3>1, <3>2, Zenon DEF EarPlace
  <2> QED BY <2>3, <2>4
<1>7. CASE TxData
  <2>1. /\ txState = "DATA" /\ txCnt < Prescaler
        /\ ear = (txBit + 1) * Prescaler + txCnt - 1
    BY <1>7 DEF TxData, PinOK, EarPlace
  <2>2. /\ (txBit + 1) * Prescaler \in Nat
        /\ (txBit + 1) * Prescaler >= Prescaler
        /\ (txBit + 1 + 1) * Prescaler = (txBit + 1) * Prescaler + Prescaler
    <3>1. txBit + 1 \in Nat /\ 0 < txBit + 1 /\ txBit \in Nat
      BY <1>1
    <3>2. /\ 0 * Prescaler + Prescaler <= (txBit + 1) * Prescaler
          /\ (txBit + 1) * Prescaler \in Nat
          /\ (txBit + 1 + 1) * Prescaler = (txBit + 1) * Prescaler + Prescaler
      BY <3>1, Places
    <3> QED BY <3>2, Params
  <2>3. ear' = ear + 1
    BY <1>1, <1>2, <1>4, <2>1, <2>2, Params
  <2>4. ear' = (txBit + 1) * Prescaler + txCnt
    BY <1>1, <2>1, <2>2, <2>3, Params
  <2>5. CASE txCnt < Prescaler - 1
    <3>1. txCnt' = txCnt + 1 /\ txBit' = txBit /\ txState' = "DATA"
      BY <1>7, <2>1, <2>5 DEF TxData
    <3>2. \A n : n = txCnt + 1 =>
            (txBit + 1) * Prescaler + txCnt = (txBit + 1) * Prescaler + n - 1
      BY <1>1, <2>2
    <3> QED BY <2>4, <3>1, <3>2, Zenon DEF EarPlace
  <2>6. CASE ~(txCnt < Prescaler - 1) /\ txBit < DataBits - 1
    <3>1. txCnt' = 0 /\ txBit' = txBit + 1 /\ txState' = "DATA"
      BY <1>7, <2>1, <2>6 DEF TxData
    <3>2. txCnt = Prescaler - 1
      BY <1>1, <2>1, <2>6, Params
    <3>3. \A n, m : n = txBit + 1 /\ m = 0 =>
            (txBit + 1) * Prescaler + txCnt = (n + 1) * Prescaler + m - 1
      BY <1>1, <2>2, <3>2, Params
    <3> QED BY <2>4, <3>1, <3>3, Zenon DEF EarPlace
  <2>7. CASE ~(txCnt < Prescaler - 1) /\ ~(txBit < DataBits - 1)
    <3>1. txCnt' = 0 /\ txState' = "STOP" /\ txBit + 1 = DataBits
      BY <1>1, <1>7, <2>7, Params DEF TxData
    <3>2. txCnt = Prescaler - 1
      BY <1>1, <2>1, <2>7, Params
    <3>3. \A n : n = 0 => /\ n <= Half + 1
                          /\ (txBit + 1) * Prescaler + txCnt
                               = (DataBits + 1) * Prescaler + n - 1
      BY <1>1, <2>2, <3>1, <3>2, Params
    <3> QED BY <2>4, <3>1, <3>3, Zenon DEF EarPlace
  <2> QED BY <2>5, <2>6, <2>7
<1>8. CASE TxStop
  <2>1. /\ txState = "STOP"
        /\ ear = IF txCnt <= Half + 1 THEN (DataBits + 1) * Prescaler + txCnt - 1
                 ELSE 0
    BY <1>8 DEF TxStop, EarPlace
  <2>2. ear' = IF txCnt <= Half THEN (DataBits + 1) * Prescaler + txCnt ELSE 0
    <3>1. CASE txCnt <= Half
      <4>1. ear = (DataBits + 1) * Prescaler + txCnt - 1 /\ ear # 0 /\ ear # Last
            /\ ear + 1 = (DataBits + 1) * Prescaler + txCnt
        <5>1. /\ DataBits \in Nat
              /\ (DataBits + 1) * Prescaler = DataBits * Prescaler + Prescaler
              /\ DataBits * Prescaler \in Nat
          BY Places, Params
        <5> QED BY <1>1, <1>3, <2>1, <3>1, <5>1, Params
      <4> QED BY <1>4, <3>1, <4>1
    <3>2. CASE txCnt = Half + 1
      <4>1. ear = Last /\ ~(txCnt <= Half)
        BY <1>1, <1>3, <2>1, <3>2, Params
      <4> QED BY <1>4, <4>1
    <3>3. CASE txCnt > Half + 1
      <4>1. ear = 0 /\ ~(txCnt <= Half)
        BY <1>1, <2>1, <3>3, Params
      <4> QED BY <1>4, <2>1, <4>1
    <3> QED BY <1>1, <3>1, <3>2, <3>3, Params
  <2>3. CASE txCnt < StopTime(Prescaler) - 1
    <3>1. txCnt' = txCnt + 1 /\ txState' = "STOP"
      BY <1>8, <2>1, <2>3 DEF TxStop
    <3>2. \A n : n = txCnt + 1 =>
            /\ txCnt <= Half <=> n <= Half + 1
            /\ (DataBits + 1) * Prescaler + txCnt
                 = (DataBits + 1) * Prescaler + n - 1
      BY <1>1, <1>3, Params
    <3> QED BY <2>2, <3>1, <3>2, Zenon DEF EarPlace
  <2>4. CASE ~(txCnt < StopTime(Prescaler) - 1)
    <3>1. txState' = "IDLE" /\ txDone'
      BY <1>8, <2>4 DEF TxStop
    <3>2. txCnt <= Half => txCnt = Half
      BY <1>1, <2>4, Params
    <3>3. ear' \in {0, Last}
      BY <1>1, <1>3, <2>2, <3>2, Params
    <3> QED BY <3>1, <3>3 DEF EarPlace
  <2> QED BY <2>3, <2>4
<1> QED BY <1>5, <1>6, <1>7, <1>8 DEF TxEdge

(* Every bit that has been sampled is the bit that was sent.               *)
LEMMA EarBitsStep ==
  ASSUME TypeOK, PinOK, EarPlace, EarBits, TxEdge,
         NEW restart \in BOOLEAN, EarEdge(restart)
  PROVE  EarBits'
<1>1. /\ txCnt \in 0 .. StopTime(Prescaler) - 1 /\ txBit \in 0 .. DataBits - 1
      /\ txState \in {"IDLE", "START", "DATA", "STOP"}
  BY DEF TypeOK
<1>2. /\ Last \in Nat /\ ear \in 0 .. Last
      /\ \A b \in 0 .. DataBits - 1 : Middle(b + 1) \in Nat
                                      /\ Middle(b + 1) < Last
                                      /\ Middle(b + 1) >= Prescaler
      /\ ear = Last => txState \in {"STOP", "IDLE"} /\ txPin = 1
  BY EarRange
<1>3. /\ ear = Last => ear' = 0
      /\ ear = 0 /\ txState \in {"STOP", "IDLE"} => ear' = 0
      /\ ear = 0 /\ txPin = 1 => ear' = 0
      /\ ear # Last /\ (ear # 0 \/ txPin # 1) => ear' = ear + 1
  BY EarMoves
<1>4. earWord' = [b \in 0 .. DataBits - 1 |->
                    IF ear = Middle(b + 1) THEN txPin ELSE earWord[b]]
  BY DEF EarEdge
<1>5. ear' # 0 => ear' = ear + 1 /\ txState # "IDLE" /\ ear # Last
  BY <1>3 DEF EarPlace
<1>6. txState # "IDLE" => txData' = txData
  BY DEF TxEdge, TxIdle, TxStart, TxData, TxStop
<1> SUFFICES ASSUME NEW b \in 0 .. DataBits - 1, ear' > Middle(b + 1)
             PROVE  earWord'[b] = txData'[b]
  BY DEF EarBits
<1>7. ear' # 0
  BY <1>2, Params
<1>8. /\ txState # "IDLE" /\ txData' = txData
      /\ ear >= Middle(b + 1) /\ ear # Last
  <2>1. ear' = ear + 1
    BY <1>5, <1>7
  <2>2. ear + 1 > Middle(b + 1)
    BY <2>1
  <2> QED BY <1>2, <1>5, <1>6, <1>7, <2>2
<1>9. CASE ear # Middle(b + 1)
  <2>1. earWord'[b] = earWord[b]
    BY <1>4, <1>9
  <2>2. ear > Middle(b + 1)
    BY <1>2, <1>8, <1>9
  <2> QED BY <1>8, <2>1, <2>2 DEF EarBits
<1>10. CASE ear = Middle(b + 1)
  <2>1. earWord'[b] = txPin
    BY <1>4, <1>10
  <2>2. txPin = txData[b]
    <3>1. CASE txState = "START"
      <4>1. ear < Prescaler
        BY <1>1, <3>1, Params DEF EarPlace, PinOK
      <4> QED BY <1>2, <1>10, <4>1, Params
    <3>2. CASE txState = "DATA"
      <4>1. /\ (txBit + 1) * Prescaler + txCnt - 1 = Middle(b + 1)
            /\ txCnt \in 0 .. Prescaler /\ txBit \in Nat /\ b \in Nat
        BY <1>1, <1>10, <3>2, Params DEF EarPlace, PinOK
      <4>2. /\ b >= txBit => b = txBit /\ txCnt > 0
            /\ b < txBit => txBit > 0 /\ b = txBit - 1 /\ txCnt = 0
        BY <4>1, Sample
      <4>3. CASE b >= txBit
        BY <3>2, <4>2, <4>3 DEF PinOK
      <4>4. CASE b < txBit
        <5>1. txBit # 0 /\ ~(txCnt > 0) /\ b = txBit - 1
          BY <4>1, <4>2, <4>4
        <5> QED BY <3>2, <5>1 DEF PinOK
      <4> QED BY <4>1, <4>3, <4>4
    <3>3. CASE txState = "STOP"
      <4>1. ear # 0
        BY <1>2, <1>10, Params
      <4>2. txCnt <= Half + 1
            /\ ear = (DataBits + 1) * Prescaler + txCnt - 1
        BY <3>3, <4>1 DEF EarPlace
      <4>3. /\ (DataBits + 1) * Prescaler + txCnt - 1 = Middle(b + 1)
            /\ txCnt \in 0 .. Prescaler /\ DataBits \in Nat /\ b \in Nat
            /\ b < DataBits
        BY <1>1, <1>10, <4>2, Params
      <4>4. b = DataBits - 1 /\ txCnt = 0
        BY <4>3, Sample
      <4> QED BY <3>3, <4>4 DEF PinOK
    <3> QED BY <1>1, <1>8, <3>1, <3>2, <3>3
  <2> QED BY <1>8, <2>1, <2>2
<1> QED BY <1>9, <1>10

(* The frame is heard at the middle of its stop bit, as it was sent.       *)
LEMMA HeardStep ==
  ASSUME TypeOK, PinOK, EarPlace, EarBits,
         NEW restart \in BOOLEAN, EarEdge(restart)
  PROVE  LET count == IF restart THEN 0 ELSE heard
         IN  IF ear = Last THEN heard' = count + 1 /\ heardWord' = txData
             ELSE heard' = count /\ heardWord' = heardWord
<1>1. CASE ear = Last
  <2>1. txPin = 1 /\ Last \in Nat
        /\ \A b \in 0 .. DataBits - 1 : Middle(b + 1) \in Nat
                                        /\ Middle(b + 1) < Last
    BY <1>1, EarRange
  <2>2. \A b \in 0 .. DataBits - 1 : earWord[b] = txData[b]
    BY <1>1, <2>1 DEF EarBits
  <2>3. earWord \in AllWords /\ txData \in AllWords
    BY DEF TypeOK
  <2>4. earWord = txData
    <3>1. /\ earWord = [b \in 0 .. DataBits - 1 |-> earWord[b]]
          /\ txData = [b \in 0 .. DataBits - 1 |-> txData[b]]
      BY <2>3, Zenon DEF AllWords
    <3> QED BY <2>2, <3>1, Zenon
  <2> QED BY <1>1, <2>1, <2>4 DEF EarEdge, Last
<1>2. CASE ear # Last
  BY <1>2 DEF EarEdge, Last
<1> QED BY <1>1, <1>2

SentInv == TxInv /\ PinOK /\ EarPlace /\ EarBits /\ HeardOK

(* Between two transmissions nothing is on the line.                       *)
LEMMA HeardRest ==
  ASSUME SentInv, pc # "poll", NEW store, NEW loads, Edge(store, loads)
  PROVE  /\ ear' = 0 /\ heardWord' = heardWord
         /\ heard' = IF store.reg = "TDR" THEN 0 ELSE heard
         /\ tdr' = IF store.reg = "TDR" THEN store.word ELSE tdr
<1>1. TypeOK /\ TxPhase /\ PinOK /\ EarPlace /\ EarBits /\ HeardOK
  BY DEF SentInv, TxInv, TypeInv
<1>2. EarEdge(store.reg = "TDR") /\ RegsEdge(store) /\ (store.reg = "TDR") \in BOOLEAN
  BY DEF Edge
<1>3. pc \in {"idle", "tdr", "rdStart", "start", "rdClear", "clear",
              "sent", "look", "rdr", "rdAck", "ack"}
  BY <1>1 DEF TypeOK
<1>4. txState = "IDLE" /\ ear = 0
  BY <1>1, <1>3 DEF TxPhase, HeardOK, Idle, Ready, Finished, Rearmed
<1>5. Last > 0 /\ Last \in Nat
  BY <1>1, EarRange
<1>6. ear # Last
  BY <1>4, <1>5
<1>7. ear' = 0
  BY <1>1, <1>2, <1>4, EarMoves
<1>8. heard' = (IF store.reg = "TDR" THEN 0 ELSE heard) /\ heardWord' = heardWord
  BY <1>1, <1>2, <1>6, HeardStep
<1> QED BY <1>2, <1>7, <1>8 DEF RegsEdge

LEMMA HeardPoll ==
  ASSUME SentInv, pc = "poll", Edge(NoStore, FALSE), want' = want,
         pc' = "poll" \/ (pc' = "rdClear" /\ txFlag)
  PROVE  HeardOK'
<1>1. TypeOK /\ TxPhase /\ PinOK /\ EarPlace /\ EarBits /\ HeardOK
  BY DEF SentInv, TxInv, TypeInv
<1>2. NoStore.reg # "TDR" /\ NoStore.reg # "CFG"
  BY DEF NoStore
<1>3. TxEdge /\ EarEdge(FALSE) /\ RegsEdge(NoStore) /\ tdr' = tdr
  BY <1>2 DEF Edge, RegsEdge
<1>4. /\ Last > 0 /\ Last \in Nat /\ ear \in 0 .. Last
      /\ ear = Last => txState \in {"STOP", "IDLE"}
  BY <1>1, EarRange
<1>5. /\ ear = Last => ear' = 0
      /\ ear = 0 /\ txState \in {"STOP", "IDLE"} => ear' = 0
      /\ ear # Last /\ (ear # 0 \/ txPin # 1) => ear' = ear + 1
  BY <1>1, <1>3, EarMoves
<1>6. /\ ear = Last => heard' = heard + 1 /\ heardWord' = txData
      /\ ear # Last => heard' = heard /\ heardWord' = heardWord
  BY <1>1, <1>3, HeardStep
<1>7. EarPlace'
  BY <1>1, <1>3, EarPlaceStep
<1>8. /\ tdr = want /\ (~Ready => txData = want)
      /\ IF Unheard THEN heard = 0 ELSE heard = 1 /\ heardWord = want
      /\ Finished /\ ear # 0 => ~txFlag
  BY <1>1 DEF HeardOK
<1>9. CASE Ready /\ en
  <2>1. txState = "IDLE" /\ ~fired /\ ~txDone /\ ~txFlag
    BY <1>9 DEF Ready, Idle
  <2>2. ear = 0 /\ ear # Last
    BY <1>1, <1>4, <2>1 DEF EarPlace
  <2>3. txState' = "START" /\ txData' = tdr
    BY <1>3, <1>9, <2>1 DEF TxEdge, TxIdle, TxStart, TxData, TxStop
  <2>4. heard' = 0 /\ pc' = "poll"
    BY <1>6, <1>8, <1>9, <2>1, <2>2 DEF Unheard
  <2>5. Unheard' /\ ~Finished' /\ (heard <= 1)'
    BY <2>3, <2>4 DEF Unheard, Finished
  <2> QED BY <1>3, <1>8, <2>3, <2>4, <2>5 DEF HeardOK
<1>10. CASE AtWork
  <2>1. txState # "IDLE" /\ ~txFlag /\ pc' = "poll" /\ ~Ready
    BY <1>10 DEF AtWork, Ready, Idle
  <2>2. txData' = txData
    BY <1>3, <2>1 DEF TxEdge, TxIdle, TxStart, TxData, TxStop
  <2>3. AtWork' \/ (Finished' /\ ~txFlag')
    BY <1>1, <1>2, <1>3, <1>10, TxQuietEdge
  <2>4. ~Ready'
    BY <2>3 DEF Ready, Idle, AtWork, Finished
  <2>5. IF Unheard' THEN heard' = 0 ELSE heard' = 1 /\ heardWord' = want
    <3>1. CASE ear = Last
      <4>1. Unheard /\ heard = 0
        BY <1>4, <1>8, <3>1 DEF Unheard
      <4>2. heard' = 1 /\ heardWord' = want /\ ear' = 0
        BY <1>5, <1>6, <1>8, <2>1, <3>1, <4>1
      <4>3. txState = "STOP"
        BY <1>4, <2>1, <3>1
      <4>4. txState' \notin {"START", "DATA"}
        BY <1>3, <4>3 DEF TxEdge, TxIdle, TxStart, TxData, TxStop
      <4> QED BY <2>4, <4>2, <4>4 DEF Unheard
    <3>2. CASE ear # Last /\ ear = 0 /\ txState = "STOP"
      <4>1. heard' = 1 /\ heardWord' = want /\ ear' = 0
        BY <1>5, <1>6, <1>8, <2>1, <3>2 DEF Unheard
      <4>2. txState' \notin {"START", "DATA"}
        BY <1>3, <3>2 DEF TxEdge, TxIdle, TxStart, TxData, TxStop
      <4> QED BY <2>4, <4>1, <4>2 DEF Unheard
    <3>3. CASE ear # Last /\ (ear # 0 \/ txState # "STOP")
      <4>1. heard' = 0
        BY <1>1, <1>6, <1>8, <2>1, <3>3 DEF Unheard, TypeOK
      <4>2. Unheard'
        <5>1. CASE ear # 0
          <6>1. ear' = ear + 1 /\ ear + 1 # 0
            BY <1>4, <1>5, <3>3, <5>1
          <6> QED BY <6>1 DEF Unheard
        <5>2. CASE ear = 0 /\ txState = "START"
          <6>1. txState' \in {"START", "DATA"}
            BY <1>3, <5>2 DEF TxEdge, TxIdle, TxStart, TxData, TxStop
          <6> QED BY <6>1 DEF Unheard
        <5>3. CASE ear = 0 /\ txState = "DATA"
          <6>1. (txBit + 1) * Prescaler >= Prescaler /\ (txBit + 1) * Prescaler \in Nat
                /\ txCnt \in Nat
            <7>1. txBit + 1 \in Nat /\ 0 < txBit + 1 /\ txCnt \in Nat
              BY <1>1, Params DEF TypeOK
            <7>2. 0 * Prescaler + Prescaler <= (txBit + 1) * Prescaler
                  /\ (txBit + 1) * Prescaler \in Nat
              BY <7>1, Places
            <7> QED BY <7>1, <7>2, Params
          <6>2. ear = (txBit + 1) * Prescaler + txCnt - 1
            BY <1>1, <5>3 DEF EarPlace
          <6> QED BY <5>3, <6>1, <6>2, Params
        <5> QED BY <1>1, <2>1, <3>3, <5>1, <5>2, <5>3 DEF TypeOK
      <4> QED BY <4>1, <4>2
    <3> QED BY <3>1, <3>2, <3>3
  <2>6. heard' = 0 \/ heard' = 1
    BY <2>5
  <2>7. (heard <= 1)'
    BY <2>6
  <2>8. Finished' /\ ear' # 0 => ~txFlag'
    BY <2>3 DEF AtWork, Finished
  <2> QED BY <1>3, <1>8, <2>1, <2>2, <2>5, <2>7, <2>8 DEF HeardOK
<1>11. CASE Finished
  <2>1. txState = "IDLE" /\ fired /\ txDone /\ ~Ready
    BY <1>11 DEF Finished, Ready, Idle
  <2>2. Finished' /\ txFlag'
    BY <1>1, <1>2, <1>3, <1>11, TxQuietEdge
  <2>3. ~Ready' /\ txState' = "IDLE"
    BY <2>2 DEF Finished, Ready, Idle
  <2>4. txData' = txData
    BY <1>3, <2>1 DEF TxEdge, TxIdle, TxStart, TxData, TxStop
  <2>5. ear \in {0, Last}
    BY <1>1, <2>1 DEF EarPlace
  <2>6. ear' = 0
    BY <1>5, <2>1, <2>5
  <2>7. heard' = 1 /\ heardWord' = want
    <3>1. CASE ear = Last
      <4>1. heard = 0
        BY <1>4, <1>8, <3>1 DEF Unheard
      <4> QED BY <1>6, <1>8, <2>1, <3>1, <4>1
    <3>2. CASE ear = 0
      <4>1. heard = 1 /\ heardWord = want
        BY <1>8, <2>1, <3>2 DEF Unheard
      <4> QED BY <1>4, <1>6, <3>2, <4>1
    <3> QED BY <2>5, <3>1, <3>2
  <2>8. ~Unheard' /\ (heard <= 1)'
    BY <2>3, <2>6, <2>7 DEF Unheard
  <2> QED BY <1>3, <1>8, <2>1, <2>4, <2>6, <2>7, <2>8 DEF HeardOK
<1> QED BY <1>1, <1>9, <1>10, <1>11 DEF TxPhase

LEMMA HeardOKStep ==
  ASSUME SentInv, Next
  PROVE  HeardOK'
<1>1. TypeInv /\ TxPhase /\ HeardOK
  BY DEF SentInv, TxInv
<1>2. held \in Flags /\ heard \in Nat
  BY <1>1 DEF TypeInv, TypeOK
<1>3. NoStore.reg # "TDR" /\ \A f : StoreCfg(f).reg # "TDR"
  BY DEF NoStore, StoreCfg
<1>4. heard <= 1 /\ 0 <= 1
  BY <1>1 DEF HeardOK
<1>5. CASE pc = "poll"
  <2>1. CASE Wait
    BY <1>5, <2>1, HeardPoll DEF Wait
  <2>2. CASE Poll
    BY <1>5, <2>2, HeardPoll DEF Poll, LoadCfg, Access
  <2>3. Wait \/ Poll
    BY <1>5 DEF Next, Begin, Program, PutWord, LoadForStart, Start,
         LoadForClear, ClearTx, Sent, Look, LoadRdr, LoadForAck, ClearRx,
         LoadCfg, WriteCfg, Access
  <2> QED BY <2>1, <2>2, <2>3
<1>6. ASSUME pc # "poll", NEW store, NEW loads, Edge(store, loads),
             store.reg # "TDR"
      PROVE  /\ ear' = 0 /\ heardWord' = heardWord /\ heard' = heard
             /\ tdr' = tdr /\ heard' <= 1
  BY <1>4, <1>6, HeardRest
<1>7. CASE Wait /\ pc # "poll"
  <2>1. Edge(NoStore, FALSE) /\ pc' = pc /\ want' = want
    BY <1>7 DEF Wait
  <2> QED BY <1>1, <1>3, <1>6, <1>7, <2>1 DEF HeardOK
<1>8. CASE Begin
  <2>1. Edge(NoStore, FALSE) /\ pc = "idle" /\ pc' \in {"tdr", "look"}
    BY <1>8 DEF Begin
  <2> QED BY <1>3, <1>6, <2>1 DEF HeardOK
<1>9. CASE Sent
  <2>1. Edge(NoStore, FALSE) /\ pc = "sent" /\ pc' = "idle"
    BY <1>9 DEF Sent
  <2> QED BY <1>3, <1>6, <2>1 DEF HeardOK
<1>10. CASE PutWord
  <2>1. /\ Edge(StoreTdr(want), "tdr" = "rdr") /\ pc = "tdr" /\ pc' = "rdStart"
        /\ want' = want
    BY <1>10 DEF PutWord, Access
  <2>2. StoreTdr(want).reg = "TDR" /\ StoreTdr(want).word = want
    BY DEF StoreTdr
  <2>3. ear' = 0 /\ heard' = 0 /\ tdr' = want'
    BY <2>1, <2>2, HeardRest
  <2>4. (heard <= 1)'
    BY <2>3
  <2> QED BY <2>1, <2>3, <2>4 DEF HeardOK
<1>11. CASE LoadForStart \/ LoadForClear
  <2>1. /\ \E loads : Edge(NoStore, loads)
        /\ \/ pc = "rdStart" /\ pc' = "start"
           \/ pc = "rdClear" /\ pc' = "clear"
        /\ want' = want
    BY <1>11 DEF LoadForStart, LoadForClear, LoadCfg, Access
  <2>2. pc # "poll"
    BY <2>1
  <2>3. /\ ear' = 0 /\ heardWord' = heardWord /\ heard' = heard
        /\ tdr' = tdr /\ heard' <= 1
    BY <1>3, <1>6, <2>1, <2>2
  <2> QED BY <1>1, <2>1, <2>3 DEF HeardOK
<1>12. CASE Look \/ LoadRdr \/ LoadForAck
  <2>1. /\ \E loads : Edge(NoStore, loads)
        /\ pc # "poll" /\ pc' \in {"rdr", "idle", "rdAck", "ack"}
    BY <1>12 DEF Look, LoadRdr, LoadForAck, LoadCfg, Access
  <2>2. ear' = 0 /\ heard' <= 1
    BY <1>3, <1>6, <2>1
  <2> QED BY <2>1, <2>2 DEF HeardOK
<1>13. CASE ClearRx
  <2>1. /\ \E f, loads : Edge(StoreCfg(f), loads)
        /\ pc = "ack" /\ pc' = "idle"
    BY <1>13 DEF ClearRx, WriteCfg, Access
  <2>2. ear' = 0 /\ heard' <= 1
    BY <1>3, <1>6, <2>1
  <2> QED BY <2>1, <2>2 DEF HeardOK
<1>14. CASE ClearTx
  <2>1. /\ \E f, loads : Edge(StoreCfg(f), loads)
        /\ pc = "clear" /\ pc' = "sent" /\ want' = want
    BY <1>14 DEF ClearTx, WriteCfg, Access
  <2>2. /\ ear' = 0 /\ heardWord' = heardWord /\ heard' = heard /\ heard' <= 1
    BY <1>3, <1>6, <2>1
  <2> QED BY <1>1, <2>1, <2>2 DEF HeardOK
<1>15. CASE Start
  <2>1. /\ Edge(StoreCfg([held EXCEPT !.en = TRUE]), "start" = "rdr")
        /\ pc = "start" /\ pc' = "poll" /\ want' = want
    BY <1>15 DEF Start, WriteCfg, Access
  <2>2. /\ ear' = 0 /\ heardWord' = heardWord /\ heard' = heard
        /\ tdr' = tdr /\ heard' <= 1
    BY <1>3, <1>6, <2>1
  <2>3. tdr = want /\ heard = 0 /\ Ready /\ ~en
    BY <1>1, <2>1 DEF HeardOK, TxPhase
  <2>4. [held EXCEPT !.en = TRUE] \in Flags
    BY <1>2 DEF Flags
  <2>5. Ready'
    BY <1>1, <2>1, <2>3, <2>4, TxCfgEdge DEF Edge, TypeInv
  <2>6. Unheard' /\ ~Finished'
    BY <2>5 DEF Unheard, Ready, Idle, Finished
  <2> QED BY <2>1, <2>2, <2>3, <2>5, <2>6 DEF HeardOK
<1> QED BY <1>5, <1>7, <1>8, <1>9, <1>10, <1>11, <1>12, <1>13, <1>14, <1>15
        DEF Next, Program, Poll, LoadCfg, Access

(* putchar puts its word on the line exactly once: when it returns the     *)
(* other end has heard it, intact, and nothing else.                       *)
THEOREM SendsOnce == Spec => []SentOnce
<1>1. Init => SentInv
  <2> SUFFICES ASSUME Init PROVE SentInv
    OBVIOUS
  <2>1. TxInv
    BY TypeInit DEF TxInv, Init, TxPhase, Idle
  <2>2. PinOK /\ EarPlace
    BY DEF Init, PinOK, EarPlace
  <2>3. EarBits
    BY Places, Params DEF Init, EarBits
  <2>4. HeardOK
    BY DEF Init, HeardOK
  <2> QED BY <2>1, <2>2, <2>3, <2>4 DEF SentInv
<1>2. SentInv /\ [Next]_vars => SentInv'
  <2> SUFFICES ASSUME SentInv, [Next]_vars PROVE SentInv'
    OBVIOUS
  <2>1. TypeOK /\ TypeInv /\ TxPhase /\ PinOK /\ EarPlace /\ EarBits
    BY DEF SentInv, TxInv, TypeInv
  <2>2. CASE Next
    <3>1. PICK store \in Stores, loads \in BOOLEAN : Edge(store, loads)
      BY <2>1, <2>2, NextEdge DEF TypeInv
    <3>2. TxEdge /\ EarEdge(store.reg = "TDR") /\ (store.reg = "TDR") \in BOOLEAN
      BY <3>1 DEF Edge
    <3>3. TypeInv' /\ TxPhase'
      BY <2>1, <2>2, TypeStep, TxPhaseStep
    <3>4. PinOK' /\ EarPlace' /\ EarBits'
      BY <2>1, <3>2, PinStep, EarPlaceStep, EarBitsStep
    <3>5. HeardOK'
      BY <2>2, HeardOKStep
    <3> QED BY <3>3, <3>4, <3>5 DEF SentInv, TxInv
  <2>3. CASE UNCHANGED vars
    <3>1. TxInv'
      BY <2>3, TxUnchanged DEF SentInv
    <3>2. PinOK' /\ EarPlace' /\ EarBits'
      BY <2>1, <2>3 DEF PinOK, EarPlace, EarBits, vars, txVars, earVars
    <3>3. HeardOK'
      BY <2>3 DEF SentInv, HeardOK, Unheard, Ready, Idle, Finished,
                  vars, regVars, txVars, earVars, progVars
    <3> QED BY <3>1, <3>2, <3>3 DEF SentInv
  <2> QED BY <2>2, <2>3
<1>3. SentInv => SentOnce
  BY DEF SentInv, HeardOK, SentOnce
<1> QED BY <1>1, <1>2, <1>3, PTL DEF Spec
=============================================================================
