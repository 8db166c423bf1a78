-------------------------------- MODULE Uart --------------------------------
(***************************************************************************)
(* The UART, one step per clock edge: the registers of axi_uart.v, the     *)
(* transmitter uart_tx.v, the receiver uart_rx.v, the device at the other  *)
(* end of both lines (external) and a program.                             *)
(*                                                                         *)
(* Data: a word is a function from bit numbers to bits; the lines carry    *)
(* single bits, so that every sampling point is a matter of the model.     *)
(* UART_CFG[1] and [2] are never read back (a load returns the live flags) *)
(* and have no variable.  The prescalers are constants: uart_init has run, *)
(* and the other end was silent until then.                                *)
(***************************************************************************)
EXTENDS Naturals

CONSTANTS Prescaler,   \* UART_PRE: clock cycles per bit
          StopCfg,     \* UART_STP[1:0]
          DataBits,    \* bits of a word (8)
          Words,       \* the words that are sent either way
          BitTimes,    \* bit times of the other end, in our clock cycles
          Nil,         \* "no word"
          MinGap,      \* clock edges between two accesses of the program
          Programs     \* what the program may be (see below)

ASSUME UartAssumption ==
  /\ Prescaler \in Nat /\ Prescaler >= 2 /\ StopCfg \in 0 .. 3
  /\ DataBits \in Nat \ {0} /\ MinGap \in Nat \ {0}
  /\ Words \subseteq [0 .. DataBits - 1 -> {0, 1}]
  /\ BitTimes \subseteq Nat \ {0} /\ Nil \notin Words
  /\ Programs \subseteq {"talk", "listen", "both"}

VARIABLES
  en, tdr,                       \* UART_CFG[0], UART_TDR
  txRst, rxRst, txFlag, rxFlag,  \* reset pulses, registered flags
  txState, txCnt, txBit, txData, fired, txDone, txPin,
  sync0, sync1, rxState, rxCnt, rxBit, rxData, rdr, rxDone,
  peerWord, peerBit, peerCnt, peerTime,  \* what the other end is sending
  ear, earWord, heard, heardWord,        \* what it has heard from us
  lastSent, owed, unread,        \* history: receptions due, not yet read
  program, pc, gap, want, held, got      \* the program

regVars == <<en, tdr, txRst, rxRst, txFlag, rxFlag>>
txVars == <<txState, txCnt, txBit, txData, fired, txDone, txPin>>
rxVars == <<sync0, sync1, rxState, rxCnt, rxBit, rxData, rdr, rxDone>>
peerVars == <<peerWord, peerBit, peerCnt, peerTime>>
earVars == <<ear, earWord, heard, heardWord>>
pastVars == <<lastSent, owed, unread>>
progVars == <<program, pc, gap, want, held, got>>
vars == <<regVars, txVars, rxVars, peerVars, earVars, pastVars, progVars>>

ZeroWord == [b \in 0 .. DataBits - 1 |-> 0]
AllWords == [0 .. DataBits - 1 -> {0, 1}]
Flags == [tx: BOOLEAN, rx: BOOLEAN, en: BOOLEAN]

Init ==
  /\ en = FALSE /\ tdr = ZeroWord
  /\ txRst = FALSE /\ rxRst = FALSE /\ txFlag = FALSE /\ rxFlag = FALSE
  /\ txState = "IDLE" /\ txCnt = 0 /\ txBit = 0 /\ txData = ZeroWord
  /\ fired = FALSE /\ txDone = FALSE /\ txPin = 1
  /\ sync0 = 1 /\ sync1 = 1 /\ rxState = "IDLE" /\ rxCnt = 0 /\ rxBit = 0
  /\ rxData = ZeroWord /\ rdr = ZeroWord /\ rxDone = FALSE
  /\ peerWord = Nil /\ peerBit = 0 /\ peerCnt = 0 /\ peerTime \in BitTimes
  /\ ear = 0 /\ earWord = ZeroWord /\ heard = 0 /\ heardWord = Nil
  /\ lastSent = Nil /\ owed = FALSE /\ unread = FALSE
  /\ program \in Programs
  /\ pc = "idle" /\ gap = 0 /\ want = Nil /\ got = Nil
  /\ held = [tx |-> FALSE, rx |-> FALSE, en |-> FALSE]

(* The length of a stop bit, given the length of a bit. *)
StopTime(time) == CASE StopCfg = 0 -> time
                    [] StopCfg = 1 -> time + time \div 2
                    [] OTHER       -> 2 * time

-----------------------------------------------------------------------------
(* The transmitter.  A reset pulse is applied first; what the state machine *)
(* assigns to the same register wins.                                       *)
Clear(flag) == flag /\ ~txRst

(* Mutated form of TxIdle: completion is a pulse instead of a level. *)
TxIdle_PulsedDone ==
  /\ txState = "IDLE"
  /\ txCnt' = 0 /\ txBit' = 0 /\ txPin' = 1 /\ txDone' = FALSE
  /\ IF en /\ ~fired /\ ~txDone
     THEN txData' = tdr /\ fired' = TRUE /\ txState' = "START"
     ELSE fired' = Clear(fired) /\ UNCHANGED <<txData, txState>>

TxIdle ==
  /\ txState = "IDLE"
  /\ txCnt' = 0 /\ txBit' = 0 /\ txPin' = 1 /\ txDone' = Clear(txDone)
  /\ IF en /\ ~fired /\ ~txDone
     THEN txData' = tdr /\ fired' = TRUE /\ txState' = "START"
     ELSE fired' = Clear(fired) /\ UNCHANGED <<txData, txState>>

TxStart ==
  /\ txState = "START" /\ txPin' = 0
  /\ IF txCnt < Prescaler - 1
     THEN txCnt' = txCnt + 1 /\ txState' = txState
     ELSE txCnt' = 0 /\ txState' = "DATA"
  /\ txDone' = Clear(txDone) /\ fired' = Clear(fired)
  /\ UNCHANGED <<txBit, txData>>

TxData ==
  /\ txState = "DATA" /\ txPin' = txData[txBit]
  /\ IF txCnt < Prescaler - 1
     THEN txCnt' = txCnt + 1 /\ UNCHANGED <<txBit, txState>>
     ELSE /\ txCnt' = 0
          /\ IF txBit < DataBits - 1
             THEN txBit' = txBit + 1 /\ txState' = txState
             ELSE txBit' = 0 /\ txState' = "STOP"
  /\ txDone' = Clear(txDone) /\ fired' = Clear(fired)
  /\ UNCHANGED txData

TxStop ==
  /\ txState = "STOP" /\ txPin' = 1
  /\ IF txCnt < StopTime(Prescaler) - 1
     THEN txCnt' = txCnt + 1 /\ txState' = txState /\ txDone' = Clear(txDone)
     ELSE txCnt' = 0 /\ txState' = "IDLE" /\ txDone' = TRUE
  /\ fired' = Clear(fired)
  /\ UNCHANGED <<txBit, txData>>

TxEdge == TxIdle \/ TxStart \/ TxData \/ TxStop

-----------------------------------------------------------------------------
(* The receiver, behind a two-stage synchronizer.                          *)
Line == IF peerCnt = 0 THEN 1
        ELSE IF peerBit = 0 THEN 0
        ELSE IF peerBit <= DataBits THEN peerWord[peerBit - 1]
        ELSE 1

RxIdle ==
  /\ rxState = "IDLE"
  /\ rxBit' = 0 /\ rxCnt' = 0
  /\ rxState' = IF sync1 = 0 THEN "START" ELSE "IDLE"
  /\ rxDone' = (rxDone /\ ~rxRst)
  /\ UNCHANGED <<rxData, rdr>>

(* Mutated form of RxStart: a low level is a start bit at once. *)
RxStart_NoCheck ==
  /\ rxState = "START"
  /\ IF rxCnt >= Prescaler \div 2
     THEN rxCnt' = Prescaler \div 2 /\ rxState' = "DATA"
     ELSE rxCnt' = rxCnt + 1 /\ rxState' = rxState
  /\ rxDone' = (rxDone /\ ~rxRst)
  /\ UNCHANGED <<rxBit, rxData, rdr>>

RxStart ==
  /\ rxState = "START"
  /\ IF sync1 = 1
     THEN rxCnt' = 0 /\ rxState' = "IDLE"
     ELSE IF rxCnt >= Prescaler \div 2
     THEN rxCnt' = Prescaler \div 2 /\ rxState' = "DATA"
     ELSE rxCnt' = rxCnt + 1 /\ rxState' = rxState
  /\ rxDone' = (rxDone /\ ~rxRst)
  /\ UNCHANGED <<rxBit, rxData, rdr>>

(* Mutated form of RxData: one bit too many. *)
RxData_ExtraBit ==
  /\ rxState = "DATA"
  /\ IF rxCnt < Prescaler - 1
     THEN rxCnt' = rxCnt + 1 /\ UNCHANGED <<rxData, rxBit, rxState>>
     ELSE /\ rxCnt' = 0 /\ rxData' = [rxData EXCEPT ![rxBit] = sync1]
          /\ IF rxBit < DataBits
             THEN rxBit' = rxBit + 1 /\ rxState' = rxState
             ELSE rxBit' = 0 /\ rxState' = "STOP"
  /\ rxDone' = (rxDone /\ ~rxRst)
  /\ UNCHANGED rdr

(* Mutated form of RxData: the flag cannot be cleared meanwhile. *)
RxData_IgnoresClear ==
  /\ rxState = "DATA"
  /\ IF rxCnt < Prescaler - 1
     THEN rxCnt' = rxCnt + 1 /\ UNCHANGED <<rxData, rxBit, rxState>>
     ELSE /\ rxCnt' = 0 /\ rxData' = [rxData EXCEPT ![rxBit] = sync1]
          /\ IF rxBit < DataBits - 1
             THEN rxBit' = rxBit + 1 /\ rxState' = rxState
             ELSE rxBit' = 0 /\ rxState' = "STOP"
  /\ rxDone' = rxDone
  /\ UNCHANGED rdr

RxData ==
  /\ rxState = "DATA"
  /\ IF rxCnt < Prescaler - 1
     THEN rxCnt' = rxCnt + 1 /\ UNCHANGED <<rxData, rxBit, rxState>>
     ELSE /\ rxCnt' = 0 /\ rxData' = [rxData EXCEPT ![rxBit] = sync1]
          /\ IF rxBit < DataBits - 1
             THEN rxBit' = rxBit + 1 /\ rxState' = rxState
             ELSE rxBit' = 0 /\ rxState' = "STOP"
  /\ rxDone' = (rxDone /\ ~rxRst)
  /\ UNCHANGED rdr

RxStop ==
  /\ rxState = "STOP"
  /\ IF rxCnt < StopTime(Prescaler) - 1
     THEN /\ rxCnt' = rxCnt + 1 /\ rxDone' = (rxDone /\ ~rxRst)
          /\ UNCHANGED <<rdr, rxState>>
     ELSE /\ rxCnt' = 0 /\ rxState' = "IDLE"
          /\ rdr' = IF sync1 = 1 THEN rxData ELSE rdr
          /\ rxDone' = (sync1 = 1 \/ (rxDone /\ ~rxRst))
  /\ UNCHANGED <<rxBit, rxData>>

RxEdge == /\ sync0' = Line /\ sync1' = sync0
          /\ RxIdle \/ RxStart \/ RxData \/ RxStop

-----------------------------------------------------------------------------
(* The registers.  Writing UART_CFG sets the enable bit and clears each    *)
(* flag written as 0; a completed transmission takes the enable bit back.  *)
NoStore == [reg |-> "none"]
StoreCfg(flags) == [reg |-> "CFG", flags |-> flags]
StoreTdr(word) == [reg |-> "TDR", word |-> word]

(* Mutated form of RegsEdge: the reset pulse lasts until the next store. *)
RegsEdge_StuckPulse(store) ==
  /\ tdr' = IF store.reg = "TDR" THEN store.word ELSE tdr
  /\ en' = (~txFlag /\ IF store.reg = "CFG" THEN store.flags.en ELSE en)
  /\ rxRst' = IF store.reg = "CFG" THEN ~store.flags.rx ELSE rxRst
  /\ txRst' = IF store.reg = "CFG" THEN ~store.flags.tx ELSE txRst
  /\ txFlag' = txDone /\ rxFlag' = rxDone

RegsEdge(store) ==
  /\ tdr' = IF store.reg = "TDR" THEN store.word ELSE tdr
  /\ en' = (~txFlag /\ IF store.reg = "CFG" THEN store.flags.en ELSE en)
  /\ rxRst' = (store.reg = "CFG" /\ ~store.flags.rx)
  /\ txRst' = (store.reg = "CFG" /\ ~store.flags.tx)
  /\ txFlag' = txDone /\ rxFlag' = rxDone

(* What a load of UART_CFG returns. *)
Cfg == [tx |-> txFlag, rx |-> rxFlag, en |-> en]

-----------------------------------------------------------------------------
(* The other end.  It sends a word at a bit time of its own, at any phase  *)
(* of our clock, or disturbs the line for at most half a bit (peerWord is  *)
(* Nil then), also right behind the stop bit of the word before; it hears  *)
(* us by sampling the middle of each bit.                                  *)
BitLength(bit, time) ==
  IF bit <= DataBits THEN time ELSE StopTime(time)

PeerStarts ==
  /\ peerCnt = 0 \/ (peerCnt = 1 /\ peerBit = DataBits + 1)
  /\ \E time \in BitTimes :
       /\ peerTime' = time /\ peerBit' = 0
       /\ \/ peerWord' \in Words /\ peerCnt' = time
          \/ peerWord' = Nil /\ peerCnt' \in 1 .. Prescaler \div 2

PeerSilent == peerCnt = 0 /\ UNCHANGED peerVars

PeerSends ==
  /\ peerCnt > 0
  /\ IF peerCnt > 1 \/ peerBit = DataBits + 1 \/ peerWord = Nil
     THEN peerCnt' = peerCnt - 1 /\ peerBit' = peerBit
     ELSE /\ peerBit' = peerBit + 1
          /\ peerCnt' = BitLength(peerBit + 1, peerTime)
  /\ UNCHANGED <<peerWord, peerTime>>

PeerEdge == PeerStarts \/ PeerSilent \/ PeerSends

Middle(bit) == Prescaler \div 2 + bit * Prescaler

EarEdge(restart) ==
  LET count == IF restart THEN 0 ELSE heard
      last == ear = Middle(DataBits + 1)
  IN  /\ ear' = IF last THEN 0
                ELSE IF ear = 0 /\ txPin = 1 THEN 0 ELSE ear + 1
      /\ earWord' = [b \in 0 .. DataBits - 1 |->
                       IF ear = Middle(b + 1) THEN txPin ELSE earWord[b]]
      /\ heard' = IF ~last THEN count
                  ELSE IF txPin = 1 THEN count + 1 ELSE 2
      /\ heardWord' = IF last THEN earWord ELSE heardWord

-----------------------------------------------------------------------------
(* History.  A reception is owed once the stop bit has begun, and unread   *)
(* from its completion until the program loads UART_RDR.                   *)
StopBegins == peerBit = DataBits /\ peerBit' = DataBits + 1
Completes == rxState = "STOP" /\ rxState' = "IDLE"

PastEdge(loadsRdr) ==
  /\ lastSent' = IF StopBegins THEN peerWord ELSE lastSent
  /\ owed' = (StopBegins \/ (owed /\ ~Completes))
  /\ unread' = ((Completes /\ sync1 = 1) \/ (unread /\ ~loadsRdr))

Edge(store, loadsRdr) ==
  /\ TxEdge /\ RxEdge /\ RegsEdge(store)
  /\ PeerEdge /\ EarEdge(store.reg = "TDR") /\ PastEdge(loadsRdr)

-----------------------------------------------------------------------------
(* The program talks, listens or does both in turn.  putchar stores the    *)
(* word, sets the enable bit by a load and a store of UART_CFG, polls for  *)
(* completion and clears the flag by another load and store.  Listening    *)
(* (external: the repository has no such function) follows the comments of *)
(* axi_uart.v: see the flag, load the word, clear the flag, without delay; *)
(* a program that only listens looks all the time.                         *)
(*                                                                         *)
(* Access is the edge at which an access takes effect: how the AXI side of *)
(* axi_uart.v brings it about is the subject of AxiBus.                    *)
Access(from, to, store) ==
  /\ pc = from /\ gap = 0 /\ pc' = to /\ gap' = MinGap - 1
  /\ UNCHANGED program
  /\ Edge(store, from = "rdr")

LoadCfg(from, to) == /\ Access(from, to, NoStore) /\ held' = Cfg
                     /\ UNCHANGED <<want, got>>
WriteCfg(from, to, flags) == /\ Access(from, to, StoreCfg(flags))
                             /\ UNCHANGED <<want, held, got>>

Prompt == {"rdr", "rdAck", "ack"}
          \cup IF program = "listen" THEN {"idle", "look"} ELSE {}
Elapse == gap' = IF gap > 0 THEN gap - 1 ELSE 0

Wait == /\ pc \in Prompt => gap > 0
        /\ Elapse /\ UNCHANGED <<program, pc, want, held, got>>
        /\ Edge(NoStore, FALSE)

Begin == /\ pc = "idle"
         /\ \/ program # "listen" /\ pc' = "tdr" /\ want' \in Words
            \/ program # "talk" /\ pc' = "look" /\ want' = want
         /\ Elapse /\ UNCHANGED <<program, held, got>>
         /\ Edge(NoStore, FALSE)

PutWord == /\ Access("tdr", "rdStart", StoreTdr(want))
           /\ UNCHANGED <<want, held, got>>
LoadForStart == LoadCfg("rdStart", "start")
Start == WriteCfg("start", "poll", [held EXCEPT !.en = TRUE])
(* Mutated form of Poll: it looks at the other flag. *)
Poll_WrongFlag == LoadCfg("poll", IF rxFlag THEN "rdClear" ELSE "poll")
Poll == LoadCfg("poll", IF txFlag THEN "rdClear" ELSE "poll")
LoadForClear == LoadCfg("rdClear", "clear")
ClearTx == WriteCfg("clear", "sent", [held EXCEPT !.tx = FALSE])
Sent == /\ pc = "sent" /\ pc' = "idle" /\ Elapse
        /\ UNCHANGED <<program, want, held, got>> /\ Edge(NoStore, FALSE)

Look == LoadCfg("look", IF rxFlag THEN "rdr" ELSE "idle")
LoadRdr == /\ Access("rdr", "rdAck", NoStore) /\ got' = rdr
           /\ UNCHANGED <<want, held>>
LoadForAck == LoadCfg("rdAck", "ack")
ClearRx == WriteCfg("ack", "idle", [held EXCEPT !.rx = FALSE])

Program == \/ PutWord \/ LoadForStart \/ Start \/ Poll \/ LoadForClear
           \/ ClearTx \/ Sent \/ Look \/ LoadRdr \/ LoadForAck \/ ClearRx
Next == Wait \/ Begin \/ Program

Spec == Init /\ [][Next]_vars

-----------------------------------------------------------------------------
(* Type invariant. *)
TypeOK ==
  /\ {en, txRst, rxRst, txFlag, rxFlag, fired, txDone, rxDone, owed,
      unread} \subseteq BOOLEAN
  /\ {tdr, txData, rxData, rdr, earWord} \subseteq AllWords
  /\ {txState, rxState} \subseteq {"IDLE", "START", "DATA", "STOP"}
  /\ txCnt \in 0 .. StopTime(Prescaler) - 1
  /\ rxCnt \in 0 .. StopTime(Prescaler) - 1
  /\ {txBit, rxBit} \subseteq 0 .. DataBits - 1
  /\ {txPin, sync0, sync1} \subseteq {0, 1}
  /\ {peerWord, want, lastSent} \subseteq Words \cup {Nil}
  /\ {got, heardWord} \subseteq AllWords \cup {Nil}
  /\ peerBit \in 0 .. DataBits + 1 /\ peerTime \in BitTimes
  /\ peerCnt \in 0 .. StopTime(peerTime) \cup 1 .. Prescaler
  /\ ear \in 0 .. Middle(DataBits + 1) /\ heard \in Nat
  /\ program \in Programs
  /\ pc \in {"idle", "tdr", "rdStart", "start", "poll", "rdClear", "clear",
             "sent", "look", "rdr", "rdAck", "ack"}
  /\ gap \in 0 .. MinGap - 1 /\ held \in Flags

(* putchar puts its word on the line exactly once: when it returns the     *)
(* other end has heard the word, and it never hears another frame.         *)
SentOnce == /\ heard <= 1
            /\ pc = "sent" => heard = 1 /\ heardWord = want

(* Every word sent to us, at any phase of the clock, is received once and  *)
(* intact, also back to back, and a short disturbance is not a word.       *)
ReceivesEach ==
  [][ /\ StopBegins => ~owed
      /\ Completes => owed /\ rdr' = lastSent ]_vars

(* A word that was received and not yet read is announced by its flag.     *)
ReceptionKept == unread => rxDone

(* The program never takes the same reception twice: the flag it sees is   *)
(* never a leftover of a word it has loaded before.                        *)
TakenOnce == pc = "rdr" => unread

(* While the program listens only, no reception is lost.                   *)
ListenerLosesNothing == program = "listen" => ReceptionKept

(* putchar polls for something that will come: while it polls, the         *)
(* transmitter is about to start, at work, or done and holding its flag.   *)
PollIsAnswered ==
  pc = "poll" => \/ en /\ ~fired
                 \/ txState # "IDLE"
                 \/ txDone
=============================================================================
