----------------------------- MODULE StreamProc -----------------------------
(***************************************************************************)
(* axi_stream_data_processing.v, one step per clock edge: a batch of words *)
(* comes in on one AXI stream, is complemented word by word, and goes out  *)
(* on another.  The streams are driven by a bench (external) in the manner *)
(* of tb_axi_stream_data_processing.cpp: it sends a batch, waits, and      *)
(* reads a batch or sends another one first.                               *)
(***************************************************************************)
EXTENDS Naturals, Sequences

CONSTANTS N,           \* NUMBER_OF_INPUT_WORDS, NUMBER_OF_OUTPUT_WORDS (8)
          MaxWord,     \* words are 0 .. MaxWord
          Settle,      \* edges the bench waits after a batch (20 to 40)
          Pauses,      \* the source may drop TVALID between two words
          Handshakes   \* the sink takes a word when TVALID and TREADY meet

Words == 0 .. MaxWord
Places == 0 .. N - 1

ASSUME StreamAssumption ==
  /\ N \in Nat /\ N >= 2 /\ MaxWord \in Nat /\ Settle \in Nat
  /\ {Pauses, Handshakes} \subseteq BOOLEAN

VARIABLES
  inState, received, writePtr, dataIn,       \* input side
  processed, processPtr, dataOut,            \* processing
  outState, txDone, deassert, readPtr,       \* output side
  tvalid, tlast, tdata,                      \* M_AXIS_*
  sValid, sData, sLast,                      \* S_AXIS_*
  pc, clock, sent, batch, got                \* the bench

inVars == <<inState, received, writePtr, dataIn>>
workVars == <<processed, processPtr, dataOut>>
outVars == <<outState, txDone, deassert, readPtr, tvalid, tlast, tdata>>
benchVars == <<sValid, sData, sLast, pc, clock, sent, batch, got>>
vars == <<inVars, workVars, outVars, benchVars>>

(* Reset does not drive the two buffers. *)
Init ==
  /\ inState = "IDLE" /\ received = FALSE /\ writePtr = 0
  /\ dataIn \in [Places -> Words] /\ dataOut \in [Places -> Words]
  /\ processed = FALSE /\ processPtr = 0
  /\ outState = "IDLE" /\ txDone = FALSE /\ deassert = FALSE /\ readPtr = 0
  /\ tvalid = FALSE /\ tlast = FALSE /\ tdata = 0
  /\ sValid = FALSE /\ sData = 0 /\ sLast = FALSE
  /\ pc = "rest" /\ clock = 0
  /\ sent = <<>> /\ batch = <<>> /\ got = <<>>

-----------------------------------------------------------------------------
(* Input: words are stored while the state machine is in WRITE.            *)
Tready == inState = "WRITE" /\ writePtr <= N - 1
Wren == sValid /\ Tready

InState ==
  inState' = CASE inState = "IDLE"  -> IF sValid THEN "WRITE" ELSE "IDLE"
               [] inState = "WRITE" -> IF received THEN "FULL" ELSE "WRITE"
               [] OTHER             -> IF processed THEN "IDLE" ELSE "FULL"

(* Mutated form of InPointer: words are counted when they are offered. *)
InPointer_CountsOffers ==
  LET open == writePtr <= N - 1 \/ sLast
      complete == open /\ (writePtr = N - 1 \/ sLast)
  IN  /\ writePtr' = IF processed THEN 0
                     ELSE IF sValid THEN writePtr + 1 ELSE writePtr
      /\ received' = (~processed /\ (complete \/ (received /\ ~sValid)))

(* Mutated form of InPointer: the pointer is not reset. *)
InPointer_NoReset ==
  LET open == writePtr <= N - 1 \/ sLast
      complete == open /\ (writePtr = N - 1 \/ sLast)
  IN  /\ writePtr' = IF Wren THEN writePtr + 1 ELSE writePtr
      /\ received' = (~processed /\ (complete \/ (received /\ ~Wren)))

(* The pointer, and the flag that a batch is complete.  The flag does not  *)
(* look at whether the last word is really there.                          *)
InPointer ==
  LET open == writePtr <= N - 1 \/ sLast
      complete == open /\ (writePtr = N - 1 \/ sLast)
  IN  /\ writePtr' = IF processed THEN 0
                     ELSE IF Wren THEN writePtr + 1 ELSE writePtr
      /\ received' = (~processed /\ (complete \/ (received /\ ~Wren)))

Store == dataIn' = IF Wren THEN [dataIn EXCEPT ![writePtr] = sData]
                   ELSE dataIn

InEdge == InState /\ InPointer /\ Store

(* Mutated form of WorkEdge: the pointer is not reset. *)
WorkEdge_NoReset ==
  IF received
  THEN IF processPtr = N
       THEN processed' = TRUE /\ UNCHANGED <<processPtr, dataOut>>
       ELSE /\ dataOut' = [dataOut EXCEPT ![processPtr] =
                             MaxWord - dataIn[processPtr]]
            /\ processPtr' = processPtr + 1 /\ processed' = processed
  ELSE processed' = FALSE /\ UNCHANGED <<processPtr, dataOut>>

(* Processing: one word per cycle as long as a batch is complete.          *)
WorkEdge ==
  IF received
  THEN IF processPtr = N
       THEN processed' = TRUE /\ UNCHANGED <<processPtr, dataOut>>
       ELSE /\ dataOut' = [dataOut EXCEPT ![processPtr] =
                             MaxWord - dataIn[processPtr]]
            /\ processPtr' = processPtr + 1 /\ processed' = processed
  ELSE processed' = FALSE /\ processPtr' = 0 /\ dataOut' = dataOut

-----------------------------------------------------------------------------
(* Output: TVALID and TLAST follow the pointer one cycle late, the data    *)
(* register only moves when the sink is ready.                             *)
OutValid == outState = "WRITE" /\ readPtr < N
TxEn(ready) == ready /\ OutValid

OutState ==
  IF outState = "IDLE"
  THEN outState' = (IF processed THEN "WRITE" ELSE "IDLE") /\ deassert' = FALSE
  ELSE IF txDone
  THEN outState' = "IDLE" /\ deassert' = TRUE
  ELSE UNCHANGED <<outState, deassert>>

OutPointer(ready) ==
  /\ readPtr' = CASE readPtr = N   -> 0
                  [] TxEn(ready)   -> readPtr + 1
                  [] OTHER         -> readPtr
  /\ txDone' = (~deassert /\ (readPtr = N \/ (txDone /\ ~TxEn(ready))))

OutRegisters(ready) ==
  /\ tvalid' = OutValid /\ tlast' = (readPtr = N - 1)
  /\ tdata' = IF TxEn(ready) THEN dataOut[readPtr] ELSE tdata

OutEdge(ready) == OutState /\ OutPointer(ready) /\ OutRegisters(ready)

Edge(ready) == InEdge /\ WorkEdge /\ OutEdge(ready)

-----------------------------------------------------------------------------
(* The bench.  Between batches and reads it waits Settle edges at least.   *)
Rest == /\ pc = "rest"
        /\ clock' = IF clock > 0 THEN clock - 1 ELSE 0
        /\ Edge(FALSE)
        /\ UNCHANGED <<sValid, sData, sLast, pc, sent, batch, got>>

Present(count) == /\ sValid' = TRUE /\ sData' \in Words
                  /\ sLast' \in IF count = N - 1 THEN BOOLEAN ELSE {FALSE}
Withdraw == sValid' = FALSE /\ sLast' = FALSE /\ UNCHANGED sData

BeginSend == /\ pc = "rest" /\ clock = 0 /\ pc' = "send" /\ sent' = <<>>
             /\ Present(0) /\ Edge(FALSE)
             /\ UNCHANGED <<clock, batch, got>>

(* A word is held until the edge at which TREADY is up.                    *)
Send == /\ pc = "send" /\ sent' = IF Wren THEN Append(sent, sData) ELSE sent
        /\ IF Len(sent') = N
           THEN /\ Withdraw /\ pc' = "rest" /\ clock' = Settle
                /\ batch' = sent'
           ELSE /\ UNCHANGED <<pc, clock, batch>>
                /\ IF sValid /\ ~Wren THEN UNCHANGED <<sValid, sData, sLast>>
                   ELSE Present(Len(sent')) \/ (Pauses /\ Withdraw)
        /\ Edge(FALSE) /\ UNCHANGED got

BeginRead == /\ pc = "rest" /\ clock = 0 /\ batch # <<>> /\ pc' = "read"
             /\ got' = <<>> /\ Edge(FALSE)
             /\ UNCHANGED <<sValid, sData, sLast, clock, sent, batch>>

(* The sink of the test bench keeps TREADY up and looks at TDATA and TLAST *)
(* after each edge; a sink that handshakes takes a word at the edge at     *)
(* which TVALID and TREADY are up.                                         *)
Read == \E ready \in IF Handshakes THEN BOOLEAN ELSE {TRUE} :
          LET takes == ~Handshakes \/ (tvalid /\ ready)
              word == IF Handshakes THEN tdata ELSE tdata'
              ends == IF Handshakes THEN takes /\ tlast ELSE tlast'
          IN  /\ pc = "read" /\ Edge(ready)
              /\ got' = IF takes THEN Append(got, word) ELSE got
              /\ pc' = IF ends THEN "check" ELSE "read"
              /\ UNCHANGED <<sValid, sData, sLast, clock, sent, batch>>

EndRead == /\ pc = "check" /\ pc' = "rest" /\ clock' = Settle
           /\ batch' = <<>> /\ Edge(FALSE)
           /\ UNCHANGED <<sValid, sData, sLast, sent, got>>

Next == Rest \/ BeginSend \/ Send \/ BeginRead \/ Read \/ EndRead

(* The clock runs. *)
Fairness == WF_vars(Next)
Spec == Init /\ [][Next]_vars
FairSpec == Spec /\ Fairness

-----------------------------------------------------------------------------
(* Type invariant. *)
TypeOK ==
  /\ inState \in {"IDLE", "WRITE", "FULL"} /\ outState \in {"IDLE", "WRITE"}
  /\ {received, processed, txDone, deassert, tvalid, tlast, sValid, sLast}
       \subseteq BOOLEAN
  /\ {writePtr, processPtr, readPtr} \subseteq 0 .. N
  /\ dataIn \in [Places -> Words] /\ dataOut \in [Places -> Words]
  /\ {tdata, sData} \subseteq Words
  /\ pc \in {"rest", "send", "read", "check"} /\ clock \in 0 .. Settle
  /\ {sent, batch, got} \subseteq Seq(Words)
  /\ Len(sent) <= N /\ Len(batch) <= N

(* What is read, up to and including the word marked by TLAST, is the last *)
(* batch sent, complemented: no word missing, repeated or left over from   *)
(* an earlier batch, also when an earlier batch was never read.            *)
ReadsLastBatch ==
  pc = "check" => got = [i \in 1 .. Len(batch) |-> MaxWord - batch[i]]

(* Sending and reading a batch both come to an end.                        *)
BatchCompletes == pc \in {"send", "read"} ~> pc = "rest"
=============================================================================
