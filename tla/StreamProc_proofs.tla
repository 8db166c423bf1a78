-------------------------- MODULE StreamProc_proofs --------------------------
(***************************************************************************)
(* Proofs about StreamProc: its type, for any source and any sink, and     *)
(* that a batch is read back complemented, for a source that does not      *)
(* pause and the sink of the test bench.                                   *)
(***************************************************************************)
EXTENDS StreamProc, TLAPS

(* Words are only added to a batch that is not complete. *)
TypeInv == TypeOK /\ (pc = "send" => Len(sent) < N)

-----------------------------------------------------------------------------
(* Where the block is, for each place the bench can be at.  Between two    *)
(* batches the edges since the bench last let go of a stream count.        *)
Age == Settle - clock

(* The first words of s are in the input buffer; the first k words of s    *)
(* are in the output buffer, complemented.                                 *)
Stored(s) == \A i \in 1 .. Len(s) : dataIn[i - 1] = s[i]
Worked(s, k) == \A i \in 1 .. k : dataOut[i - 1] = MaxWord - s[i]

(* The input side waits for a batch. *)
InQuiet == /\ inState = "IDLE" /\ ~received /\ writePtr = 0
           /\ ~processed /\ processPtr = 0

(* The output side has nothing under way. *)
OutQuiet == ~txDone /\ ~deassert

(* A batch is coming in: each word that was taken is stored, and an        *)
(* earlier batch may still wait to be read.                                *)
Filling ==
  /\ sValid /\ (sLast => Len(sent) = N - 1)
  /\ inState \in {"IDLE", "WRITE"} /\ (inState = "IDLE" => Len(sent) = 0)
  /\ ~received /\ writePtr = Len(sent) /\ ~processed /\ processPtr = 0
  /\ Stored(sent)
  /\ OutQuiet /\ readPtr = 0
  /\ outState = IF batch = <<>> THEN "IDLE" ELSE "WRITE"

(* A batch is in: one word is worked on at each edge, then the two state   *)
(* machines are told, and the input side opens again.                      *)
Working ==
  /\ Len(batch) = N /\ OutQuiet /\ readPtr = 0
  /\ Age <= N + 1 =>
       /\ inState = IF Age = 0 THEN "WRITE" ELSE "FULL"
       /\ received /\ writePtr = N /\ Stored(batch)
       /\ processPtr = IF Age <= N THEN Age ELSE N
       /\ (processed <=> Age = N + 1)
       /\ Worked(batch, processPtr)
  /\ Age = N + 2 =>
       /\ inState = "IDLE" /\ ~received /\ writePtr = 0
       /\ processed /\ processPtr = N
  /\ Age >= N + 2 => outState = "WRITE" /\ Worked(batch, N)
  /\ Age >= N + 3 => InQuiet

(* No batch is in: the output side closes, in two edges. *)
Drained ==
  /\ InQuiet /\ readPtr = 0
  /\ outState = IF Age = 0 THEN "WRITE" ELSE "IDLE"
  /\ (txDone <=> Age <= 1) /\ (deassert <=> Age = 1)

(* A batch is going out: the words read so far are its first words. *)
Reading ==
  /\ InQuiet /\ OutQuiet /\ outState = "WRITE"
  /\ Len(batch) = N /\ Worked(batch, N)
  /\ readPtr = Len(got) /\ (pc = "read" <=> Len(got) < N)
  /\ \A i \in 1 .. Len(got) : got[i] = MaxWord - batch[i]

Place ==
  /\ pc # "send" => ~sValid /\ ~sLast
  /\ pc = "send" => Filling
  /\ pc = "rest" /\ batch # <<>> => Working
  /\ pc = "rest" /\ batch = <<>> => Drained
  /\ pc \in {"read", "check"} => Reading

BatchInv == TypeInv /\ Place

-----------------------------------------------------------------------------
(* Types.  The block keeps its own for whatever the bench puts on the      *)
(* streams.                                                                *)
BlockTyped ==
  /\ inState \in {"IDLE", "WRITE", "FULL"} /\ outState \in {"IDLE", "WRITE"}
  /\ {received, processed, txDone, deassert, tvalid, tlast} \subseteq BOOLEAN
  /\ {writePtr, processPtr, readPtr} \subseteq 0 .. N
  /\ dataIn \in [Places -> Words] /\ dataOut \in [Places -> Words]
  /\ tdata \in Words

BenchTyped ==
  /\ {sValid, sLast} \subseteq BOOLEAN /\ sData \in Words
  /\ pc \in {"rest", "send", "read", "check"} /\ clock \in 0 .. Settle
  /\ sent \in Seq(Words) /\ batch \in Seq(Words) /\ got \in Seq(Words)
  /\ Len(sent) <= N /\ Len(batch) <= N

LEMMA TypeParts == TypeOK <=> BlockTyped /\ BenchTyped
BY DEF TypeOK, BlockTyped, BenchTyped

LEMMA TypePartsNext == TypeOK' <=> BlockTyped' /\ BenchTyped'
BY DEF TypeOK, BlockTyped, BenchTyped

LEMMA InTyped ==
  ASSUME BlockTyped, BenchTyped, InEdge
  PROVE  /\ inState' \in {"IDLE", "WRITE", "FULL"} /\ received' \in BOOLEAN
         /\ writePtr' \in 0 .. N /\ dataIn' \in [Places -> Words]
<1> USE DEF BlockTyped, BenchTyped
<1>1. inState' \in {"IDLE", "WRITE", "FULL"}
  BY DEF InEdge, InState
<1>2. received' \in BOOLEAN
  BY Zenon DEF InEdge, InPointer
<1>3. writePtr' \in 0 .. N
  BY StreamAssumption DEF InEdge, InPointer, Wren, Tready
<1>4. dataIn' \in [Places -> Words]
  <2>1. CASE Wren
    BY <2>1, StreamAssumption DEF InEdge, Store, Wren, Tready, Places
  <2>2. CASE ~Wren
    BY <2>2 DEF InEdge, Store
  <2> QED BY <2>1, <2>2
<1> QED BY <1>1, <1>2, <1>3, <1>4

LEMMA WorkTyped ==
  ASSUME BlockTyped, WorkEdge
  PROVE  /\ processed' \in BOOLEAN /\ processPtr' \in 0 .. N
         /\ dataOut' \in [Places -> Words]
<1> USE DEF BlockTyped
<1>1. processed' \in BOOLEAN
  BY Zenon DEF WorkEdge
<1>2. processPtr' \in 0 .. N
  BY StreamAssumption DEF WorkEdge
<1>3. dataOut' \in [Places -> Words]
  <2>1. CASE received /\ processPtr # N
    <3>1. processPtr \in Places
      BY <2>1, StreamAssumption DEF Places
    <3>2. MaxWord - dataIn[processPtr] \in Words
      BY <3>1, StreamAssumption DEF Words
    <3> QED BY <2>1, <3>1, <3>2 DEF WorkEdge
  <2>2. CASE ~(received /\ processPtr # N)
    BY <2>2 DEF WorkEdge
  <2> QED BY <2>1, <2>2
<1> QED BY <1>1, <1>2, <1>3

LEMMA OutTyped ==
  ASSUME BlockTyped, NEW ready \in BOOLEAN, OutEdge(ready)
  PROVE  /\ outState' \in {"IDLE", "WRITE"} /\ txDone' \in BOOLEAN
         /\ deassert' \in BOOLEAN /\ readPtr' \in 0 .. N
         /\ tvalid' \in BOOLEAN /\ tlast' \in BOOLEAN /\ tdata' \in Words
<1> USE DEF BlockTyped
<1>1. outState' \in {"IDLE", "WRITE"}
  BY DEF OutEdge, OutState
<1>2. deassert' \in BOOLEAN
  BY Zenon DEF OutEdge, OutState
<1>3. txDone' \in BOOLEAN
  BY Zenon DEF OutEdge, OutPointer
<1>4. readPtr' \in 0 .. N
  BY StreamAssumption DEF OutEdge, OutPointer, TxEn, OutValid
<1>5. tvalid' \in BOOLEAN /\ tlast' \in BOOLEAN
  BY Zenon DEF OutEdge, OutRegisters, OutValid
<1>6. tdata' \in Words
  <2>1. CASE TxEn(ready)
    <3>1. readPtr \in Places
      BY <2>1, StreamAssumption DEF TxEn, OutValid, Places
    <3> QED BY <2>1, <3>1 DEF OutEdge, OutRegisters
  <2>2. CASE ~TxEn(ready)
    BY <2>2 DEF OutEdge, OutRegisters
  <2> QED BY <2>1, <2>2
<1> QED BY <1>1, <1>2, <1>3, <1>4, <1>5, <1>6

LEMMA BlockKeepsType ==
  ASSUME BlockTyped, BenchTyped, NEW ready \in BOOLEAN, Edge(ready)
  PROVE  BlockTyped'
<1>1. InEdge /\ WorkEdge /\ OutEdge(ready)
  BY DEF Edge
<1> QED BY <1>1, InTyped, WorkTyped, OutTyped, Zenon DEF BlockTyped

LEMMA PresentTyped ==
  ASSUME NEW count \in Nat, Present(count)
  PROVE  sValid' /\ sLast' \in BOOLEAN /\ sData' \in Words
BY DEF Present

LEMMA TypeStep ==
  ASSUME TypeInv, [Next]_vars
  PROVE  TypeInv'
<1> DEFINE Sending == pc = "send" => Len(sent) < N
<1>1. BlockTyped /\ BenchTyped /\ Sending
  BY TypeParts DEF TypeInv
<1>2. SUFFICES BlockTyped' /\ BenchTyped' /\ Sending'
  BY TypePartsNext DEF TypeInv
<1>3. CASE Rest
  <2>1. BlockTyped'
    BY <1>1, <1>3, BlockKeepsType DEF Rest
  <2>2. clock' \in 0 .. Settle
    BY <1>1, <1>3, StreamAssumption DEF Rest, BenchTyped
  <2> QED BY <1>1, <1>3, <2>1, <2>2 DEF Rest, BenchTyped
<1>4. CASE BeginSend
  <2>1. BlockTyped'
    BY <1>1, <1>4, BlockKeepsType DEF BeginSend
  <2>2. sValid' /\ sLast' \in BOOLEAN /\ sData' \in Words
    BY <1>4, PresentTyped DEF BeginSend
  <2>3. sValid' \in BOOLEAN
    BY <1>4, Zenon DEF BeginSend, Present
  <2>4. pc' = "send" /\ sent' = <<>> /\ UNCHANGED <<clock, batch, got>>
    BY <1>4 DEF BeginSend
  <2> QED BY <1>1, <2>1, <2>2, <2>3, <2>4, StreamAssumption DEF BenchTyped
<1>5. CASE Send
  <2>1. BlockTyped'
    BY <1>1, <1>5, BlockKeepsType DEF Send
  <2>2. sent' \in Seq(Words) /\ Len(sent') <= N
    <3>1. CASE Wren
      <4>1. sent' = Append(sent, sData)
        BY <1>5, <3>1 DEF Send
      <4> QED BY <1>1, <1>5, <4>1, StreamAssumption DEF BenchTyped, Send
    <3>2. CASE ~Wren
      BY <1>1, <1>5, <3>2 DEF BenchTyped, Send
    <3> QED BY <3>1, <3>2
  <2>3. CASE Len(sent') = N
    <3>1. /\ Withdraw /\ pc' = "rest" /\ clock' = Settle /\ batch' = sent'
          /\ got' = got
      BY <1>5, <2>3 DEF Send
    <3>2. sValid' \in BOOLEAN /\ sLast' \in BOOLEAN /\ sData' \in Words
      BY <1>1, <3>1 DEF BenchTyped, Withdraw
    <3> QED BY <1>1, <2>1, <2>2, <3>1, <3>2, StreamAssumption DEF BenchTyped
  <2>4. CASE Len(sent') # N
    <3>1. pc' = pc /\ clock' = clock /\ batch' = batch /\ got' = got
      BY <1>5, <2>4 DEF Send
    <3>2. \/ UNCHANGED <<sValid, sData, sLast>>
          \/ Present(Len(sent')) \/ Withdraw
      BY <1>5, <2>4, Zenon DEF Send
    <3>3. sValid' \in BOOLEAN /\ sLast' \in BOOLEAN /\ sData' \in Words
      <4>1. CASE UNCHANGED <<sValid, sData, sLast>>
        BY <1>1, <4>1 DEF BenchTyped
      <4>2. CASE Present(Len(sent'))
        <5>1. sValid' \in BOOLEAN
          BY <4>2, Zenon DEF Present
        <5>2. Len(sent') \in Nat
          BY <2>2
        <5> QED BY <4>2, <5>1, <5>2, PresentTyped
      <4>3. CASE Withdraw
        BY <1>1, <4>3 DEF BenchTyped, Withdraw
      <4> QED BY <3>2, <4>1, <4>2, <4>3
    <3>4. Len(sent') < N
      BY <2>2, <2>4, StreamAssumption
    <3> QED BY <1>1, <2>1, <2>2, <3>1, <3>3, <3>4 DEF BenchTyped
  <2> QED BY <2>3, <2>4
<1>6. CASE BeginRead
  <2>1. BlockTyped'
    BY <1>1, <1>6, BlockKeepsType DEF BeginRead
  <2> QED BY <1>1, <1>6, <2>1 DEF BeginRead, BenchTyped
<1>7. CASE Read
  <2>1. PICK ready \in BOOLEAN :
          LET takes == ~Handshakes \/ (tvalid /\ ready)
              word == IF Handshakes THEN tdata ELSE tdata'
              ends == IF Handshakes THEN takes /\ tlast ELSE tlast'
          IN  /\ pc = "read" /\ Edge(ready)
              /\ got' = IF takes THEN Append(got, word) ELSE got
              /\ pc' = IF ends THEN "check" ELSE "read"
              /\ UNCHANGED <<sValid, sData, sLast, clock, sent, batch>>
    BY <1>7 DEF Read
  <2>2. BlockTyped'
    BY <1>1, <2>1, BlockKeepsType
  <2>3. tdata \in Words /\ tdata' \in Words
    BY <1>1, <2>2 DEF BlockTyped
  <2>4. got' \in Seq(Words)
    BY <1>1, <2>1, <2>3 DEF BenchTyped
  <2> QED BY <1>1, <2>1, <2>2, <2>4 DEF BenchTyped
<1>8. CASE EndRead
  <2>1. BlockTyped'
    BY <1>1, <1>8, BlockKeepsType DEF EndRead
  <2> QED BY <1>1, <1>8, <2>1, StreamAssumption DEF EndRead, BenchTyped
<1>9. CASE UNCHANGED vars
  BY <1>1, <1>9 DEF vars, inVars, workVars, outVars, benchVars, BlockTyped,
     BenchTyped
<1> QED BY <1>3, <1>4, <1>5, <1>6, <1>7, <1>8, <1>9 DEF Next

LEMMA TypeInit == Init => TypeInv
<1> SUFFICES ASSUME Init PROVE TypeInv
  OBVIOUS
<1> USE DEF Init
<1>1. BlockTyped
  <2>1. /\ {received, processed, txDone, deassert, tvalid, tlast} \subseteq BOOLEAN
        /\ inState \in {"IDLE", "WRITE", "FULL"} /\ outState \in {"IDLE", "WRITE"}
    BY Zenon
  <2>2. {writePtr, processPtr, readPtr} \subseteq 0 .. N /\ tdata \in Words
    BY StreamAssumption DEF Words
  <2> QED BY <2>1, <2>2, Zenon DEF BlockTyped
<1>2. BenchTyped
  <2>1. /\ {sValid, sLast} \subseteq BOOLEAN
        /\ pc \in {"rest", "send", "read", "check"}
    BY Zenon
  <2>2. sData \in Words /\ clock \in 0 .. Settle
    BY StreamAssumption DEF Words
  <2>3. /\ sent \in Seq(Words) /\ batch \in Seq(Words) /\ got \in Seq(Words)
        /\ Len(sent) <= N /\ Len(batch) <= N
    BY StreamAssumption
  <2> QED BY <2>1, <2>2, <2>3, Zenon DEF BenchTyped
<1> QED BY <1>1, <1>2, TypeParts DEF TypeInv, Init

(* The registers of the block and the bench's record of a batch stay in    *)
(* their ranges, for any source and any sink.  The pointers of the code    *)
(* are 8 bits wide and index buffers of N words: none of them passes N.    *)
THEOREM TypeCorrect == Spec => []TypeOK
<1>1. TypeInv /\ [Next]_vars => TypeInv'
  BY TypeStep
<1> QED BY TypeInit, <1>1, PTL DEF Spec, TypeInv

-----------------------------------------------------------------------------
(* What an edge does at rest, on either side of the block. *)
LEMMA InStays ==
  ASSUME InQuiet, ~sValid, ~sLast, InEdge, WorkEdge
  PROVE  InQuiet' /\ dataIn' = dataIn /\ dataOut' = dataOut
<1>1. ~Wren
  BY DEF Wren
<1>2. dataIn' = dataIn
  BY <1>1 DEF InEdge, Store
<1>3. inState' = "IDLE"
  BY DEF InEdge, InState, InQuiet
<1>4. ~received' /\ writePtr' = 0
  <2>1. writePtr # N - 1
    BY StreamAssumption DEF InQuiet
  <2> QED BY <1>1, <2>1, Zenon DEF InEdge, InPointer, InQuiet
<1>5. ~processed' /\ processPtr' = 0 /\ dataOut' = dataOut
  BY DEF WorkEdge, InQuiet
<1> QED BY <1>2, <1>3, <1>4, <1>5 DEF InQuiet

LEMMA OutWaits ==
  ASSUME OutQuiet, readPtr = 0, OutEdge(FALSE), outState \in {"IDLE", "WRITE"}
  PROVE  /\ OutQuiet' /\ readPtr' = 0
         /\ outState' = IF processed THEN "WRITE" ELSE outState
<1>1. ~TxEn(FALSE)
  BY DEF TxEn
<1>2. ~txDone' /\ readPtr' = 0
  <2>1. readPtr # N
    BY StreamAssumption
  <2>2. ~txDone'
    BY <1>1, <2>1, Zenon DEF OutEdge, OutPointer, OutQuiet
  <2>3. readPtr' = 0
    BY <1>1, <2>1 DEF OutEdge, OutPointer
  <2> QED BY <2>2, <2>3
<1>3. ~deassert'
  BY DEF OutEdge, OutState, OutQuiet
<1>4. outState' = IF processed THEN "WRITE" ELSE outState
  BY DEF OutEdge, OutState, OutQuiet
<1> QED BY <1>2, <1>3, <1>4 DEF OutQuiet

(* The bench rests until its clock has run out. *)
LEMMA RestAge ==
  ASSUME TypeInv, Rest
  PROVE  /\ Age \in 0 .. Settle
         /\ Age < Settle => Age' = Age + 1
         /\ Age = Settle => Age' = Age
<1>1. clock \in 0 .. Settle
  BY DEF TypeInv, TypeOK
<1>2. CASE clock > 0
  BY <1>1, <1>2, StreamAssumption DEF Rest, Age
<1>3. CASE clock = 0
  BY <1>3, StreamAssumption DEF Rest, Age
<1> QED BY <1>1, <1>2, <1>3, StreamAssumption DEF Age

(* After a batch was read the output side closes. *)
LEMMA DrainStep ==
  ASSUME TypeInv, Drained, ~sValid, ~sLast, Rest, Settle >= 2
  PROVE  Drained'
<1>1. /\ Age \in 0 .. Settle
      /\ Age < Settle => Age' = Age + 1
      /\ Age = Settle => Age' = Age
  BY RestAge
<1>2. InEdge /\ WorkEdge /\ OutEdge(FALSE)
  BY DEF Rest, Edge
<1>3. InQuiet'
  BY <1>2, InStays DEF Drained
<1>4. ~TxEn(FALSE)
  BY DEF TxEn
<1>5. readPtr' = 0
  BY <1>2, <1>4, StreamAssumption DEF OutEdge, OutPointer, Drained
<1>6. CASE Age = 0
  <2>1. outState = "WRITE" /\ txDone /\ ~deassert /\ Age' = 1
    BY StreamAssumption, <1>1, <1>6 DEF Drained
  <2>2. outState' = "IDLE" /\ deassert' /\ txDone'
    BY <1>2, <1>4, <2>1 DEF OutEdge, OutState, OutPointer
  <2> QED BY <1>3, <1>5, <2>1, <2>2 DEF Drained
<1>7. CASE Age = 1
  <2>1. outState = "IDLE" /\ txDone /\ deassert /\ Age' = 2
    BY StreamAssumption, <1>1, <1>7 DEF Drained
  <2>2. outState' = "IDLE" /\ ~deassert' /\ ~txDone'
    BY <1>2, <2>1, <1>7 DEF OutEdge, OutState, OutPointer, Drained, InQuiet
  <2> QED BY <1>3, <1>5, <2>1, <2>2 DEF Drained
<1>8. CASE Age >= 2
  <2>1. outState = "IDLE" /\ ~txDone /\ ~deassert /\ ~processed
    BY StreamAssumption, <1>1, <1>8 DEF Drained, InQuiet
  <2>2. Age' >= 2
    BY StreamAssumption, <1>1, <1>8
  <2>3. OutQuiet' /\ outState' = "IDLE"
    BY <1>2, <2>1, OutWaits DEF OutQuiet, Drained
  <2>4. ~(Age' <= 1) /\ Age' # 1 /\ Age' # 0
    BY StreamAssumption, <1>1, <2>2
  <2> QED BY <1>3, <1>5, <2>3, <2>4 DEF Drained, OutQuiet
<1> QED BY <1>1, <1>6, <1>7, <1>8

(* A batch is worked on and then announced. *)
LEMMA WorkingStep ==
  ASSUME TypeInv, Working, batch # <<>>, ~sValid, ~sLast, Rest, Settle >= N + 3
  PROVE  Working'
<1>1. /\ Age \in 0 .. Settle
      /\ Age < Settle => Age' = Age + 1
      /\ Age = Settle => Age' = Age
  BY RestAge
<1>2. InEdge /\ WorkEdge /\ OutEdge(FALSE) /\ batch' = batch
  BY DEF Rest, Edge
<1>3. outState \in {"IDLE", "WRITE"}
  BY DEF TypeInv, TypeOK
<1>4. /\ OutQuiet' /\ readPtr' = 0
      /\ outState' = IF processed THEN "WRITE" ELSE outState
  BY <1>2, <1>3, OutWaits DEF Working
<1>5. ~Wren
  BY DEF Wren
<1>6. dataIn' = dataIn
  BY <1>2, <1>5 DEF InEdge, Store
<1>7. Len(batch') = N
  BY <1>2 DEF Working
<1>8. writePtr = N => ~(writePtr <= N - 1) /\ writePtr # N - 1
  BY StreamAssumption
<1>9. CASE Age <= N
  <2>1. /\ inState = IF Age = 0 THEN "WRITE" ELSE "FULL"
        /\ received /\ writePtr = N /\ Stored(batch)
        /\ processPtr = Age /\ ~processed /\ Worked(batch, Age)
    BY <1>1, <1>9, StreamAssumption DEF Working
  <2>2. Age' = Age + 1
    BY <1>1, <1>9, StreamAssumption
  <2>3. inState' = "FULL"
    BY <1>2, <2>1 DEF InEdge, InState
  <2>4. writePtr' = N
    BY <1>2, <1>5, <2>1 DEF InEdge, InPointer
  <2>5. received'
    BY <1>2, <1>5, <2>1, Zenon DEF InEdge, InPointer
  <2>6. Stored(batch)'
    BY <1>2, <1>6, <2>1 DEF Stored
  <2>7. CASE Age = N
    <3>1. processed' /\ processPtr' = N /\ dataOut' = dataOut
      BY <1>2, <2>1, <2>7 DEF WorkEdge
    <3>2. Worked(batch, N)'
      BY <1>2, <2>1, <2>7, <3>1 DEF Worked
    <3>3. Age' = N + 1
      BY <2>2, <2>7
    <3> QED BY <1>4, <1>7, <2>3, <2>4, <2>5, <2>6, <3>1, <3>2, <3>3,
               StreamAssumption DEF Working
  <2>8. CASE Age < N
    <3>1. /\ ~processed' /\ processPtr' = Age + 1
          /\ dataOut' = [dataOut EXCEPT ![Age] = MaxWord - dataIn[Age]]
      BY <1>2, <2>1, <2>8, <1>1, StreamAssumption DEF WorkEdge
    <3>2. Age \in Places /\ dataOut \in [Places -> Words]
      BY <1>1, <2>8, StreamAssumption DEF Places, TypeInv, TypeOK
    <3>3. dataIn[Age] = batch[Age + 1]
      BY <1>1, <2>1, <2>8, StreamAssumption DEF Stored, Working
    <3>4. \A i \in 1 .. Age + 1 : dataOut'[i - 1] = MaxWord - batch[i]
      <4> SUFFICES ASSUME NEW i \in 1 .. Age + 1
                   PROVE  dataOut'[i - 1] = MaxWord - batch[i]
        OBVIOUS
      <4>1. CASE i = Age + 1
        BY <1>1, <3>1, <3>2, <3>3, <4>1
      <4>2. CASE i \in 1 .. Age
        BY <1>1, <2>1, <3>1, <3>2, <4>2 DEF Worked
      <4> QED BY <1>1, <4>1, <4>2
    <3>5. Worked(batch, processPtr)'
      BY <1>2, <3>1, <3>4 DEF Worked
    <3>6. /\ Age' <= N /\ Age' # 0 /\ Age' # N + 1 /\ Age' # N + 2
          /\ ~(Age' >= N + 2) /\ ~(Age' >= N + 3)
      BY <1>1, <2>2, <2>8, StreamAssumption
    <3>7. processPtr' = Age'
      BY <2>2, <3>1
    <3> QED BY <1>4, <1>7, <2>3, <2>4, <2>5, <2>6, <3>1, <3>5, <3>6, <3>7
            DEF Working
  <2> QED BY <1>1, <1>9, <2>7, <2>8, StreamAssumption
<1>10. CASE Age = N + 1
  <2>1. /\ inState = "FULL" /\ received /\ writePtr = N
        /\ processPtr = N /\ processed /\ Worked(batch, N)
    BY <1>1, <1>10, StreamAssumption DEF Working
  <2>2. Age' = N + 2
    BY <1>1, <1>10, StreamAssumption
  <2>3. inState' = "IDLE" /\ writePtr' = 0 /\ ~received'
    <3>1. inState' = "IDLE"
      BY <1>2, <2>1 DEF InEdge, InState
    <3>2. writePtr' = 0
      BY <1>2, <2>1 DEF InEdge, InPointer
    <3>3. ~received'
      BY <1>2, <2>1, Zenon DEF InEdge, InPointer
    <3> QED BY <3>1, <3>2, <3>3
  <2>4. processed' /\ processPtr' = N /\ dataOut' = dataOut
    BY <1>2, <2>1 DEF WorkEdge
  <2>5. Worked(batch, N)'
    BY <1>2, <2>1, <2>4 DEF Worked
  <2> QED BY <1>4, <1>7, <2>1, <2>2, <2>3, <2>4, <2>5, StreamAssumption
          DEF Working
<1>11. CASE Age = N + 2
  <2>1. /\ inState = "IDLE" /\ ~received /\ writePtr = 0
        /\ processed /\ processPtr = N /\ Worked(batch, N)
        /\ outState = "WRITE"
    BY <1>1, <1>11, StreamAssumption DEF Working
  <2>2. Age' = N + 3
    BY <1>1, <1>11, StreamAssumption
  <2>3. inState' = "IDLE" /\ writePtr' = 0 /\ ~received'
    <3>1. inState' = "IDLE"
      BY <1>2, <2>1 DEF InEdge, InState
    <3>2. writePtr' = 0
      BY <1>2, <2>1 DEF InEdge, InPointer
    <3>3. ~received'
      BY <1>2, <2>1, Zenon DEF InEdge, InPointer
    <3> QED BY <3>1, <3>2, <3>3
  <2>4. ~processed' /\ processPtr' = 0 /\ dataOut' = dataOut
    BY <1>2, <2>1 DEF WorkEdge
  <2>5. InQuiet' /\ Worked(batch, N)'
    BY <1>2, <2>1, <2>3, <2>4 DEF Worked, InQuiet
  <2> QED BY <1>4, <1>7, <2>1, <2>2, <2>5, StreamAssumption DEF Working
<1>12. CASE Age >= N + 3
  <2>1. InQuiet /\ Worked(batch, N) /\ outState = "WRITE"
    BY <1>1, <1>12, StreamAssumption DEF Working
  <2>2. InQuiet' /\ dataOut' = dataOut
    BY <1>2, <2>1, InStays
  <2>3. Worked(batch, N)'
    BY <1>2, <2>1, <2>2 DEF Worked
  <2>4. /\ ~(Age' <= N + 1) /\ Age' # N + 2
    BY <1>1, <1>12, StreamAssumption
  <2>5. outState' = "WRITE"
    BY <1>4, <2>1
  <2> QED BY <1>4, <1>7, <2>2, <2>3, <2>4, <2>5 DEF Working
<1> QED BY <1>1, <1>9, <1>10, <1>11, <1>12, StreamAssumption

-----------------------------------------------------------------------------
(* A batch comes in: the last word completes it. *)
LEMMA FillEdge ==
  ASSUME TypeInv, Filling, Len(sent) < N, Edge(FALSE),
         sent' = IF Wren THEN Append(sent, sData) ELSE sent
  PROVE  /\ Wren <=> inState = "WRITE"
         /\ inState' = "WRITE" /\ writePtr' = Len(sent') /\ Stored(sent)'
         /\ received' <=> Len(sent') = N
         /\ ~processed' /\ processPtr' = 0 /\ dataOut' = dataOut
         /\ OutQuiet' /\ readPtr' = 0 /\ outState' = outState
<1>1. InEdge /\ WorkEdge /\ OutEdge(FALSE)
  BY DEF Edge
<1>2. /\ sent \in Seq(Words) /\ sData \in Words /\ Len(sent) \in Nat
      /\ dataIn \in [Places -> Words] /\ outState \in {"IDLE", "WRITE"}
  BY DEF TypeInv, TypeOK
<1>3. Wren <=> inState = "WRITE"
  BY <1>2, StreamAssumption DEF Wren, Tready, Filling
<1>4. inState' = "WRITE"
  BY <1>1 DEF InEdge, InState, Filling
<1>5. /\ OutQuiet' /\ readPtr' = 0 /\ outState' = outState
  BY <1>1, <1>2, OutWaits DEF Filling
<1>6. ~processed' /\ processPtr' = 0 /\ dataOut' = dataOut
  BY <1>1 DEF WorkEdge, Filling
<1>7. CASE Wren
  <2>1. sent' = Append(sent, sData)
    BY <1>7
  <2>2. /\ Len(sent') = Len(sent) + 1 /\ sent'[Len(sent) + 1] = sData
        /\ \A i \in 1 .. Len(sent) : sent'[i] = sent[i]
    BY <1>2, <2>1
  <2>3. writePtr' = Len(sent')
    <3>1. writePtr' = writePtr + 1
      BY <1>1, <1>7 DEF InEdge, InPointer, Filling
    <3> QED BY <2>2, <3>1 DEF Filling
  <2>4. dataIn' = [dataIn EXCEPT ![Len(sent)] = sData]
    BY <1>1, <1>7 DEF InEdge, Store, Filling
  <2>5. Len(sent) \in Places
    BY <1>2, StreamAssumption DEF Places
  <2>6. \A i \in 1 .. Len(sent) + 1 : dataIn'[i - 1] = sent'[i]
    <3> SUFFICES ASSUME NEW i \in 1 .. Len(sent) + 1
                 PROVE  dataIn'[i - 1] = sent'[i]
      OBVIOUS
    <3>1. CASE i = Len(sent) + 1
      BY <1>2, <2>2, <2>4, <2>5, <3>1
    <3>2. CASE i \in 1 .. Len(sent)
      <4>1. i - 1 \in Places /\ i - 1 # Len(sent)
        BY <1>2, <3>2, StreamAssumption DEF Places
      <4>2. dataIn'[i - 1] = dataIn[i - 1]
        BY <1>2, <2>4, <4>1
      <4> QED BY <2>2, <3>2, <4>2 DEF Filling, Stored
    <3> QED BY <1>2, <3>1, <3>2
  <2>7. Stored(sent)'
    BY <2>2, <2>6 DEF Stored
  <2>8. received' <=> Len(sent') = N
    <3>1. Len(sent') = N <=> writePtr = N - 1
      BY <1>2, <2>2, StreamAssumption DEF Filling
    <3>2. writePtr <= N - 1 /\ (sLast => writePtr = N - 1)
      BY <1>2, StreamAssumption DEF Filling
    <3> QED BY <1>1, <1>7, <3>1, <3>2, Zenon DEF InEdge, InPointer, Filling
  <2> QED BY <1>3, <1>4, <1>5, <1>6, <2>3, <2>7, <2>8
<1>8. CASE ~Wren
  <2>1. sent' = sent /\ dataIn' = dataIn /\ Len(sent) = 0
    BY <1>1, <1>3, <1>8 DEF InEdge, Store, Filling
  <2>2. writePtr' = Len(sent')
    BY <1>1, <1>8, <2>1 DEF InEdge, InPointer, Filling
  <2>3. Stored(sent)'
    BY <2>1 DEF Stored, Filling
  <2>4. ~received' /\ Len(sent') # N
    <3>1. writePtr # N - 1 /\ ~sLast /\ Len(sent') # N
      BY <2>1, StreamAssumption DEF Filling
    <3> QED BY <1>1, <1>8, <3>1, Zenon DEF InEdge, InPointer, Filling
  <2> QED BY <1>3, <1>4, <1>5, <1>6, <2>2, <2>3, <2>4
<1> QED BY <1>7, <1>8

LEMMA SendStep ==
  ASSUME TypeInv, Place, Send, ~Pauses
  PROVE  Place'
<1>1. /\ Filling /\ Len(sent) < N /\ Edge(FALSE) /\ pc = "send"
      /\ sent' = IF Wren THEN Append(sent, sData) ELSE sent
  BY DEF Place, TypeInv, Send
<1>2. /\ Wren <=> inState = "WRITE"
      /\ inState' = "WRITE" /\ writePtr' = Len(sent') /\ Stored(sent)'
      /\ received' <=> Len(sent') = N
      /\ ~processed' /\ processPtr' = 0 /\ dataOut' = dataOut
      /\ OutQuiet' /\ readPtr' = 0 /\ outState' = outState
  BY <1>1, FillEdge
<1>3. CASE Len(sent') = N
  <2>1. Withdraw /\ pc' = "rest" /\ clock' = Settle /\ batch' = sent'
    BY <1>3 DEF Send
  <2>2. ~sValid' /\ ~sLast' /\ batch' # <<>>
    BY <1>3, <2>1, StreamAssumption DEF Withdraw
  <2>3. Age' = 0
    BY <2>1, StreamAssumption DEF Age
  <2>4. Stored(batch)'
    BY <1>2, <2>1 DEF Stored
  <2>5. Worked(batch, processPtr)'
    BY <1>2 DEF Worked
  <2>6. 0 <= N + 1 /\ 0 # N + 1 /\ 0 # N + 2 /\ ~(0 >= N + 2) /\ ~(0 >= N + 3)
        /\ 0 <= N
    BY StreamAssumption
  <2>7. Working'
    BY <1>2, <1>3, <2>1, <2>3, <2>4, <2>5, <2>6 DEF Working
  <2> QED BY <2>1, <2>2, <2>7 DEF Place
<1>4. CASE Len(sent') # N
  <2>1. pc' = "send" /\ batch' = batch
    BY <1>1, <1>4 DEF Send
  <2>2. IF sValid /\ ~Wren THEN UNCHANGED <<sValid, sData, sLast>>
        ELSE Present(Len(sent'))
    BY <1>4, Zenon DEF Send
  <2>3. sValid' /\ (sLast' => Len(sent') = N - 1)
    <3>1. CASE sValid /\ ~Wren
      BY <1>1, <2>2, <3>1 DEF Filling
    <3>2. CASE ~(sValid /\ ~Wren)
      BY <2>2, <3>2 DEF Present
    <3> QED BY <3>1, <3>2
  <2>4. Filling'
    <3>1. outState' = IF batch' = <<>> THEN "IDLE" ELSE "WRITE"
      BY <1>1, <1>2, <2>1 DEF Filling
    <3>2. ~received'
      BY <1>2, <1>4
    <3> QED BY <1>2, <2>3, <3>1, <3>2 DEF Filling
  <2> QED BY <2>1, <2>4 DEF Place
<1> QED BY <1>3, <1>4

LEMMA BeginSendStep ==
  ASSUME TypeInv, Place, BeginSend, Settle >= N + 3
  PROVE  Place'
<1>1. Age = Settle /\ Edge(FALSE) /\ pc = "rest" /\ ~sValid /\ ~sLast
  <2>1. pc = "rest" /\ clock = 0 /\ Edge(FALSE)
    BY DEF BeginSend
  <2>2. ~sValid /\ ~sLast
    BY <2>1 DEF Place
  <2>3. Age = Settle
    BY <2>1, StreamAssumption DEF Age
  <2> QED BY <2>1, <2>2, <2>3
<1>2. /\ InQuiet /\ OutQuiet /\ readPtr = 0
      /\ outState = IF batch = <<>> THEN "IDLE" ELSE "WRITE"
  <2>1. CASE batch = <<>>
    BY <1>1, <2>1, StreamAssumption DEF Place, Drained, OutQuiet
  <2>2. CASE batch # <<>>
    BY <1>1, <2>2, StreamAssumption DEF Place, Working
  <2> QED BY <2>1, <2>2
<1>3. InQuiet'
  BY <1>1, <1>2, InStays DEF Edge
<1>4. OutQuiet' /\ readPtr' = 0 /\ outState' = outState
  <2>1. outState \in {"IDLE", "WRITE"} /\ ~processed
    BY <1>2 DEF InQuiet
  <2> QED BY <1>1, <1>2, <2>1, OutWaits DEF Edge
<1>5. pc' = "send" /\ sent' = <<>> /\ batch' = batch /\ Present(0)
  BY DEF BeginSend
<1>6. sValid' /\ ~sLast' /\ Len(sent') = 0
  <2>1. 0 # N - 1
    BY StreamAssumption
  <2>2. sValid' /\ ~sLast'
    BY <1>5, <2>1, Zenon DEF Present
  <2> QED BY <1>5, <2>2
<1>7. Stored(sent)'
  BY <1>6 DEF Stored
<1>8. Filling'
  BY <1>2, <1>3, <1>4, <1>5, <1>6, <1>7 DEF Filling, InQuiet
<1> QED BY <1>5, <1>8 DEF Place

-----------------------------------------------------------------------------
(* A batch goes out: the bench reads until TLAST. *)
LEMMA BeginReadStep ==
  ASSUME TypeInv, Place, BeginRead, Settle >= N + 3
  PROVE  Place'
<1>1. /\ pc = "rest" /\ clock = 0 /\ batch # <<>> /\ Edge(FALSE)
      /\ pc' = "read" /\ got' = <<>>
      /\ UNCHANGED <<sValid, sData, sLast, clock, sent, batch>>
  BY DEF BeginRead
<1>2. ~sValid /\ ~sLast /\ Working
  BY <1>1 DEF Place
<1>3. Age = Settle
  BY <1>1, StreamAssumption DEF Age
<1>4. /\ InQuiet /\ OutQuiet /\ readPtr = 0 /\ outState = "WRITE"
      /\ Len(batch) = N /\ Worked(batch, N)
  BY <1>2, <1>3, StreamAssumption DEF Working
<1>5. InQuiet' /\ dataOut' = dataOut
  BY <1>1, <1>2, <1>4, InStays DEF Edge
<1>6. OutQuiet' /\ readPtr' = 0 /\ outState' = "WRITE"
  <2>1. outState \in {"IDLE", "WRITE"} /\ ~processed
    BY <1>4 DEF InQuiet
  <2> QED BY <1>1, <1>4, <2>1, OutWaits DEF Edge
<1>7. Worked(batch, N)'
  BY <1>1, <1>4, <1>5 DEF Worked
<1>8. Len(got') = 0 /\ 0 < N
  BY <1>1, StreamAssumption
<1>9. \A i \in 1 .. Len(got') : got'[i] = MaxWord - batch'[i]
  BY <1>8
<1>10. Reading'
  BY <1>1, <1>4, <1>5, <1>6, <1>7, <1>8, <1>9 DEF Reading
<1> QED BY <1>1, <1>2, <1>10 DEF Place

LEMMA ReadStep ==
  ASSUME TypeInv, Place, Read, ~Handshakes
  PROVE  Place'
<1>1. /\ pc = "read" /\ Edge(TRUE) /\ got' = Append(got, tdata')
      /\ pc' = IF tlast' THEN "check" ELSE "read"
      /\ UNCHANGED <<sValid, sData, sLast, clock, sent, batch>>
  BY DEF Read
<1>2. ~sValid /\ ~sLast /\ Reading
  BY <1>1 DEF Place
<1>3. /\ InQuiet /\ ~txDone /\ ~deassert /\ outState = "WRITE"
      /\ Len(batch) = N /\ Worked(batch, N)
      /\ readPtr = Len(got) /\ Len(got) < N
      /\ \A i \in 1 .. Len(got) : got[i] = MaxWord - batch[i]
  BY <1>1, <1>2 DEF Reading, OutQuiet
<1>4. /\ InEdge /\ WorkEdge /\ OutEdge(TRUE)
  BY <1>1 DEF Edge
<1>5. InQuiet' /\ dataOut' = dataOut
  BY <1>2, <1>3, <1>4, InStays
<1>6. got \in Seq(Words) /\ Len(got) \in Nat
  BY DEF TypeInv, TypeOK
<1>7. TxEn(TRUE) /\ readPtr # N
  BY <1>3, <1>6, StreamAssumption DEF TxEn, OutValid
<1>8. readPtr' = Len(got) + 1
  BY <1>3, <1>4, <1>7 DEF OutEdge, OutPointer
<1>9. outState' = "WRITE" /\ ~deassert'
  BY <1>3, <1>4 DEF OutEdge, OutState
<1>10. ~txDone'
  BY <1>3, <1>4, <1>7, Zenon DEF OutEdge, OutPointer
<1>11. tdata' = MaxWord - batch[Len(got) + 1]
  <2>1. tdata' = dataOut[Len(got)]
    BY <1>3, <1>4, <1>7 DEF OutEdge, OutRegisters
  <2>2. Len(got) + 1 \in 1 .. N
    BY <1>3, <1>6, StreamAssumption
  <2>3. dataOut[Len(got) + 1 - 1] = MaxWord - batch[Len(got) + 1]
    BY <1>3, <2>2 DEF Worked
  <2> QED BY <1>6, <2>1, <2>3
<1>12. tlast' <=> Len(got) = N - 1
  BY <1>3, <1>4, Zenon DEF OutEdge, OutRegisters
<1>13. /\ Len(got') = Len(got) + 1
       /\ \A i \in 1 .. Len(got) : got'[i] = got[i]
       /\ got'[Len(got) + 1] = tdata'
  <2>1. tdata' \in Words
    BY TypeParts, <1>4, OutTyped DEF TypeInv
  <2> QED BY <1>1, <1>6, <2>1
<1>14. \A i \in 1 .. Len(got) + 1 : got'[i] = MaxWord - batch[i]
  <2> SUFFICES ASSUME NEW i \in 1 .. Len(got) + 1
               PROVE  got'[i] = MaxWord - batch[i]
    OBVIOUS
  <2>1. CASE i = Len(got) + 1
    BY <1>11, <1>13, <2>1
  <2>2. CASE i \in 1 .. Len(got)
    BY <1>3, <1>13, <2>2
  <2> QED BY <1>6, <2>1, <2>2
<1>15. pc' \in {"read", "check"} /\ (pc' = "read" <=> Len(got) + 1 < N)
  BY <1>1, <1>3, <1>6, <1>12, StreamAssumption
<1>16. Worked(batch, N)'
  BY <1>1, <1>3, <1>5 DEF Worked
<1>17. Reading'
  <2>1. readPtr' = Len(got')
    BY <1>8, <1>13
  <2>2. pc' = "read" <=> Len(got') < N
    BY <1>13, <1>15
  <2>3. \A i \in 1 .. Len(got') : got'[i] = MaxWord - batch'[i]
    BY <1>1, <1>13, <1>14
  <2> QED BY <1>1, <1>3, <1>5, <1>9, <1>10, <1>16, <2>1, <2>2, <2>3
          DEF Reading, OutQuiet
<1> QED BY <1>1, <1>2, <1>15, <1>17 DEF Place

LEMMA EndReadStep ==
  ASSUME TypeInv, Place, EndRead
  PROVE  Place'
<1>1. /\ pc = "check" /\ Edge(FALSE) /\ pc' = "rest" /\ clock' = Settle
      /\ batch' = <<>> /\ UNCHANGED <<sValid, sData, sLast, sent, got>>
  BY DEF EndRead
<1>2. ~sValid /\ ~sLast /\ Reading
  BY <1>1 DEF Place
<1>3. /\ InQuiet /\ ~txDone /\ ~deassert /\ outState = "WRITE"
      /\ readPtr = Len(got) /\ ~(Len(got) < N)
  BY <1>1, <1>2 DEF Reading, OutQuiet
<1>4. InEdge /\ WorkEdge /\ OutEdge(FALSE)
  BY <1>1 DEF Edge
<1>5. InQuiet'
  BY <1>2, <1>3, <1>4, InStays
<1>6. readPtr = N
  <2>1. readPtr \in 0 .. N
    BY DEF TypeInv, TypeOK
  <2>2. ~(readPtr < N)
    BY <1>3
  <2> QED BY <2>1, <2>2, StreamAssumption
<1>7. readPtr' = 0
  <2>1. ~TxEn(FALSE)
    BY DEF TxEn
  <2> QED BY <1>4, <1>6, <2>1 DEF OutEdge, OutPointer
<1>8. txDone'
  BY <1>3, <1>4, <1>6, Zenon DEF OutEdge, OutPointer
<1>9. outState' = "WRITE" /\ ~deassert'
  BY <1>3, <1>4 DEF OutEdge, OutState
<1>10. Age' = 0
  BY <1>1, StreamAssumption DEF Age
<1>11. Drained'
  BY <1>5, <1>7, <1>8, <1>9, <1>10 DEF Drained
<1> QED BY <1>1, <1>2, <1>11 DEF Place

-----------------------------------------------------------------------------
LEMMA PlaceInit == Init /\ Settle >= 2 => Place
<1> SUFFICES ASSUME Init, Settle >= 2 PROVE Place
  OBVIOUS
<1>1. Age = Settle
  BY StreamAssumption DEF Init, Age
<1>2. Drained
  BY <1>1, StreamAssumption DEF Init, Drained, InQuiet
<1> QED BY <1>2 DEF Init, Place

LEMMA PlaceStep ==
  ASSUME TypeInv, Place, [Next]_vars, ~Pauses, ~Handshakes, Settle >= N + 3
  PROVE  Place'
<1>1. CASE Rest
  <2>1. ~sValid /\ ~sLast /\ pc = "rest"
    BY <1>1 DEF Rest, Place
  <2>2. pc' = pc /\ batch' = batch /\ sValid' = sValid /\ sLast' = sLast
    BY <1>1 DEF Rest
  <2>3. CASE batch = <<>>
    <3>1. Settle >= 2
      BY StreamAssumption
    <3>2. Drained'
      BY <1>1, <2>1, <2>3, <3>1, DrainStep DEF Place
    <3> QED BY <2>1, <2>2, <2>3, <3>2 DEF Place
  <2>4. CASE batch # <<>>
    <3>1. Working'
      BY <1>1, <2>1, <2>4, WorkingStep DEF Place
    <3> QED BY <2>1, <2>2, <2>4, <3>1 DEF Place
  <2> QED BY <2>3, <2>4
<1>2. CASE UNCHANGED vars
  BY <1>2 DEF vars, inVars, workVars, outVars, benchVars, Place, Filling,
     Working, Drained, Reading, InQuiet, OutQuiet, Age, Stored, Worked
<1> QED BY <1>1, <1>2, BeginSendStep, SendStep, BeginReadStep, ReadStep,
           EndReadStep DEF Next

(* What is read, up to and including the word marked by TLAST, is the last *)
(* batch sent, complemented, whatever the number of words and the words:   *)
(* for a source that does not pause, a sink that looks at the stream after *)
(* each edge, and a bench that leaves N + 3 edges between two batches: N   *)
(* for the words and one each to see the end, to tell the state machines   *)
(* and to open again (the bench leaves 20 at least for 8 words).           *)
THEOREM BatchComesBack ==
  ASSUME ~Pauses, ~Handshakes, Settle >= N + 3
  PROVE  Spec => []ReadsLastBatch
<1>1. Init => BatchInv
  BY TypeInit, PlaceInit, StreamAssumption DEF BatchInv
<1>2. BatchInv /\ [Next]_vars => BatchInv'
  BY TypeStep, PlaceStep DEF BatchInv
<1>3. BatchInv => ReadsLastBatch
  <2> SUFFICES ASSUME BatchInv, pc = "check"
               PROVE  got = [i \in 1 .. Len(batch) |-> MaxWord - batch[i]]
    BY DEF ReadsLastBatch
  <2>1. got \in Seq(Words)
    BY DEF BatchInv, TypeInv, TypeOK
  <2>2. /\ Len(batch) = N /\ readPtr = Len(got) /\ ~(Len(got) < N)
        /\ \A i \in 1 .. Len(got) : got[i] = MaxWord - batch[i]
    BY DEF BatchInv, Place, Reading
  <2>3. Len(got) = N
    BY <2>1, <2>2, StreamAssumption DEF BatchInv, TypeInv, TypeOK
  <2>4. got = [i \in 1 .. N |-> got[i]]
    BY <2>1, <2>3
  <2> QED BY <2>2, <2>3, <2>4
<1> QED BY <1>1, <1>2, <1>3, PTL DEF Spec

=============================================================================
