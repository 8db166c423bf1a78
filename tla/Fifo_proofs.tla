---------------------------- MODULE Fifo_proofs ----------------------------
(* Proofs about Fifo for every capacity and every set of words.            *)
EXTENDS Fifo, TLAPS

Inv == TypeOK /\ PointersAgree

(* The flags and the distance between two pointers.                        *)
LEMMA FlagsExact ==
  ASSUME NEW w \in 0 .. 2 * Depth - 1, NEW r \in 0 .. 2 * Depth - 1
  PROVE  /\ w = r <=> Distance(w, r) = 0
         /\ Slot(w) = Slot(r) /\ Lap(w) # Lap(r) <=> Distance(w, r) = Depth
<1>1. w = r <=> Distance(w, r) = 0
  BY FifoAssumption DEF Distance
<1>2. Slot(w) = Slot(r) /\ Lap(w) # Lap(r) <=> Distance(w, r) = Depth
  BY FifoAssumption DEF Distance, Slot, Lap
<1> QED BY <1>1, <1>2

LEMMA InitInv == Init => Inv
<1> SUFFICES ASSUME Init PROVE Inv
  OBVIOUS
<1>1. TypeOK
  BY FifoAssumption DEF Init, TypeOK
<1>2. Count <= Depth
  BY FifoAssumption DEF Init, Count, Distance
<1> QED BY <1>1, <1>2, FlagsExact
        DEF Inv, TypeOK, PointersAgree, Count, Full, Empty

(* Moving a pointer to the next slot.                                      *)
LEMMA IncFacts ==
  ASSUME NEW p \in 0 .. 2 * Depth - 1
  PROVE  Inc(p) \in 0 .. 2 * Depth - 1 /\ Slot(p) \in 0 .. Depth - 1
BY FifoAssumption DEF Inc, Slot

LEMMA StepInv ==
  ASSUME Inv, NEW wr \in BOOLEAN, NEW rd \in BOOLEAN, NEW flush \in BOOLEAN,
         NEW din \in Data, Edge(wr, din, rd, flush)
  PROVE  Inv'
<1> USE FifoAssumption DEF Inv
<1>1. wptr \in 0 .. 2 * Depth - 1 /\ rptr \in 0 .. 2 * Depth - 1
  BY DEF TypeOK
<1>2. wptr' \in 0 .. 2 * Depth - 1 /\ rptr' \in 0 .. 2 * Depth - 1
  BY <1>1, IncFacts DEF Edge, Pointers
<1>3. slots' \in [0 .. Depth - 1 -> Data] /\ dout' \in Data
  BY <1>1, IncFacts DEF TypeOK, Edge, WritePort, ReadPort
<1>4. TypeOK'
  BY <1>2, <1>3 DEF TypeOK
<1>5. Count' <= Depth
  BY <1>1, FlagsExact
  DEF PointersAgree, Count, Distance, Full, Empty, Inc, Edge, Pointers
<1>6. Full' <=> Count' = Depth
  BY <1>2, FlagsExact DEF Full, Count
<1>7. Empty' <=> Count' = 0
  BY <1>2, FlagsExact DEF Empty, Count
<1> QED BY <1>4, <1>5, <1>6, <1>7 DEF PointersAgree

(* The pointers never disagree by more than one lap, and full_o and        *)
(* empty_o tell exactly when the ring is full and empty, for every depth.  *)
THEOREM PointersCorrect == Spec => [](TypeOK /\ PointersAgree)
<1>1. Init => Inv
  BY InitInv
<1>2. Inv /\ [Next]_vars => Inv'
  <2> SUFFICES ASSUME Inv, [Next]_vars PROVE Inv'
    OBVIOUS
  <2>1. CASE Next
    BY <2>1, StepInv DEF Next
  <2>2. CASE UNCHANGED vars
    BY <2>2 DEF vars, Inv, TypeOK, PointersAgree, Count, Full, Empty
  <2> QED BY <2>1, <2>2
<1>3. Inv => TypeOK /\ PointersAgree
  BY DEF Inv
<1> QED BY <1>1, <1>2, <1>3, PTL DEF Spec

(* Pointers, slots and output of fifo.v keep their types.                  *)
THEOREM TypeCorrect == Spec => []TypeOK
BY PointersCorrect, PTL

-----------------------------------------------------------------------------
(* The words between two pointers form a sequence; length and entries.     *)
LEMMA ContentsFacts ==
  ASSUME NEW w \in 0 .. 2 * Depth - 1, NEW r \in 0 .. 2 * Depth - 1,
         NEW s \in [0 .. Depth - 1 -> Data], Distance(w, r) <= Depth
  PROVE  /\ Distance(w, r) \in 0 .. Depth
         /\ Contents(w, r, s) \in Seq(Data)
         /\ Len(Contents(w, r, s)) = Distance(w, r)
         /\ \A i \in 1 .. Distance(w, r) :
              /\ Place(r, i) \in 0 .. Depth - 1
              /\ Contents(w, r, s)[i] = s[Place(r, i)]
<1> USE FifoAssumption
<1>1. Distance(w, r) \in 0 .. Depth
  BY DEF Distance
<1>2. \A i \in 1 .. Distance(w, r) : Place(r, i) \in 0 .. Depth - 1
  BY <1>1 DEF Place, Slot
<1>3. Contents(w, r, s) \in [1 .. Distance(w, r) -> Data]
  BY <1>2 DEF Contents
<1>4. \A i \in 1 .. Distance(w, r) : Contents(w, r, s)[i] = s[Place(r, i)]
  BY DEF Contents
<1> QED BY <1>1, <1>2, <1>3, <1>4

(* How the places of the words move with the pointers.                     *)
LEMMA PlaceFacts ==
  ASSUME NEW w \in 0 .. 2 * Depth - 1, NEW r \in 0 .. 2 * Depth - 1,
         Distance(w, r) <= Depth
  PROVE  /\ \A i \in 1 .. Depth - 1 : Place(Inc(r), i) = Place(r, i + 1)
         /\ Distance(w, r) < Depth => Slot(w) = Place(r, Distance(w, r) + 1)
         /\ \A i, j \in 1 .. Depth : Place(r, i) = Place(r, j) => i = j
<1> USE FifoAssumption
<1>1. \A i \in 1 .. Depth - 1 : Place(Inc(r), i) = Place(r, i + 1)
  BY DEF Place, Slot, Inc
<1>2. Distance(w, r) < Depth => Slot(w) = Place(r, Distance(w, r) + 1)
  BY DEF Place, Slot, Distance
<1>3. \A i, j \in 1 .. Depth : Place(r, i) = Place(r, j) => i = j
  BY DEF Place, Slot
<1> QED BY <1>1, <1>2, <1>3

LEMMA DistanceFacts ==
  ASSUME NEW w \in 0 .. 2 * Depth - 1, NEW r \in 0 .. 2 * Depth - 1,
         Distance(w, r) <= Depth
  PROVE  /\ Distance(w, r) < Depth => Distance(Inc(w), r) = Distance(w, r) + 1
         /\ Distance(w, r) > 0 => Distance(w, Inc(r)) = Distance(w, r) - 1
         /\ Distance(w, r) \in 1 .. Depth - 1
              => Distance(Inc(w), Inc(r)) = Distance(w, r)
BY FifoAssumption DEF Distance, Inc

(* Effect of an edge without flush on the words held: the oldest leaves    *)
(* on a pop, the new one is added behind the others on a push.             *)
LEMMA HeldStep ==
  ASSUME Inv, Inv', NEW wr \in BOOLEAN, NEW rd \in BOOLEAN, NEW din \in Data,
         Edge(wr, din, rd, FALSE)
  PROVE  Held' = IF wr /\ Len(Held) # Depth
                 THEN Append(Queue!AfterPop(rd), din) ELSE Queue!AfterPop(rd)
<1> DEFINE pop == rd /\ ~Empty
           push == wr /\ ~Full
           gone == IF pop THEN 1 ELSE 0
           rest == Queue!AfterPop(rd)
           next == IF push THEN Append(rest, din) ELSE rest
<1> USE FifoAssumption
<1>1. /\ wptr \in 0 .. 2 * Depth - 1 /\ rptr \in 0 .. 2 * Depth - 1
      /\ slots \in [0 .. Depth - 1 -> Data]
      /\ Count = Distance(wptr, rptr) /\ Count <= Depth
      /\ Empty <=> Count = 0
      /\ Full <=> Count = Depth
  BY DEF Inv, TypeOK, PointersAgree, Count
<1>2. /\ Held \in Seq(Data) /\ Len(Held) = Count /\ Count \in 0 .. Depth
      /\ \A i \in 1 .. Count : Held[i] = slots[Place(rptr, i)]
  BY <1>1, ContentsFacts DEF Held
<1>3. /\ rest \in Seq(Data) /\ Len(rest) = Count - gone
      /\ \A i \in 1 .. Count - gone : rest[i] = slots[Place(rptr, i + gone)]
  <2>1. CASE pop
    <3>1. rest = Tail(Held) /\ Held # <<>>
      BY <2>1, <1>1, <1>2 DEF Queue!AfterPop
    <3>2. Count \in 1 .. Depth /\ gone = 1
      BY <2>1, <1>1, <1>2
    <3> HIDE DEF rest, gone
    <3>3. rest \in Seq(Data) /\ Len(rest) = Count - 1
      BY <3>1, <3>2, <1>2
    <3>4. \A i \in 1 .. Count - 1 : rest[i] = Held[i + 1]
      BY <3>1, <3>2, <1>2
    <3>5. \A i \in 1 .. Count - 1 : Held[i + 1] = slots[Place(rptr, i + 1)]
      BY <3>2, <1>2
    <3> QED BY <3>2, <3>3, <3>4, <3>5
  <2>2. CASE ~pop
    <3>1. rest = Held
      BY <2>2, <1>1, <1>2 DEF Queue!AfterPop
    <3> QED BY <2>2, <3>1, <1>1, <1>2
  <2> QED BY <2>1, <2>2
<1>4. /\ Count' = IF push THEN Count - gone + 1 ELSE Count - gone
      /\ rptr' = IF pop THEN Inc(rptr) ELSE rptr
  <2>1. /\ wptr' = IF push THEN Inc(wptr) ELSE wptr
        /\ rptr' = IF pop THEN Inc(rptr) ELSE rptr
    BY DEF Edge, Pointers
  <2>2. Count' = Distance(wptr', rptr')
    BY DEF Count
  <2>3. push => Count < Depth
    BY <1>1, <1>2
  <2>4. pop => Count > 0
    BY <1>1, <1>2
  <2> QED BY <1>1, <1>2, <2>1, <2>2, <2>3, <2>4, DistanceFacts
<1>5. /\ Held' \in Seq(Data) /\ Len(Held') = Count'
      /\ \A i \in 1 .. Count' : Held'[i] = slots'[Place(rptr', i)]
  <2>1. /\ wptr' \in 0 .. 2 * Depth - 1 /\ rptr' \in 0 .. 2 * Depth - 1
        /\ slots' \in [0 .. Depth - 1 -> Data]
        /\ Count' = Distance(wptr', rptr') /\ Count' <= Depth
    BY DEF Inv, TypeOK, PointersAgree, Count
  <2> QED BY <2>1, ContentsFacts DEF Held
<1> HIDE DEF rest, gone
<1>6. \A i \in 1 .. Count' : Place(rptr', i) = Place(rptr, i + gone)
  <2>1. CASE pop
    <3>1. gone = 1 /\ rptr' = Inc(rptr)
      BY <2>1, <1>4 DEF gone
    <3>2. Count' < Depth
      BY <2>1, <3>1, <1>1, <1>2, <1>4
    <3>3. \A i \in 1 .. Depth - 1 : Place(Inc(rptr), i) = Place(rptr, i + 1)
      BY <1>1, PlaceFacts
    <3>4. Count' \in Nat
      BY <3>1, <2>1, <1>1, <1>2, <1>4
    <3> QED BY <3>1, <3>2, <3>3, <3>4
  <2>2. CASE ~pop
    <3>1. gone = 0 /\ rptr' = rptr
      BY <2>2, <1>4 DEF gone
    <3>2. \A i \in 1 .. Count' : i + 0 = i
      BY <1>2, <1>4, <3>1
    <3> QED BY <3>1, <3>2
  <2> QED BY <2>1, <2>2
<1>7. /\ slots' = IF push THEN [slots EXCEPT ![Slot(wptr)] = din] ELSE slots
      /\ push => Slot(wptr) = Place(rptr, Count + 1) /\ Count + 1 \in 1 .. Depth
      /\ Slot(wptr) \in 0 .. Depth - 1
  <2>1. slots' = IF push THEN [slots EXCEPT ![Slot(wptr)] = din] ELSE slots
    BY DEF Edge, WritePort
  <2>2. push => Count < Depth
    BY <1>1, <1>2
  <2>3. push => Slot(wptr) = Place(rptr, Count + 1)
    BY <1>1, <2>2, PlaceFacts
  <2>4. push => Count + 1 \in 1 .. Depth
    BY <1>2, <2>2
  <2>5. Slot(wptr) \in 0 .. Depth - 1
    BY <1>1, IncFacts
  <2> QED BY <2>1, <2>3, <2>4, <2>5
<1>8. \A i \in 1 .. Count - gone :
         slots'[Place(rptr, i + gone)] = slots[Place(rptr, i + gone)]
  <2> SUFFICES ASSUME NEW i \in 1 .. Count - gone
               PROVE  slots'[Place(rptr, i + gone)] = slots[Place(rptr, i + gone)]
    OBVIOUS
  <2>1. i + gone \in 1 .. Count
    BY <1>2 DEF gone
  <2>2. Place(rptr, i + gone) \in 0 .. Depth - 1
    BY <1>1, <2>1, ContentsFacts
  <2>3. CASE push
    <3>1. i + gone # Count + 1 /\ i + gone \in 1 .. Depth
      BY <2>1, <1>2
    <3>2. Place(rptr, i + gone) # Slot(wptr)
      BY <3>1, <2>3, <1>1, <1>7, PlaceFacts
    <3> QED BY <1>1, <1>7, <2>2, <2>3, <3>2
  <2> QED BY <2>3, <1>7
<1>9. push => slots'[Place(rptr, Count + 1)] = din
  BY <1>1, <1>7
<1>10. next \in Seq(Data) /\ Len(next) = Count'
  BY <1>2, <1>3, <1>4 DEF gone
<1>11. \A i \in 1 .. Count' : next[i] = Held'[i]
  <2> SUFFICES ASSUME NEW i \in 1 .. Count' PROVE next[i] = Held'[i]
    OBVIOUS
  <2>1. Held'[i] = slots'[Place(rptr, i + gone)]
    BY <1>5, <1>6
  <2>2. CASE i \in 1 .. Count - gone
    <3>1. next[i] = rest[i]
      BY <2>2, <1>3, <1>2 DEF gone
    <3> QED BY <2>1, <2>2, <3>1, <1>3, <1>8
  <2>3. CASE push /\ i = Count - gone + 1
    <3>1. i + gone = Count + 1
      BY <2>3, <1>2 DEF gone
    <3>2. next[i] = din
      BY <2>3, <1>3, <1>2 DEF gone
    <3> QED BY <2>1, <2>3, <3>1, <3>2, <1>9
  <2>4. i \in 1 .. Count - gone \/ (push /\ i = Count - gone + 1)
    BY <1>2, <1>4 DEF gone
  <2> QED BY <2>2, <2>3, <2>4
<1>12. Held' = next
  BY <1>5, <1>10, <1>11
<1>13. push <=> wr /\ Len(Held) # Depth
  BY <1>1, <1>2
<1> QED BY <1>12, <1>13 DEF rest

(* A flush empties the ring, whatever is written or read with it.          *)
LEMMA HeldFlush ==
  ASSUME Inv, Inv', NEW wr \in BOOLEAN, NEW rd \in BOOLEAN, NEW din \in Data,
         Edge(wr, din, rd, TRUE)
  PROVE  Held' = <<>>
<1>1. wptr' = 0 /\ rptr' = 0
  BY DEF Edge, Pointers
<1>2. Distance(wptr', rptr') = 0
  BY <1>1 DEF Distance
<1> QED BY <1>2 DEF Held, Contents

(* A read delivers the oldest word held, or Filler.                        *)
LEMMA DoutStep ==
  ASSUME Inv, NEW wr \in BOOLEAN, NEW rd \in BOOLEAN, NEW flush \in BOOLEAN,
         NEW din \in Data, Edge(wr, din, rd, flush)
  PROVE  dout' = IF ~rd THEN dout
                 ELSE IF Held = <<>> THEN Filler ELSE Head(Held)
<1> USE FifoAssumption
<1>1. /\ wptr \in 0 .. 2 * Depth - 1 /\ rptr \in 0 .. 2 * Depth - 1
      /\ slots \in [0 .. Depth - 1 -> Data]
      /\ Count = Distance(wptr, rptr) /\ Count <= Depth
      /\ Empty <=> Count = 0
  BY DEF Inv, TypeOK, PointersAgree, Count
<1>2. /\ Held \in Seq(Data) /\ Len(Held) = Count /\ Count \in 0 .. Depth
      /\ \A i \in 1 .. Count : Held[i] = slots[Place(rptr, i)]
  BY <1>1, ContentsFacts DEF Held
<1>3. Held = <<>> <=> Empty
  BY <1>1, <1>2
<1>4. Place(rptr, 1) = Slot(rptr)
  BY <1>1, IncFacts DEF Place
<1>5. Held # <<>> => Head(Held) = slots[Slot(rptr)]
  BY <1>2, <1>4
<1> QED BY <1>3, <1>5 DEF Edge, ReadPort

(* The ring implements the queue for every capacity: no word is lost,      *)
(* duplicated, reordered or overwritten before it is popped.               *)
THEOREM Implements == Spec => ImplementsQueue
<1>1. Init => Queue!Init
  <2> SUFFICES ASSUME Init PROVE Queue!Init
    OBVIOUS
  <2>1. Distance(wptr, rptr) = 0
    BY DEF Init, Distance
  <2> QED BY <2>1 DEF Init, Queue!Init, Held, Contents
<1>2. Inv /\ Inv' /\ [Next]_vars => [Queue!Next]_<<Held, dout>>
  <2> SUFFICES ASSUME Inv, Inv', [Next]_vars
               PROVE  [Queue!Next]_<<Held, dout>>
    OBVIOUS
  <2>1. ASSUME NEW wr \in BOOLEAN, NEW rd \in BOOLEAN, NEW flush \in BOOLEAN,
               NEW din \in Data, Edge(wr, din, rd, flush)
        PROVE  Queue!Next
    <3>1. Held' = IF flush THEN <<>>
                  ELSE IF wr /\ Len(Held) # Depth
                       THEN Append(Queue!AfterPop(rd), din)
                       ELSE Queue!AfterPop(rd)
      BY <2>1, HeldStep, HeldFlush
    <3>2. Queue!Cycle(wr, din, rd, flush)
      BY <2>1, <3>1, DoutStep DEF Queue!Cycle
    <3> QED BY <3>2 DEF Queue!Next
  <2>2. CASE UNCHANGED vars
    BY <2>2 DEF vars, Held
  <2> QED BY <2>1, <2>2 DEF Next
<1>3. Spec => []Inv
  BY PointersCorrect, PTL DEF Inv
<1> QED BY <1>1, <1>2, <1>3, PTL DEF Spec, ImplementsQueue, Queue!Spec
=============================================================================
