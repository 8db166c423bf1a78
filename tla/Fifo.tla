-------------------------------- MODULE Fifo --------------------------------
(***************************************************************************)
(* The synchronous FIFO of fifo.v, one step per clock edge: a ring of      *)
(* Depth slots (64 in the source) and two pointers one bit wider than a    *)
(* slot index.  Pointers count modulo 2 * Depth, so that "full" and        *)
(* "empty" differ in the top bit only.                                     *)
(***************************************************************************)
EXTENDS Naturals, Sequences

CONSTANTS Data, Filler, Depth

ASSUME FifoAssumption == Depth \in Nat \ {0} /\ Filler \in Data

VARIABLES wptr, rptr,   \* 7-bit pointers
          slots,        \* fifo_mem
          dout          \* dout_r, the registered output

vars == <<wptr, rptr, slots, dout>>

(* A pointer is its slot index (bits 5:0) and its lap (bit 6).             *)
Slot(p) == IF p < Depth THEN p ELSE p - Depth
Lap(p) == p >= Depth
(* Mutated form of Inc: the pointer does not wrap at the top of its lap.   *)
Inc_NoWrap(p) == IF p = 2 * Depth THEN 0 ELSE p + 1
Inc(p) == IF p + 1 = 2 * Depth THEN 0 ELSE p + 1

Full == Slot(wptr) = Slot(rptr) /\ Lap(wptr) # Lap(rptr)
Empty == wptr = rptr

(* fifo_mem and dout_r have no reset.                                      *)
Init == /\ wptr = 0 /\ rptr = 0
        /\ slots \in [0 .. Depth - 1 -> Data]
        /\ dout \in Data

(* Mutated form of WritePort: a push into a full ring overwrites the       *)
(* oldest word.                                                            *)
WritePort_Overwrites(wr, din) ==
  slots' = IF wr THEN [slots EXCEPT ![Slot(wptr)] = din] ELSE slots
WritePort(wr, din) ==
  slots' = IF wr /\ ~Full THEN [slots EXCEPT ![Slot(wptr)] = din] ELSE slots

ReadPort(rd) ==
  dout' = IF ~rd THEN dout ELSE IF Empty THEN Filler ELSE slots[Slot(rptr)]

(* Mutated form of Pointers: a full ring still advances its write pointer. *)
Pointers_PushWhenFull(wr, rd, flush) ==
  /\ wptr' = IF flush THEN 0 ELSE IF wr THEN Inc(wptr) ELSE wptr
  /\ rptr' = IF flush THEN 0 ELSE IF rd /\ ~Empty THEN Inc(rptr) ELSE rptr
Pointers(wr, rd, flush) ==
  /\ wptr' = IF flush THEN 0 ELSE IF wr /\ ~Full THEN Inc(wptr) ELSE wptr
  /\ rptr' = IF flush THEN 0 ELSE IF rd /\ ~Empty THEN Inc(rptr) ELSE rptr

Edge(wr, din, rd, flush) ==
  WritePort(wr, din) /\ ReadPort(rd) /\ Pointers(wr, rd, flush)

Next == \E wr, rd, flush \in BOOLEAN, din \in Data : Edge(wr, din, rd, flush)

Spec == Init /\ [][Next]_vars

-----------------------------------------------------------------------------
(* Type invariant. *)
TypeOK == /\ wptr \in 0 .. 2 * Depth - 1
          /\ rptr \in 0 .. 2 * Depth - 1
          /\ slots \in [0 .. Depth - 1 -> Data]
          /\ dout \in Data

(* The number of words held: the distance from rptr to wptr.               *)
Distance(w, r) == IF r <= w THEN w - r ELSE w + 2 * Depth - r
Count == Distance(wptr, rptr)

(* The write pointer is never more than one lap ahead of the read pointer, *)
(* through any number of wrap-arounds; full_o and empty_o are exact.       *)
PointersAgree == /\ Count <= Depth
                 /\ Full <=> Count = Depth
                 /\ Empty <=> Count = 0

(* The words between the pointers, oldest first.                           *)
Place(r, i) == LET p == Slot(r) + i - 1 IN IF p < Depth THEN p ELSE p - Depth
Contents(w, r, s) == [i \in 1 .. Distance(w, r) |-> s[Place(r, i)]]
Held == Contents(wptr, rptr, slots)

Queue == INSTANCE FifoQueue WITH queue <- Held, out <- dout

(* The ring implements the queue: no word is lost, duplicated, reordered   *)
(* or overwritten before it was popped.                                    *)
ImplementsQueue == Queue!Spec
=============================================================================
