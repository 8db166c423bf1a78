----------------------------- MODULE FifoQueue -----------------------------
(***************************************************************************)
(* What fifo.v promises its users: a queue of at most Depth words with a   *)
(* registered output.  In one clock cycle a user may push, pop, do both or *)
(* flush.  A push into a full queue is dropped, even with a pop in the     *)
(* same cycle; a pop of an empty queue yields Filler and removes nothing.  *)
(***************************************************************************)
EXTENDS Naturals, Sequences

CONSTANTS Data, Filler, Depth

VARIABLES queue, out

Init == queue = <<>> /\ out \in Data

AfterPop(rd) == IF rd /\ queue # <<>> THEN Tail(queue) ELSE queue

Cycle(wr, din, rd, flush) ==
  /\ out' = IF ~rd THEN out
            ELSE IF queue = <<>> THEN Filler ELSE Head(queue)
  /\ queue' = IF flush THEN <<>>
              ELSE IF wr /\ Len(queue) # Depth
                   THEN Append(AfterPop(rd), din) ELSE AfterPop(rd)

Next == \E wr, rd, flush \in BOOLEAN, din \in Data : Cycle(wr, din, rd, flush)

Spec == Init /\ [][Next]_<<queue, out>>
=============================================================================
