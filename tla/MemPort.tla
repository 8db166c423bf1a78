------------------------------ MODULE MemPort ------------------------------
(***************************************************************************)
(* What the memory path promises the processor, without a bus: one access  *)
(* at a time, each taking effect exactly once and atomically at some point *)
(* between its start and its completion.  A store changes the addressed    *)
(* bytes, or appends a word to a FIFO that has room (a full FIFO drops     *)
(* it); a load returns the register's word, or removes and returns the     *)
(* oldest word of a FIFO (an empty FIFO returns Filler).  An unmapped      *)
(* address reads as zero and changes nothing.                              *)
(***************************************************************************)
EXTENDS BusAccess

VARIABLES req,    \* the outstanding access, or Nil
          done,   \* whether it has taken effect
          word,   \* the word it will return
          taken,  \* the word the processor got last
          store,  \* a register per slave
          fifo    \* the words waiting in each FIFO

portVars == <<req, done, word, taken, store, fifo>>

Init ==
  /\ req = Nil /\ done = FALSE /\ word = Zero /\ taken \in Words
  /\ store \in ResetRegs
  /\ fifo = [s \in FifoSlaves |-> <<>>]

Start ==
  /\ req = Nil
  /\ req' \in Accesses
  /\ UNCHANGED <<done, word, taken, store, fifo>>

Load ==
  LET s == req.tgt
  IN  /\ store' = store
      /\ IF req.port
         THEN IF fifo[s] = <<>>
              THEN word' = Filler /\ fifo' = fifo
              ELSE /\ word' = Head(fifo[s])
                   /\ fifo' = [fifo EXCEPT ![s] = Tail(@)]
         ELSE /\ word' = IF s = NoSlave THEN Zero ELSE store[s]
              /\ fifo' = fifo

Store ==
  LET s == req.tgt
  IN  /\ word' = word
      /\ IF req.port
         THEN /\ store' = store
              /\ fifo' = IF Len(fifo[s]) = Depth THEN fifo
                         ELSE [fifo EXCEPT ![s] = Append(@, req.data)]
         ELSE /\ fifo' = fifo
              /\ store' = IF s = NoSlave THEN store
                          ELSE [store EXCEPT
                                  ![s] = ApplyStrb(@, req.data, req.strb)]

Perform ==
  /\ req # Nil /\ ~done
  /\ done' = TRUE
  /\ IF req.strb = {} THEN Load ELSE Store
  /\ UNCHANGED <<req, taken>>

Complete ==
  /\ req # Nil /\ done
  /\ req' = Nil /\ done' = FALSE
  /\ taken' = word /\ word' = Zero
  /\ UNCHANGED <<store, fifo>>

Next == Start \/ Perform \/ Complete

Spec == Init /\ [][Next]_portVars
FairSpec == Spec /\ WF_portVars(Perform) /\ WF_portVars(Complete)
=============================================================================
