------------------------------ MODULE NorFlash ------------------------------
(***************************************************************************)
(* What the flash driver qspi_nor.c promises its callers: a call erases a  *)
(* sector, programs a page or reads one, exactly once, and does not return *)
(* before the chip is ready for the next.  Programming clears bits only.   *)
(***************************************************************************)
EXTENDS Naturals, Sequences

CONSTANTS Pages,      \* page addresses
          SectorOf,   \* the sector each page lies in
          Buffers,    \* what a page can hold: sequences of words
          Erased,     \* a page of ones
          Combine(_, _), \* a page, and a buffer programmed on it
          Identity,   \* what flash_init returns
          Calls       \* the calls a program makes

VARIABLES pages, busy, call, times, result

vars == <<pages, busy, call, times, result>>

NoCall == [op |-> "none"]
Modifies(c) == c.op \in {"erase", "program"}

Init == /\ pages \in [Pages -> Buffers] /\ busy = FALSE
        /\ call = NoCall /\ times = 0 /\ result = <<>>

Begin == /\ call = NoCall /\ call' \in Calls
         /\ times' = 0 /\ result' = <<>>
         /\ UNCHANGED <<pages, busy>>

(* The one moment at which the chip starts to do what the call asks for. *)
Perform ==
  /\ Modifies(call) /\ times = 0
  /\ times' = 1 /\ busy' = TRUE
  /\ pages' = [p \in Pages |->
       IF call.op = "erase" /\ SectorOf[p] = SectorOf[call.page] THEN Erased
       ELSE IF call.op = "program" /\ p = call.page
       THEN Combine(pages[p], call.data)
       ELSE pages[p]]
  /\ UNCHANGED <<call, result>>

Finish == busy /\ busy' = FALSE /\ UNCHANGED <<pages, call, times, result>>

(* Words arrive one by one, each the right one. *)
Deliver ==
  /\ ~Modifies(call) /\ call # NoCall
  /\ LET source == IF call.op = "init" THEN Identity
                   ELSE SubSeq(pages[call.page], 1, call.words)
     IN  /\ Len(result) < Len(source)
         /\ result' = Append(result, source[Len(result) + 1])
  /\ UNCHANGED <<pages, busy, call, times>>

Return ==
  /\ ~busy
  /\ CASE Modifies(call)     -> times = 1
       [] call.op = "init"   -> Len(result) = Len(Identity)
       [] call = NoCall      -> FALSE
       [] OTHER              -> Len(result) = call.words
  /\ call' = NoCall
  /\ UNCHANGED <<pages, busy, times, result>>

Next == Begin \/ Perform \/ Finish \/ Deliver \/ Return

Spec == Init /\ [][Next]_vars
=============================================================================
