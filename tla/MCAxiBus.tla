------------------------------ MODULE MCAxiBus ------------------------------
(* Small instances of AxiBus for TLC, and the addresses of AddressMap. *)
EXTENDS AxiBus, AddressMap

CONSTANTS ram, rom, gpio, fifo, none
MCFiller == [l \in Lanes |-> 1]
=============================================================================
