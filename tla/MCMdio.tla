------------------------------- MODULE MCMdio -------------------------------
(* Small instances of Mdio for TLC: the lengths of the frame's parts are    *)
(* scaled down, its structure is kept.                                      *)
EXTENDS Mdio

CONSTANTS r0, r1
=============================================================================
