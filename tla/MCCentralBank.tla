--------------------------- MODULE MCCentralBank ---------------------------
(***************************************************************************)
(* Values for TLC that a configuration file cannot write: with a Unit of   *)
(* 2, half a unit, and one and a half below zero.                          *)
(***************************************************************************)
EXTENDS CentralBank

EnteredAmounts == {-3, 1}
=============================================================================
