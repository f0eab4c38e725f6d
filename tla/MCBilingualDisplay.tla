-------------------------- MODULE MCBilingualDisplay --------------------------
(* The window while the connection of its session is lost for good. *)
EXTENDS BilingualDisplay
===============================================================================
