---------------------------- MODULE MCTouchInput ----------------------------
(***************************************************************************)
(* TouchInput on a small board: the arrow buttons on an MPR121.            *)
(***************************************************************************)
EXTENDS TouchInput

Wiring == [p \in Pins |-> IF p = 0 THEN "UP" ELSE "LEFT"]
=============================================================================
