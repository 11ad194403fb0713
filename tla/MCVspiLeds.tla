----------------------------- MODULE MCVspiLeds -----------------------------
(* The bus and rail model for TLC; the state space is finite as it stands.   *)
EXTENDS VspiLeds
=============================================================================
