--------------------------- MODULE MCMpr121Touch ---------------------------
(* Two touch inputs; the chip may have been running before the ESP32.      *)
EXTENDS Mpr121Touch
=============================================================================
