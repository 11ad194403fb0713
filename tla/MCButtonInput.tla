--------------------------- MODULE MCButtonInput ---------------------------
(* A touch controller beside the FLASH button on a GPIO pin, as on the     *)
(* HackerHotel 2019 board of badge_pins.h, with the display turned.        *)
EXTENDS ButtonInput
=============================================================================
