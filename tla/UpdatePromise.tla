---------------------------- MODULE UpdatePromise ----------------------------
(***************************************************************************)
(* What the over-the-air update promises the user of the badge, without     *)
(* downloads, partitions and restarts: an image is installed, a new one is  *)
(* installed in one step, whole, and only on a request; a request is        *)
(* answered by one installation or comes to nothing.                        *)
(***************************************************************************)
CONSTANTS
  Factory,    \* the image a badge comes with
  Images      \* the images that are offered as updates

VARIABLES
  installed,  \* the image the badge starts
  pending     \* an update was asked for and has not ended

vars == <<installed, pending>>

Init == installed = Factory /\ pending = FALSE

Request == ~pending /\ pending' = TRUE /\ UNCHANGED installed

Drop == pending /\ pending' = FALSE /\ UNCHANGED installed

Install == pending /\ pending' = FALSE /\ installed' \in Images

Next == Request \/ Drop \/ Install

Spec == Init /\ [][Next]_vars
=============================================================================
