---------------------------- MODULE MCEinkUpdate ----------------------------
(* Eight lines: the finest strips of greyscale are one line each.  The image  *)
(* has different bits on every line; drawn upright and rotated by 180 degrees *)
(* it meets every pair of an old and a new pixel.                             *)
EXTENDS EinkUpdate

MCImages == { [y \in Line |-> (37 * y + 85) % 256] }
=============================================================================
