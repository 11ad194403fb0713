--------------------------- MODULE MCVirtualTimers ---------------------------
(* Two callbacks and up to three tasks, so that a tick has tasks before and   *)
(* behind the one whose callback changes the list; a target of 0 ticks and    *)
(* one of 2.  Four kinds of applications, each with one habit; two tasks are *)
(* enough for the loss in the main program's delete().                        *)
EXTENDS VirtualTimers

\* The filter keeps what SelectSeq() keeps, for every list of up to three tasks.
ASSUME KeptAssumption ==
  \A s \in BoundedSeq(Items, 3), S \in SUBSET Items :
    Kept(s, S) = SelectSeq(s, LAMBDA d : d \in S)
=============================================================================
