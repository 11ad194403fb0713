------------------------------ MODULE SamdTouch ------------------------------
(***************************************************************************)
(* The touch buttons of the Disobey badge: the interrupt task of the SAMD   *)
(* co-processor (badge_disobey_samd.c) and its event handler (badge.c).     *)
(*                                                                          *)
(* The co-processor is external: it holds the touched buttons, pulls its    *)
(* interrupt line low when they change and raises it when its state         *)
(* register is read.                                                        *)
(***************************************************************************)
EXTENDS Naturals

CONSTANTS
  Buttons,    \* the six touch buttons
  MaxTouches, \* changes of the touched buttons
  MaxFaults   \* I2C reads that fail

VARIABLES
  touched,   \* the buttons touched now
  ever,      \* the buttons touched at some time (history)
  low,       \* the interrupt line
  trigger,   \* badge_disobey_samd_intr_trigger
  pc, state, old_state,   \* of badge_disobey_samd_intr_task()
  reported,  \* the buttons the event handler left pressed
  touches, faults

vars == <<touched, ever, low, trigger, pc, state, old_state, reported, touches, faults>>

\* badge_disobey_samd_read_touch(): the -1 of a failed read is masked with 0x3F, so
\* that every button is set and the test for -1 in the task never succeeds.
read_touch(ok) == IF ok THEN touched ELSE Buttons

Init ==
  /\ touched = {} /\ ever = {} /\ low = FALSE
  /\ trigger = TRUE    \* given by badge_disobey_samd_init()
  /\ pc = "take" /\ state = {} /\ old_state = {}
  /\ reported = {} /\ touches = 0 /\ faults = 0

\* A button is touched or released; the interrupt handler gives the semaphore on
\* the falling edge, when it finds the line low.
Touch(b) ==
  /\ touches < MaxTouches
  /\ touches' = touches + 1
  /\ touched' = IF b \in touched THEN touched \ {b} ELSE touched \cup {b}
  /\ ever' = ever \cup {b}
  /\ low' = TRUE
  /\ trigger' = (trigger \/ ~low)
  /\ UNCHANGED <<pc, state, old_state, reported, faults>>

Take ==
  /\ pc = "take" /\ trigger
  /\ trigger' = FALSE /\ pc' = "read"
  /\ UNCHANGED <<touched, ever, low, state, old_state, reported, touches, faults>>

Read ==
  /\ pc = "read"
  /\ state' = read_touch(TRUE)
  /\ low' = FALSE /\ pc' = "report"
  /\ UNCHANGED <<touched, ever, trigger, old_state, reported, touches, faults>>
ReadFails ==
  /\ pc = "read" /\ faults < MaxFaults
  /\ faults' = faults + 1
  /\ state' = read_touch(FALSE)
  /\ low' \in {low, FALSE} /\ pc' = "report"
  /\ UNCHANGED <<touched, ever, trigger, old_state, reported, touches>>

\* The handler gets what changed, presses first.
Report ==
  /\ pc = "report"
  /\ reported' = (reported \cup (state \ old_state)) \ (old_state \ state)
  /\ old_state' = state /\ pc' = "take"
  /\ UNCHANGED <<touched, ever, low, trigger, state, touches, faults>>

Next == (\E b \in Buttons : Touch(b)) \/ Take \/ Read \/ ReadFails \/ Report

Spec == Init /\ [][Next]_vars

\* Only a button that was touched is reported as pressed: the task reports what
\* it has read, and after "failed to read status." it waits and reads again
\* (badge_disobey_samd.c:143-148).
PressedWasTouched == reported \subseteq ever
=============================================================================
