----------------------------- MODULE TouchInput -----------------------------
(***************************************************************************)
(* A badge whose buttons are the inputs of an MPR121, beside buttons on    *)
(* GPIO pins: badge_mpr121.c and badge_input.c joined by the event         *)
(* handlers of badge.c.                                                    *)
(*                                                                         *)
(* badge_mpr121_intr_task() calls mpr121_event_handler(), which calls      *)
(* badge_input_add_event(), so the task is in its loop over the pins until *)
(* that call has returned: no pin is looked at and no status is read       *)
(* meanwhile.  Everything else interleaves with the call: the chip and its *)
(* interrupt, the GPIO interrupt, the main task and the ginput thread.     *)
(***************************************************************************)
EXTENDS ButtonInput, Mpr121Touch

CONSTANT
  ButtonOf   \* the button of each touch input

(* Every touch input has a button of its own. *)
Wired ==
  /\ ButtonOf \in [Pins -> TouchButtons]
  /\ \A p, q \in Pins : ButtonOf[p] = ButtonOf[q] => p = q

boardVars == <<vars, touchVars>>

BoardInit == Init /\ TouchInit

-----------------------------------------------------------------------------
(* The task is inside badge_input_add_event(). *)
InHandler == call["touch"].pc # "idle"

(* mpr121_event_handler() for pin p: badge_input_add_event(button, state & bit). *)
mpr121_event_handler(p) ==
  /\ call' = [call EXCEPT !["touch"] = AddEvent(ButtonOf[p], p \in state)]
  /\ said' = With(said, ButtonOf[p], p \in state)
  /\ UNCHANGED <<level, pinEdge, gpio_old, button_state, queue, wake, ui, bits, raced, unseen>>

(* badge_mpr121_intr_task() between two calls of a handler, or up to one. *)
TouchTask ==
  /\ ~InHandler
  /\ TaskStep
  /\ IF pc = "loop" /\ i < NPins /\ Changed(i) THEN mpr121_event_handler(i)
                                               ELSE UNCHANGED vars

(* The chip, its interrupt, the main task and other readers of the status. *)
AroundTouch ==
  /\ TouchChange \/ OverCurrent \/ badge_mpr121_intr_handler \/ Configure \/ ForeignRead
  /\ UNCHANGED vars

(* The GPIO interrupt, the calls of badge_input_add_event() and the ginput *)
(* thread.                                                                 *)
AroundInput ==
  /\ \/ \E b \in GpioButtons : PinChange(b) \/ badge_gpiobutton_handler(b)
     \/ \E w \in Writers : Writer(w)
     \/ Ui
  /\ UNCHANGED touchVars

BoardNext == TouchTask \/ AroundTouch \/ AroundInput

BoardSpec == BoardInit /\ [][BoardNext]_boardVars

-----------------------------------------------------------------------------
(***************************************************************************)
(* From the status register to the user interface: when the touch task     *)
(* sleeps, no interrupt is pending, nobody is about to report an event and *)
(* the ginput thread has served its wakeup, the bits it returned last are  *)
(* exactly the inputs that are touched and the GPIO buttons that are held, *)
(* turned with the display.  Excepted are a status read or reset by other  *)
(* code (hidden), a bitmap update overwritten by the other writer (raced)  *)
(* and GPIO buttons held since before boot (unseen).                       *)
(***************************************************************************)
TouchesAreSeen ==
  /\ pc = "wait" /\ ~trigger /\ ~intEdge /\ ~hidden
  /\ \A w \in Writers : call[w].pc = "idle"
  /\ pinEdge = {} /\ ui = "idle" /\ ~wake /\ ~raced
  => bits = Turned((level \ unseen) \cup {ButtonOf[p] : p \in touch})
=============================================================================
