---------------------------- MODULE ButtonInput ----------------------------
(***************************************************************************)
(* The button input path: badge_gpiobutton.c (buttons on GPIO pins, in the *)
(* GPIO interrupt), the touch controllers' event handlers of badge.c (in   *)
(* the controllers' interrupt tasks), badge_input.c (bitmap, queue and     *)
(* notification) and the consumer in ugfx-glue/ginput_lld_toggle.c.        *)
(*                                                                         *)
(* badge_input_add_event() updates badge_input_button_state with           *)
(* "state |= bit" and "state &= ~bit": a load and a store.  The ISR can    *)
(* interrupt the touch task, or run on the other core, between the two, so *)
(* they are two steps here, for either writer.                             *)
(*                                                                         *)
(* Modelled from ugfx.input_init() (boot.py:8) on, where                   *)
(* ginput_lld_toggle_init() has set badge_input_notify: the test of it for *)
(* NULL always succeeds here.  An event before that would be in the bitmap *)
(* and be seen only at the next event.                                     *)
(***************************************************************************)
EXTENDS Naturals, Sequences, FiniteSets

CONSTANTS
  GpioButtons,   \* buttons added with badge_gpiobutton_add()
  TouchButtons,  \* buttons reported by a touch controller's task
  QueueLen,      \* length of badge_input_queue (10 in the code)
  Rotate         \* orientation of the display, flip included: 0..3

Buttons == GpioButtons \cup TouchButtons

(* The order of buttons[4] in ginput_lld_toggle_getbits(). *)
Arrow == <<"LEFT", "UP", "RIGHT", "DOWN">>
Arrows == {Arrow[k] : k \in 1..4}

Writers == {"isr", "touch"}
NoButton == "(null)"

ASSUME ButtonsAssumption ==
  GpioButtons \cap TouchButtons = {} /\ NoButton \notin Buttons
ASSUME QueueLenAssumption == QueueLen \in Nat \ {0}
ASSUME RotateAssumption == Rotate \in 0..3

VARIABLES
  level,        \* GPIO buttons that are held (their pin is low)
  pinEdge,      \* GPIO buttons whose edge interrupt is latched
  gpio_old,     \* badge_gpiobutton_old_state: those last seen pressed
  said,         \* touch buttons whose last event was "pressed"
  button_state, \* badge_input_button_state
  queue,        \* badge_input_queue
  call,         \* per writer, where it is in badge_input_add_event()
  wake,         \* ginputToggleWakeupI() was called and not served yet
  ui,           \* where the consumer is in ginput_lld_toggle_getbits()
  bits,         \* what it returned last
  raced,        \* history: a store of the bitmap overwrote another writer's
  unseen        \* history: GPIO buttons held since before their interrupt was set up

vars == <<level, pinEdge, gpio_old, said, button_state, queue, call, wake, ui, bits, raced, unseen>>

Call == [pc : {"idle", "load", "store", "send", "notify"},
         button : Buttons \cup {NoButton},
         pressed : BOOLEAN,
         tmp : SUBSET Buttons]
NoCall == [pc |-> "idle", button |-> NoButton, pressed |-> FALSE, tmp |-> {}]
AddEvent(b, p) == [pc |-> "load", button |-> b, pressed |-> p, tmp |-> {}]

(* badge_gpiobutton_add() takes every button for released, whatever its pin says. *)
Init ==
  /\ level \in SUBSET GpioButtons
  /\ unseen = level
  /\ pinEdge = {}
  /\ gpio_old = {}
  /\ said = {}
  /\ button_state = {}
  /\ queue = <<>>
  /\ call = [w \in Writers |-> NoCall]
  /\ wake = FALSE
  /\ ui = "idle"
  /\ bits = {}
  /\ raced = FALSE

(* A set with one member added or removed. *)
With(S, b, on) == IF on THEN S \cup {b} ELSE S \ {b}

-----------------------------------------------------------------------------
(* The user presses or releases a GPIO button: the edge is latched.        *)
PinChange(b) ==
  /\ level' = With(level, b, b \notin level)
  /\ pinEdge' = pinEdge \cup {b}
  /\ unseen' = unseen \ {b}
  /\ UNCHANGED <<gpio_old, said, button_state, queue, call, wake, ui, bits, raced>>

(* Mutant: the edge is only acted on when the button is held. *)
badge_gpiobutton_handler_PressOnly(b) ==
  /\ b \in pinEdge
  /\ call["isr"].pc = "idle"
  /\ pinEdge' = pinEdge \ {b}
  /\ call' = IF b \in level /\ b \notin gpio_old
               THEN [call EXCEPT !["isr"] = AddEvent(b, TRUE)]
               ELSE call
  /\ UNCHANGED <<level, gpio_old, said, button_state, queue, wake, ui, bits, raced, unseen>>

(***************************************************************************)
(* badge_gpiobutton_handler(): reads the level and calls                   *)
(* badge_input_add_event() when it differs from the remembered one.        *)
(***************************************************************************)
badge_gpiobutton_handler(b) ==
  /\ b \in pinEdge
  /\ call["isr"].pc = "idle"
  /\ pinEdge' = pinEdge \ {b}
  /\ call' = IF (b \in level) # (b \in gpio_old)
               THEN [call EXCEPT !["isr"] = AddEvent(b, b \in level)]
               ELSE call
  /\ UNCHANGED <<level, gpio_old, said, button_state, queue, wake, ui, bits, raced, unseen>>

(***************************************************************************)
(* mpr121_event_handler(), disobey_samd_event_handler() and                *)
(* cpt112s_event_handler() for a button whose touch state changed.         *)
(***************************************************************************)
TouchEvent(b) ==
  /\ call["touch"].pc = "idle"
  /\ call' = [call EXCEPT !["touch"] = AddEvent(b, b \notin said)]
  /\ said' = With(said, b, b \notin said)
  /\ UNCHANGED <<level, pinEdge, gpio_old, button_state, queue, wake, ui, bits, raced, unseen>>

(* badge_input_add_event(): the load of badge_input_button_state ...       *)
AddEventLoad(w) ==
  /\ call[w].pc = "load"
  /\ call' = [call EXCEPT ![w].tmp = button_state, ![w].pc = "store"]
  /\ UNCHANGED <<level, pinEdge, gpio_old, said, button_state, queue, wake, ui, bits, raced, unseen>>

(* Mutant: a release does not clear the bit. *)
AddEventStore_NoClear(w) ==
  /\ call[w].pc = "store"
  /\ button_state' = call[w].tmp \cup {call[w].button}
  /\ raced' = (raced \/ call[w].tmp # button_state)
  /\ call' = [call EXCEPT ![w].pc = IF call[w].pressed THEN "send" ELSE "notify"]
  /\ UNCHANGED <<level, pinEdge, gpio_old, said, queue, wake, ui, bits, unseen>>

(* ... and the store; only a press goes to the queue.                      *)
AddEventStore(w) ==
  /\ call[w].pc = "store"
  /\ button_state' = With(call[w].tmp, call[w].button, call[w].pressed)
  /\ raced' = (raced \/ call[w].tmp # button_state)
  /\ call' = [call EXCEPT ![w].pc = IF call[w].pressed THEN "send" ELSE "notify",
                          ![w].tmp = {}]
  /\ UNCHANGED <<level, pinEdge, gpio_old, said, queue, wake, ui, bits, unseen>>

(* Mutant: the return value of the send is not looked at, and neither is   *)
(* the length of the queue.                                                *)
AddEventSend_Unbounded(w) ==
  /\ call[w].pc = "send"
  /\ Len(queue) <= QueueLen
  /\ queue' = Append(queue, call[w].button)
  /\ call' = [call EXCEPT ![w].pc = "notify"]
  /\ UNCHANGED <<level, pinEdge, gpio_old, said, button_state, wake, ui, bits, raced, unseen>>

(* xQueueSend() or xQueueSendFromISR() without waiting: a full queue drops *)
(* the event ("input queue full").                                         *)
AddEventSend(w) ==
  /\ call[w].pc = "send"
  /\ queue' = IF Len(queue) < QueueLen THEN Append(queue, call[w].button) ELSE queue
  /\ call' = [call EXCEPT ![w].pc = "notify"]
  /\ UNCHANGED <<level, pinEdge, gpio_old, said, button_state, wake, ui, bits, raced, unseen>>

(* Mutant: only a press notifies the consumer. *)
AddEventNotify_PressOnly(w) ==
  /\ call[w].pc = "notify"
  /\ wake' = (wake \/ call[w].pressed)
  /\ gpio_old' = IF w = "isr"
                    THEN With(gpio_old, call[w].button, call[w].pressed)
                    ELSE gpio_old
  /\ call' = [call EXCEPT ![w] = NoCall]
  /\ UNCHANGED <<level, pinEdge, said, button_state, queue, ui, bits, raced, unseen>>

(* badge_input_notify(), which is set by now, and return; the GPIO handler *)
(* then remembers the state it has reported.                               *)
AddEventNotify(w) ==
  /\ call[w].pc = "notify"
  /\ wake' = TRUE
  /\ gpio_old' = IF w = "isr"
                    THEN With(gpio_old, call[w].button, call[w].pressed)
                    ELSE gpio_old
  /\ call' = [call EXCEPT ![w] = NoCall]
  /\ UNCHANGED <<level, pinEdge, said, button_state, queue, ui, bits, raced, unseen>>

-----------------------------------------------------------------------------
(* The ginput thread serves the wakeup and calls getbits(). *)
UiWake ==
  /\ ui = "idle"
  /\ wake
  /\ wake' = FALSE
  /\ ui' = "drain"
  /\ UNCHANGED <<level, pinEdge, gpio_old, said, button_state, queue, call, bits, raced, unseen>>

(* "while (badge_input_get_event(0) != 0);"  An empty queue returns 0. *)
badge_input_get_event ==
  /\ ui = "drain"
  /\ IF queue = <<>>
       THEN ui' = "read" /\ UNCHANGED queue
       ELSE queue' = Tail(queue) /\ UNCHANGED ui
  /\ UNCHANGED <<level, pinEdge, gpio_old, said, button_state, call, wake, bits, raced, unseen>>

(* The four arrow bits move Rotate places; the others keep theirs. *)
Turned(S) ==
  (S \ Arrows) \cup {Arrow[((k - 1 + Rotate) % 4) + 1] : k \in {j \in 1..4 : Arrow[j] \in S}}

(* The bitmap is read after the queue was drained, and returned. *)
UiRead ==
  /\ ui = "read"
  /\ bits' = Turned(button_state)
  /\ ui' = "idle"
  /\ UNCHANGED <<level, pinEdge, gpio_old, said, button_state, queue, call, wake, raced, unseen>>

Writer(w) ==
  AddEventLoad(w) \/ AddEventStore(w) \/ AddEventSend(w) \/ AddEventNotify(w)

Ui == UiWake \/ badge_input_get_event \/ UiRead

Next ==
  \/ \E b \in GpioButtons : PinChange(b) \/ badge_gpiobutton_handler(b)
  \/ \E b \in TouchButtons : TouchEvent(b)
  \/ \E w \in Writers : Writer(w)
  \/ Ui

(***************************************************************************)
(* The interrupt is served, the touch task runs to the end of a call and   *)
(* the ginput thread serves a wakeup: interrupts preempt, and both tasks   *)
(* are scheduled by FreeRTOS as long as they are ready.  The user owes     *)
(* nothing.                                                                *)
(***************************************************************************)
Fairness ==
  /\ \A b \in GpioButtons : WF_vars(badge_gpiobutton_handler(b))
  /\ \A w \in Writers : WF_vars(Writer(w))
  /\ WF_vars(Ui)

Spec == Init /\ [][Next]_vars /\ Fairness

-----------------------------------------------------------------------------
(* The type invariant of the input path; the queue never exceeds the       *)
(* length given to xQueueCreate().                                         *)
TypeOK ==
  /\ level \subseteq GpioButtons
  /\ pinEdge \subseteq GpioButtons
  /\ gpio_old \subseteq GpioButtons
  /\ said \subseteq TouchButtons
  /\ button_state \subseteq Buttons
  /\ queue \in Seq(Buttons)
  /\ Len(queue) <= QueueLen
  /\ call \in [Writers -> Call]
  /\ wake \in BOOLEAN
  /\ ui \in {"idle", "drain", "read"}
  /\ bits \subseteq (Buttons \cup Arrows)
  /\ raced \in BOOLEAN
  /\ unseen \subseteq level

(***************************************************************************)
(* badge_input.h on badge_input_button_state: "If bit is 0, then button is *)
(* not pressed, if 1, button is pressed."  Stated for the moments at which *)
(* no event of that button is on its way (no edge is latched for it and no *)
(* writer is inside badge_input_add_event()) and for buttons that were not *)
(* already held when their interrupt was set up.                           *)
(***************************************************************************)
ButtonStateIsTruth ==
  (\A w \in Writers : call[w].pc = "idle") =>
    /\ \A b \in GpioButtons \ (pinEdge \cup unseen) : b \in button_state <=> b \in level
    /\ \A b \in TouchButtons : b \in button_state <=> b \in said

(***************************************************************************)
(* Edges served late, bounces, a full queue and the order of the calls do  *)
(* not falsify the bitmap: the only thing that does is a store of one      *)
(* writer over the other's (badge_input.c:66, 84), which a board with one  *)
(* writer does not have.                                                   *)
(***************************************************************************)
TruthUnlessRaced == ~raced => ButtonStateIsTruth

(***************************************************************************)
(* No wakeup is lost: when nobody is about to notify, no wakeup is pending *)
(* and the consumer sleeps, what it returned last is the current bitmap,   *)
(* even if presses were dropped because the queue was full.                *)
(***************************************************************************)
NoLostWakeup ==
  /\ ui = "idle"
  /\ ~wake
  /\ \A w \in Writers : call[w].pc \notin {"send", "notify"}
  => bits = Turned(button_state)

(***************************************************************************)
(* End to end: once the user and the touch controller leave the buttons    *)
(* alone, the bits the consumer sees become, and stay, the buttons held    *)
(* (except those held since before boot), turned with the display, unless  *)
(* an update of the bitmap was overwritten.                                *)
(***************************************************************************)
HeldButtonsAreSeen ==
  \A L, B \in SUBSET GpioButtons, T \in SUBSET TouchButtons :
    <>[](level = L /\ unseen = B /\ said = T /\ ~raced) =>
      <>[](bits = Turned((L \ B) \cup T))
=============================================================================
