-------------------------- MODULE TouchInputProofs --------------------------
(***************************************************************************)
(* Proofs about the touch task (Mpr121Touch), about the button input path  *)
(* (ButtonInput), and about the board that joins them (TouchInput): for    *)
(* every number of touch inputs, every set of buttons, every length of the *)
(* queue and every rotation of the display.                                *)
(***************************************************************************)
EXTENDS TouchInput, TLAPS

-----------------------------------------------------------------------------
(***************************************************************************)
(* The touch task, with or without hardcoded baselines, foreign status     *)
(* reads and failing writes.                                               *)
(***************************************************************************)
(* What the events add up to, from where the task is in its loop. *)
ReportOK ==
  /\ pc \in {"wait", "read", "retry"} => reported = old_state
  /\ pc = "loop" =>
       \A p \in Pins : p \in reported <=> (IF p < i THEN p \in state ELSE p \in old_state)
  /\ pc \in {"clear", "rerun"} => reported = state

(* The status the task has seen last. *)
LastSeen == IF pc \in {"loop", "clear", "rerun"} THEN state ELSE old_state

(* The task is going to read the status registers. *)
WillRead == trigger \/ pc \in {"read", "retry"}

(* A low INT line has an edge that the handler will serve, or had one.     *)
(* Without this, a second touch while INT is low would go unnoticed.       *)
LineOK == intLow => intEdge \/ WillRead

(* With INT high, the task knows the status, unless it was hidden.         *)
SeenOK == ~intLow /\ ~hidden => WillRead \/ LastSeen = touch

TouchInv == TouchTypeOK /\ ReportOK /\ LineOK /\ SeenOK

-----------------------------------------------------------------------------
LEMMA TouchTypeStep == TouchTypeOK /\ [TouchNext]_touchVars => TouchTypeOK'
<1> SUFFICES ASSUME TouchTypeOK, [TouchNext]_touchVars PROVE TouchTypeOK'
  OBVIOUS
<1> USE NPinsAssumption, FlagsAssumption DEF TouchTypeOK, chip, line, task, Assert, Release
<1>1. CASE TouchChange
  BY <1>1 DEF TouchChange
<1>2. CASE OverCurrent
  BY <1>2 DEF OverCurrent
<1>3. CASE badge_mpr121_intr_handler
  BY <1>3 DEF badge_mpr121_intr_handler
<1>4. CASE TaskTake
  BY <1>4 DEF TaskTake
<1>5. CASE TaskReadOk
  <2>1. i' \in 0..NPins /\ state' \subseteq Pins
    BY <1>5 DEF TaskReadOk
  <2>2. intEdge' \in BOOLEAN
    BY <1>5 DEF TaskReadOk
  <2> QED
    BY <1>5, <2>1, <2>2 DEF TaskReadOk
<1>6. CASE TaskReadFailed \/ TaskRetry
  BY <1>6 DEF TaskReadFailed, TaskRetry
<1>7. CASE TaskLoop
  <2>1. i \in Pins /\ i' \in 0..NPins
    BY <1>7 DEF TaskLoop, Pins
  <2>2. reported' \subseteq Pins
    BY <1>7, <2>1 DEF TaskLoop, Changed
  <2> QED
    BY <1>7, <2>1, <2>2 DEF TaskLoop
<1>8. CASE TaskLoopEnd
  BY <1>8 DEF TaskLoopEnd
<1>9. CASE TaskClearOvcf
  BY <1>9 DEF TaskClearOvcf
<1>10. CASE TaskRerun
  BY <1>10 DEF TaskRerun
<1>11. CASE Configure
  <2>1. CASE ConfigureReset
    <3>1. hidden' \in BOOLEAN /\ intEdge' \in BOOLEAN
      BY <2>1 DEF ConfigureReset
    <3> QED
      BY <2>1, <3>1 DEF ConfigureReset
  <2>2. CASE ConfigureRun
    BY <2>2 DEF ConfigureRun
  <2>3. CASE ConfigureFail \/ ConfigureSetup
    BY <2>3 DEF ConfigureFail, ConfigureSetup
  <2> QED
    BY <1>11, <2>1, <2>2, <2>3 DEF Configure
<1>12. CASE ForeignRead
  BY <1>12 DEF ForeignRead
<1>13. CASE UNCHANGED touchVars
  BY <1>13 DEF touchVars
<1> QED
  BY <1>1, <1>2, <1>3, <1>4, <1>5, <1>6, <1>7, <1>8, <1>9, <1>10, <1>11, <1>12, <1>13
     DEF TouchNext, TaskStep

LEMMA TouchInvInit == TouchInit => TouchInv
<1> SUFFICES ASSUME TouchInit PROVE TouchInv
  OBVIOUS
<1>0. i \in 0..NPins
  BY NPinsAssumption DEF TouchInit
<1>1. TouchTypeOK
  BY <1>0 DEF TouchInit, TouchTypeOK
<1>2. ReportOK /\ LineOK /\ SeenOK
  BY DEF TouchInit, ReportOK, LineOK, SeenOK, WillRead
<1> QED
  BY <1>1, <1>2 DEF TouchInv

LEMMA ReportStep == TouchTypeOK /\ ReportOK /\ [TouchNext]_touchVars => ReportOK'
<1> SUFFICES ASSUME TouchTypeOK, ReportOK, [TouchNext]_touchVars PROVE ReportOK'
  OBVIOUS
<1> USE NPinsAssumption DEF ReportOK
<1>1. CASE UNCHANGED task
  BY <1>1 DEF task
<1>2. CASE TaskTake \/ TaskReadFailed \/ TaskRetry
  BY <1>2 DEF TaskTake, TaskReadFailed, TaskRetry
<1>3. CASE TaskReadOk
  BY <1>3 DEF TaskReadOk, Pins
<1>4. CASE TaskLoop
  <2>1. i \in Pins /\ i' = i + 1 /\ pc' = "loop" /\ UNCHANGED <<state, old_state>>
    BY <1>4 DEF TaskLoop, Pins, TouchTypeOK
  <2>2. ASSUME NEW p \in Pins
        PROVE  p \in reported' <=> (IF p < i + 1 THEN p \in state ELSE p \in old_state)
    <3>0. p \in reported <=> (IF p < i THEN p \in state ELSE p \in old_state)
      BY <1>4 DEF TaskLoop
    <3>1. CASE p = i
      BY <3>0, <3>1, <1>4, <2>1 DEF TaskLoop, Changed, Pins
    <3>2. CASE p # i
      <4>1. (p < i + 1) <=> (p < i)
        BY <3>2, <2>1 DEF Pins
      <4>2. p \in reported' <=> p \in reported
        BY <3>2, <1>4 DEF TaskLoop
      <4> QED
        BY <3>0, <4>1, <4>2
    <3> QED
      BY <3>1, <3>2
  <2> QED
    BY <2>1, <2>2
<1>5. CASE TaskLoopEnd
  <2>1. \A p \in Pins : p \in reported <=> p \in state
    BY <1>5 DEF TaskLoopEnd, Pins
  <2>2. reported = state
    BY <2>1 DEF TouchTypeOK
  <2> QED
    BY <1>5, <2>2 DEF TaskLoopEnd
<1>6. CASE TaskClearOvcf \/ TaskRerun
  BY <1>6 DEF TaskClearOvcf, TaskRerun
<1> QED
  BY <1>1, <1>2, <1>3, <1>4, <1>5, <1>6
     DEF TouchNext, TaskStep, TouchChange, OverCurrent, badge_mpr121_intr_handler,
         Configure, ConfigureFail, ConfigureReset, ConfigureSetup, ConfigureRun,
         ForeignRead, touchVars

LEMMA LineStep == TouchTypeOK /\ LineOK /\ [TouchNext]_touchVars => LineOK'
<1> SUFFICES ASSUME TouchTypeOK, LineOK, [TouchNext]_touchVars PROVE LineOK'
  OBVIOUS
<1> USE DEF TouchTypeOK, LineOK, WillRead
<1>1. CASE TouchChange \/ OverCurrent
  BY <1>1 DEF TouchChange, OverCurrent, Assert, task
<1>2. CASE badge_mpr121_intr_handler
  BY <1>2 DEF badge_mpr121_intr_handler
<1>3. CASE TaskTake
  BY <1>3 DEF TaskTake
<1>4. CASE TaskReadOk \/ ConfigureReset \/ ForeignRead
  BY <1>4 DEF TaskReadOk, ConfigureReset, ForeignRead, Release
<1>5. CASE TaskReadFailed \/ TaskRetry
  BY <1>5 DEF TaskReadFailed, TaskRetry, line
<1>6. CASE TaskLoop \/ TaskLoopEnd \/ TaskClearOvcf \/ TaskRerun
  BY <1>6 DEF TaskLoop, TaskLoopEnd, TaskClearOvcf, TaskRerun, line
<1>7. CASE ConfigureFail \/ ConfigureSetup \/ ConfigureRun \/ UNCHANGED touchVars
  BY <1>7 DEF ConfigureFail, ConfigureSetup, ConfigureRun, touchVars, line, task
<1> QED
  BY <1>1, <1>2, <1>3, <1>4, <1>5, <1>6, <1>7 DEF TouchNext, TaskStep, Configure

LEMMA SeenStep == TouchTypeOK /\ LineOK /\ SeenOK /\ [TouchNext]_touchVars => SeenOK'
<1> SUFFICES ASSUME TouchTypeOK, LineOK, SeenOK, [TouchNext]_touchVars PROVE SeenOK'
  OBVIOUS
<1> USE DEF TouchTypeOK, LineOK, SeenOK, WillRead, LastSeen
<1>1. CASE TouchChange \/ OverCurrent
  BY <1>1 DEF TouchChange, OverCurrent, Assert
<1>2. CASE badge_mpr121_intr_handler
  BY <1>2 DEF badge_mpr121_intr_handler, chip, task
<1>3. CASE TaskTake
  BY <1>3 DEF TaskTake
<1>4. CASE TaskReadOk
  BY <1>4 DEF TaskReadOk, chip
<1>5. CASE TaskReadFailed \/ TaskRetry
  BY <1>5 DEF TaskReadFailed, TaskRetry
<1>6. CASE TaskLoop
  BY <1>6 DEF TaskLoop, line, chip
<1>7. CASE TaskLoopEnd
  BY <1>7 DEF TaskLoopEnd, line, chip
<1>8. CASE TaskClearOvcf \/ TaskRerun
  BY <1>8 DEF TaskClearOvcf, TaskRerun, line
<1>9. CASE ConfigureReset
  BY <1>9 DEF ConfigureReset, Release, task
<1>10. CASE ForeignRead
  BY <1>10 DEF ForeignRead, Release, chip, task
<1>11. CASE ConfigureFail \/ ConfigureSetup \/ ConfigureRun \/ UNCHANGED touchVars
  BY <1>11 DEF ConfigureFail, ConfigureSetup, ConfigureRun, touchVars, line, task, chip
<1> QED
  BY <1>1, <1>2, <1>3, <1>4, <1>5, <1>6, <1>7, <1>8, <1>9, <1>10, <1>11
     DEF TouchNext, TaskStep, Configure

LEMMA TouchInvAlways == TouchSpec => []TouchInv
<1>1. TouchInv /\ [TouchNext]_touchVars => TouchInv'
  BY TouchTypeStep, ReportStep, LineStep, SeenStep DEF TouchInv
<1> QED
  BY <1>1, TouchInvInit, PTL DEF TouchSpec

(***************************************************************************)
(* The types of the touch task, the INT line and the chip hold in every    *)
(* state: the loop never calls a handler beyond the last pin.              *)
(***************************************************************************)
THEOREM TouchTypes == TouchSpec => []TouchTypeOK
<1>1. TouchInv => TouchTypeOK
  BY DEF TouchInv
<1> QED
  BY <1>1, TouchInvAlways, PTL

(***************************************************************************)
(* The interrupt protocol of badge_mpr121.c loses no touch: when the task  *)
(* sleeps and nothing is pending, the reported events add up to the status *)
(* of the chip, unless other code read or reset the status meanwhile.      *)
(***************************************************************************)
THEOREM TouchesAreNotLost == TouchSpec => []NoTouchLost
<1>1. TouchInv => NoTouchLost
  BY DEF TouchInv, TouchTypeOK, ReportOK, LineOK, SeenOK, WillRead, LastSeen, NoTouchLost
<1> QED
  BY <1>1, TouchInvAlways, PTL

(***************************************************************************)
(* The press and release events that badge_mpr121_intr_task() reports for  *)
(* a pin alternate.                                                        *)
(***************************************************************************)
THEOREM EventsDoAlternate == TouchSpec => []EventsAlternate
<1>1. TouchInv => EventsAlternate
  <2> SUFFICES ASSUME TouchInv, pc = "loop", i < NPins, Changed(i)
               PROVE  (i \in state) # (i \in reported)
    BY DEF EventsAlternate
  <2>1. i \in Pins /\ ~(i < i)
    BY NPinsAssumption DEF TouchInv, TouchTypeOK, Pins
  <2>2. i \in reported <=> i \in old_state
    BY <2>1 DEF TouchInv, ReportOK
  <2> QED
    BY <2>2 DEF Changed
<1> QED
  BY <1>1, TouchInvAlways, PTL

-----------------------------------------------------------------------------
(***************************************************************************)
(* The button input path.                                                  *)
(*                                                                         *)
(* The bitmap is only right between events; in between, it lags behind the *)
(* call that is on its way.  InStep says by how much: it relates the bits, *)
(* the levels the GPIO handler remembers and the touch events to the place *)
(* either writer has reached.                                              *)
(***************************************************************************)
(* A writer works for a button of its own, with an event for it. *)
CallsOK ==
  /\ call["isr"].pc # "idle" => call["isr"].button \in GpioButtons
  /\ call["touch"].pc # "idle" =>
       /\ call["touch"].button \in TouchButtons
       /\ call["touch"].pressed <=> call["touch"].button \in said

(* Writer w is working on button b. *)
Works(w, b) == call[w].pc # "idle" /\ call[w].button = b

(* ... and has stored its bit already. *)
Stored(w, b) == call[w].pc \in {"send", "notify"} /\ call[w].button = b

(* What the GPIO handler remembers of a button, or is about to, is the     *)
(* level of its pin unless another edge is latched.                        *)
LevelSeen ==
  \A b \in GpioButtons \ (pinEdge \cup unseen) :
    IF Works("isr", b) THEN b \in level <=> call["isr"].pressed
                       ELSE b \in level <=> b \in gpio_old

(* As long as no store overwrote another, every bit is as old as the last  *)
(* store of its own writer.                                                *)
InStep ==
  ~raced =>
    /\ \A b \in GpioButtons :
         b \in button_state <=> IF Stored("isr", b) THEN call["isr"].pressed
                                                    ELSE b \in gpio_old
    /\ \A b \in TouchButtons :
         b \in button_state <=> IF Works("touch", b) /\ ~Stored("touch", b)
                                THEN b \notin said ELSE b \in said

InputInv == TypeOK /\ CallsOK /\ LevelSeen /\ InStep /\ NoLostWakeup

-----------------------------------------------------------------------------
LEMMA CallTypes ==
  /\ NoCall \in Call
  /\ \A b \in Buttons, p \in BOOLEAN : AddEvent(b, p) \in Call
BY DEF NoCall, AddEvent, Call

LEMMA TurnedType ==
  ASSUME NEW S \in SUBSET Buttons
  PROVE  Turned(S) \subseteq Buttons \cup Arrows
<1>1. \A k \in 1..4 : ((k - 1 + Rotate) % 4) + 1 \in 1..4
  BY RotateAssumption
<1> QED BY <1>1 DEF Turned, Arrows

LEMMA TurnedEmpty == Turned({}) = {}
BY DEF Turned

(* The steps of the specification, one by one. *)
LEMMA InputCases ==
  ASSUME [Next]_vars
  PROVE  \/ \E b \in GpioButtons : PinChange(b) \/ badge_gpiobutton_handler(b)
         \/ \E b \in TouchButtons : TouchEvent(b)
         \/ \E w \in Writers : \/ AddEventLoad(w) \/ AddEventStore(w)
                               \/ AddEventSend(w) \/ AddEventNotify(w)
         \/ UiWake \/ badge_input_get_event \/ UiRead
         \/ UNCHANGED vars
BY DEF Next, Writer, Ui

LEMMA BusyButton ==
  ASSUME CallsOK, NEW w \in Writers, call[w].pc # "idle"
  PROVE  /\ call[w].button \in Buttons
         /\ w = "isr" => call[w].button \in GpioButtons
BY DEF CallsOK, Writers, Buttons

LEMMA InputTypeStep == TypeOK /\ CallsOK /\ [Next]_vars => TypeOK'
<1> SUFFICES ASSUME TypeOK, CallsOK, [Next]_vars PROVE TypeOK'
  OBVIOUS
<1> USE DEF TypeOK
<1>1. ASSUME NEW b \in GpioButtons, PinChange(b) PROVE TypeOK'
  BY <1>1 DEF PinChange, With
<1>2. ASSUME NEW b \in GpioButtons, badge_gpiobutton_handler(b) PROVE TypeOK'
  <2>0. AddEvent(b, b \in level) \in Call
    <3>1. CASE b \in level
      BY <3>1 DEF AddEvent, Call, Buttons
    <3>2. CASE b \notin level
      BY <3>2 DEF AddEvent, Call, Buttons
    <3> QED BY <3>1, <3>2
  <2>1. call' \in [Writers -> Call]
    BY <1>2, <2>0 DEF badge_gpiobutton_handler, Writers
  <2> QED BY <1>2, <2>1 DEF badge_gpiobutton_handler
<1>3. ASSUME NEW b \in TouchButtons, TouchEvent(b) PROVE TypeOK'
  <2>1. call' \in [Writers -> Call]
    BY <1>3, CallTypes DEF TouchEvent, Writers, Buttons
  <2> QED BY <1>3, <2>1 DEF TouchEvent, With
<1>4. ASSUME NEW w \in Writers, AddEventLoad(w) PROVE TypeOK'
  BY <1>4 DEF AddEventLoad, Call
<1>5. ASSUME NEW w \in Writers, AddEventStore(w) PROVE TypeOK'
  <2>1. call[w].button \in Buttons
    BY <1>5, BusyButton DEF AddEventStore
  <2> DEFINE next == IF call[w].pressed THEN "send" ELSE "notify"
  <2>a. next \in {"send", "notify"}
    OBVIOUS
  <2>b. call' = [call EXCEPT ![w].pc = next, ![w].tmp = {}]
    BY <1>5 DEF AddEventStore
  <2> HIDE DEF next
  <2>2. call' \in [Writers -> Call]
    BY <2>a, <2>b DEF Call
  <2>3. call[w].tmp \subseteq Buttons
    BY DEF Call
  <2>4. button_state' \subseteq Buttons
    BY <1>5, <2>1, <2>3 DEF AddEventStore, With
  <2>5. raced' \in BOOLEAN
    BY <1>5 DEF AddEventStore
  <2> QED BY <1>5, <2>2, <2>4, <2>5 DEF AddEventStore
<1>6. ASSUME NEW w \in Writers, AddEventSend(w) PROVE TypeOK'
  <2>1. call[w].button \in Buttons
    BY <1>6, BusyButton DEF AddEventSend
  <2>2. call' \in [Writers -> Call]
    BY <1>6 DEF AddEventSend, Call
  <2>3. queue' \in Seq(Buttons) /\ Len(queue') <= QueueLen
    BY <1>6, <2>1, QueueLenAssumption DEF AddEventSend
  <2> QED BY <1>6, <2>2, <2>3 DEF AddEventSend
<1>7. ASSUME NEW w \in Writers, AddEventNotify(w) PROVE TypeOK'
  <2>1. w = "isr" => call[w].button \in GpioButtons
    BY <1>7, BusyButton DEF AddEventNotify
  <2>2. call' \in [Writers -> Call]
    BY <1>7, CallTypes DEF AddEventNotify
  <2> QED BY <1>7, <2>1, <2>2 DEF AddEventNotify, With
<1>8. CASE UiWake
  BY <1>8 DEF UiWake
<1>9. CASE badge_input_get_event
  BY <1>9, QueueLenAssumption DEF badge_input_get_event
<1>10. CASE UiRead
  BY <1>10, TurnedType DEF UiRead
<1>11. CASE UNCHANGED vars
  BY <1>11 DEF vars
<1> QED BY InputCases, <1>1, <1>2, <1>3, <1>4, <1>5, <1>6, <1>7, <1>8, <1>9, <1>10, <1>11

(* The fields of a writer's call after its step; the other writer's stays. *)
LEMMA CallsStep == TypeOK /\ CallsOK /\ [Next]_vars => CallsOK'
<1> SUFFICES ASSUME TypeOK, CallsOK, [Next]_vars PROVE CallsOK'
  OBVIOUS
<1>0. call \in [Writers -> Call]
  BY DEF TypeOK
<1> USE DEF CallsOK, Writers, Call
<1>1. ASSUME NEW b \in GpioButtons, PinChange(b) PROVE CallsOK'
  BY <1>1 DEF PinChange
<1>2. ASSUME NEW b \in GpioButtons, badge_gpiobutton_handler(b) PROVE CallsOK'
  BY <1>0, <1>2 DEF badge_gpiobutton_handler, AddEvent
<1>3. ASSUME NEW b \in TouchButtons, TouchEvent(b) PROVE CallsOK'
  BY <1>0, <1>3 DEF TouchEvent, AddEvent, With
<1>4. ASSUME NEW w \in Writers, AddEventLoad(w) PROVE CallsOK'
  BY <1>0, <1>4 DEF AddEventLoad
<1>5. ASSUME NEW w \in Writers, AddEventStore(w) PROVE CallsOK'
  BY <1>0, <1>5 DEF AddEventStore
<1>6. ASSUME NEW w \in Writers, AddEventSend(w) PROVE CallsOK'
  BY <1>0, <1>6 DEF AddEventSend
<1>7. ASSUME NEW w \in Writers, AddEventNotify(w) PROVE CallsOK'
  BY <1>0, <1>7 DEF AddEventNotify, NoCall
<1>8. CASE UiWake \/ badge_input_get_event \/ UiRead \/ UNCHANGED vars
  BY <1>8 DEF UiWake, badge_input_get_event, UiRead, vars
<1> QED BY InputCases, <1>1, <1>2, <1>3, <1>4, <1>5, <1>6, <1>7, <1>8

LEMMA LevelStep == TypeOK /\ CallsOK /\ LevelSeen /\ [Next]_vars => LevelSeen'
<1> SUFFICES ASSUME TypeOK, CallsOK, LevelSeen, [Next]_vars PROVE LevelSeen'
  OBVIOUS
<1>0. call \in [Writers -> Call] /\ gpio_old \subseteq GpioButtons
  BY DEF TypeOK
<1> USE DEF LevelSeen, Works, Writers, Call
<1>1. ASSUME NEW b \in GpioButtons, PinChange(b) PROVE LevelSeen'
  BY <1>1 DEF PinChange, With
<1>2. ASSUME NEW b \in GpioButtons, badge_gpiobutton_handler(b) PROVE LevelSeen'
  BY <1>0, <1>2 DEF badge_gpiobutton_handler, AddEvent
<1>3. ASSUME NEW b \in TouchButtons, TouchEvent(b) PROVE LevelSeen'
  BY <1>0, <1>3 DEF TouchEvent
<1>4. ASSUME NEW w \in Writers, AddEventLoad(w) PROVE LevelSeen'
  BY <1>0, <1>4 DEF AddEventLoad
<1>5. ASSUME NEW w \in Writers, AddEventStore(w) PROVE LevelSeen'
  BY <1>0, <1>5 DEF AddEventStore
<1>6. ASSUME NEW w \in Writers, AddEventSend(w) PROVE LevelSeen'
  BY <1>0, <1>6 DEF AddEventSend
<1>7. ASSUME NEW w \in Writers, AddEventNotify(w) PROVE LevelSeen'
  BY <1>0, <1>7 DEF AddEventNotify, NoCall, With
<1>8. CASE UiWake \/ badge_input_get_event \/ UiRead \/ UNCHANGED vars
  BY <1>8 DEF UiWake, badge_input_get_event, UiRead, vars
<1> QED BY InputCases, <1>1, <1>2, <1>3, <1>4, <1>5, <1>6, <1>7, <1>8

LEMMA InStepStep == TypeOK /\ CallsOK /\ InStep /\ [Next]_vars => InStep'
<1> SUFFICES ASSUME TypeOK, CallsOK, InStep, [Next]_vars PROVE InStep'
  OBVIOUS
<1>0. call \in [Writers -> Call] /\ gpio_old \subseteq GpioButtons /\ said \subseteq TouchButtons
  BY DEF TypeOK
<1> USE ButtonsAssumption DEF InStep, Works, Stored, Writers, Call, CallsOK
<1>1. ASSUME NEW b \in GpioButtons, PinChange(b) PROVE InStep'
  BY <1>1 DEF PinChange
<1>2. ASSUME NEW b \in GpioButtons, badge_gpiobutton_handler(b) PROVE InStep'
  BY <1>0, <1>2 DEF badge_gpiobutton_handler, AddEvent
<1>3. ASSUME NEW b \in TouchButtons, TouchEvent(b) PROVE InStep'
  BY <1>0, <1>3 DEF TouchEvent, AddEvent, With
<1>4. ASSUME NEW w \in Writers, AddEventLoad(w) PROVE InStep'
  BY <1>0, <1>4 DEF AddEventLoad
<1>5. ASSUME NEW w \in Writers, AddEventStore(w) PROVE InStep'
  <2> SUFFICES ASSUME ~raced' PROVE InStep'
    OBVIOUS
  <2>1. ~raced /\ button_state' = With(button_state, call[w].button, call[w].pressed)
    BY <1>5 DEF AddEventStore
  <2>2. /\ call[w].pc = "store" /\ call'[w].pc \in {"send", "notify"}
        /\ call'[w].button = call[w].button /\ call'[w].pressed = call[w].pressed
        /\ \A x \in Writers \ {w} : call'[x] = call[x]
        /\ UNCHANGED <<gpio_old, said>>
    BY <1>0, <1>5 DEF AddEventStore
  <2>3. CASE w = "isr"
    BY <2>1, <2>2, <2>3 DEF With
  <2>4. CASE w = "touch"
    BY <2>1, <2>2, <2>4 DEF With
  <2> QED BY <2>3, <2>4
<1>6. ASSUME NEW w \in Writers, AddEventSend(w) PROVE InStep'
  BY <1>0, <1>6 DEF AddEventSend
<1>7. ASSUME NEW w \in Writers, AddEventNotify(w) PROVE InStep'
  BY <1>0, <1>7 DEF AddEventNotify, NoCall, With
<1>8. CASE UiWake \/ badge_input_get_event \/ UiRead \/ UNCHANGED vars
  BY <1>8 DEF UiWake, badge_input_get_event, UiRead, vars
<1> QED BY InputCases, <1>1, <1>2, <1>3, <1>4, <1>5, <1>6, <1>7, <1>8

LEMMA WakeupStep == TypeOK /\ NoLostWakeup /\ [Next]_vars => NoLostWakeup'
<1> SUFFICES ASSUME TypeOK, NoLostWakeup, [Next]_vars PROVE NoLostWakeup'
  OBVIOUS
<1>0. call \in [Writers -> Call]
  BY DEF TypeOK
<1> USE DEF NoLostWakeup, Writers, Call
<1>1. ASSUME NEW b \in GpioButtons, PinChange(b) PROVE NoLostWakeup'
  BY <1>1 DEF PinChange
<1>2. ASSUME NEW b \in GpioButtons, badge_gpiobutton_handler(b) PROVE NoLostWakeup'
  BY <1>0, <1>2 DEF badge_gpiobutton_handler, AddEvent
<1>3. ASSUME NEW b \in TouchButtons, TouchEvent(b) PROVE NoLostWakeup'
  BY <1>0, <1>3 DEF TouchEvent, AddEvent
<1>4. ASSUME NEW w \in Writers, AddEventLoad(w) PROVE NoLostWakeup'
  BY <1>0, <1>4 DEF AddEventLoad
<1>5. ASSUME NEW w \in Writers, AddEventStore(w) PROVE NoLostWakeup'
  BY <1>0, <1>5 DEF AddEventStore
<1>6. ASSUME NEW w \in Writers, AddEventSend(w) PROVE NoLostWakeup'
  BY <1>0, <1>6 DEF AddEventSend
<1>7. ASSUME NEW w \in Writers, AddEventNotify(w) PROVE NoLostWakeup'
  BY <1>0, <1>7 DEF AddEventNotify
<1>8. CASE UiWake \/ badge_input_get_event \/ UNCHANGED vars
  BY <1>8 DEF UiWake, badge_input_get_event, vars
<1>9. CASE UiRead
  BY <1>9 DEF UiRead
<1> QED BY InputCases, <1>1, <1>2, <1>3, <1>4, <1>5, <1>6, <1>7, <1>8, <1>9

-----------------------------------------------------------------------------
LEMMA InputInvInit == Init => InputInv
<1> SUFFICES ASSUME Init PROVE InputInv
  OBVIOUS
<1> USE DEF Init
<1>1. TypeOK
  <2>1. call \in [Writers -> Call]
    BY CallTypes
  <2>2. queue \in Seq(Buttons) /\ Len(queue) <= QueueLen
    BY QueueLenAssumption
  <2> QED BY <2>1, <2>2 DEF TypeOK
<1>2. CallsOK
  BY DEF CallsOK, NoCall, Writers
<1>3. LevelSeen /\ InStep
  BY DEF LevelSeen, InStep, Works, Stored, NoCall, Writers
<1>4. NoLostWakeup
  BY TurnedEmpty DEF NoLostWakeup
<1> QED BY <1>1, <1>2, <1>3, <1>4 DEF InputInv

LEMMA InputInvAlways == Spec => []InputInv
<1>1. InputInv /\ [Next]_vars => InputInv'
  BY InputTypeStep, CallsStep, LevelStep, InStepStep, WakeupStep DEF InputInv
<1> QED BY InputInvInit, <1>1, PTL DEF Spec

(* For every set of buttons, queue length and rotation, all state of the   *)
(* input path keeps its type; the queue never exceeds what xQueueCreate()  *)
(* gave it (badge_input.c:67-80).                                          *)
THEOREM InputTypes == Spec => []TypeOK
<1>1. InputInv => TypeOK
  BY DEF InputInv
<1> QED BY InputInvAlways, <1>1, PTL

(* Only a store over another writer's store can falsify the bitmap         *)
(* (badge_input.c:66, 84): not bounces, late edges, a full queue, or the   *)
(* order of the calls.                                                     *)
THEOREM BitmapIsTruthUnlessRaced == Spec => []TruthUnlessRaced
<1>1. InputInv => TruthUnlessRaced
  BY DEF InputInv, LevelSeen, InStep, Works, Stored, TruthUnlessRaced, ButtonStateIsTruth,
         Writers
<1> QED BY InputInvAlways, <1>1, PTL

(* No wakeup of the consumer is lost, whatever the writers overwrite and   *)
(* the queue drops (badge_input.c:87-89, ginput_lld_toggle.c:42-80).       *)
THEOREM WakeupsAreNotLost == Spec => []NoLostWakeup
<1>1. InputInv => NoLostWakeup
  BY DEF InputInv
<1> QED BY InputInvAlways, <1>1, PTL

-----------------------------------------------------------------------------
(* A board whose buttons are all on GPIO pins, or all on the controller. *)
OneWriter == TouchButtons = {} \/ GpioButtons = {}

(* What a writer has loaded is still in the bitmap when it stores. *)
NoRace ==
  /\ ~raced
  /\ \A w \in Writers : call[w].pc = "store" => call[w].tmp = button_state

LEMMA OneIsIdle ==
  ASSUME OneWriter, CallsOK
  PROVE  call["isr"].pc = "idle" \/ call["touch"].pc = "idle"
BY DEF OneWriter, CallsOK

LEMMA NoRaceStep == OneWriter /\ TypeOK /\ CallsOK /\ NoRace /\ [Next]_vars => NoRace'
<1> SUFFICES ASSUME OneWriter, TypeOK, CallsOK, NoRace, [Next]_vars PROVE NoRace'
  OBVIOUS
<1>0. call \in [Writers -> Call]
  BY DEF TypeOK
<1> USE DEF NoRace, Writers, Call
<1>1. ASSUME NEW b \in GpioButtons, PinChange(b) PROVE NoRace'
  BY <1>1 DEF PinChange
<1>2. ASSUME NEW b \in GpioButtons, badge_gpiobutton_handler(b) PROVE NoRace'
  BY <1>0, <1>2 DEF badge_gpiobutton_handler, AddEvent
<1>3. ASSUME NEW b \in TouchButtons, TouchEvent(b) PROVE NoRace'
  BY <1>0, <1>3 DEF TouchEvent, AddEvent
<1>4. ASSUME NEW w \in Writers, AddEventLoad(w) PROVE NoRace'
  BY <1>0, <1>4 DEF AddEventLoad
<1>5. ASSUME NEW w \in Writers, AddEventStore(w) PROVE NoRace'
  BY <1>0, <1>5, OneIsIdle DEF AddEventStore
<1>6. ASSUME NEW w \in Writers, AddEventSend(w) PROVE NoRace'
  BY <1>0, <1>6 DEF AddEventSend
<1>7. ASSUME NEW w \in Writers, AddEventNotify(w) PROVE NoRace'
  BY <1>0, <1>7 DEF AddEventNotify, NoCall
<1>8. CASE UiWake \/ badge_input_get_event \/ UiRead \/ UNCHANGED vars
  BY <1>8 DEF UiWake, badge_input_get_event, UiRead, vars
<1> QED BY InputCases, <1>1, <1>2, <1>3, <1>4, <1>5, <1>6, <1>7, <1>8

(* On a board with one writer of the bitmap (the SHA2017 V1 with its GPIO  *)
(* buttons) the bitmap is right whenever no event is on its way, as        *)
(* badge_input.h:34 promises.  The HackerHotel board has two writers, and  *)
(* there the run buttons_race refutes it.                                  *)
THEOREM OneWriterIsTruth ==
  ASSUME OneWriter
  PROVE  Spec => []ButtonStateIsTruth
<1>1. Init => NoRace
  BY DEF Init, NoRace, NoCall
<1>2. InputInv /\ NoRace /\ [Next]_vars => NoRace'
  BY OneWriter, NoRaceStep DEF InputInv
<1>3. InputInv /\ NoRace => ButtonStateIsTruth
  BY DEF InputInv, NoRace, LevelSeen, InStep, Works, Stored, ButtonStateIsTruth, Writers
<1> QED BY InputInvAlways, <1>1, <1>2, <1>3, PTL DEF Spec

-----------------------------------------------------------------------------
(***************************************************************************)
(* The board.  ButtonInput allows a touch event for any button that lets   *)
(* presses and releases alternate; that the touch task only ever calls     *)
(* mpr121_event_handler() so is what EventsAlternate of the one component  *)
(* and Linked below give the other.                                        *)
(***************************************************************************)
(* The handler was told what the touch task has reported. *)
Linked == said = {ButtonOf[p] : p \in reported}

(* A button held since before boot has had no interrupt yet. *)
UnseenOK == \A b \in unseen : b \notin pinEdge /\ b \notin gpio_old /\ ~Works("isr", b)

BoardInv == TouchInv /\ InputInv /\ Linked /\ UnseenOK

LEMMA LinkedPin ==
  ASSUME Wired, TouchTypeOK, Linked, NEW p \in Pins
  PROVE  ButtonOf[p] \in TouchButtons /\ (ButtonOf[p] \in said <=> p \in reported)
BY DEF Wired, TouchTypeOK, Linked

(* The pin whose handler is called is one the task has not reported so.    *)
LEMMA HandlerCall ==
  ASSUME Wired, BoardInv, pc = "loop", i < NPins, Changed(i)
  PROVE  /\ i \in Pins
         /\ ButtonOf[i] \in TouchButtons
         /\ (i \in state) = (ButtonOf[i] \notin said)
<1>1. i \in Pins /\ ~(i < i)
  BY NPinsAssumption DEF BoardInv, TouchInv, TouchTypeOK, Pins
<1>2. i \in reported <=> i \in old_state
  BY <1>1 DEF BoardInv, TouchInv, ReportOK
<1>3. ButtonOf[i] \in TouchButtons /\ (ButtonOf[i] \in said <=> i \in reported)
  BY <1>1, LinkedPin DEF BoardInv, TouchInv
<1> QED BY <1>1, <1>2, <1>3 DEF Changed

(* Every step of the board is a step, or none, of either component.        *)
LEMMA PartSteps ==
  ASSUME Wired, BoardInv, [BoardNext]_boardVars
  PROVE  [Next]_vars /\ [TouchNext]_touchVars
<1>1. CASE TouchTask
  <2>1. TouchNext
    BY <1>1 DEF TouchTask, TouchNext
  <2>2. CASE pc = "loop" /\ i < NPins /\ Changed(i)
    <3>1. /\ ButtonOf[i] \in TouchButtons
          /\ (i \in state) = (ButtonOf[i] \notin said)
      BY <2>2, HandlerCall
    <3>2. mpr121_event_handler(i) /\ call["touch"].pc = "idle"
      BY <1>1, <2>2 DEF TouchTask, InHandler
    <3>3. TouchEvent(ButtonOf[i])
      BY <3>1, <3>2 DEF mpr121_event_handler, TouchEvent
    <3> QED BY <2>1, <3>1, <3>3 DEF Next
  <2>3. CASE ~(pc = "loop" /\ i < NPins /\ Changed(i))
    BY <1>1, <2>1, <2>3 DEF TouchTask
  <2> QED BY <2>2, <2>3
<1>2. CASE AroundTouch
  BY <1>2 DEF AroundTouch, TouchNext
<1>3. CASE AroundInput
  BY <1>3 DEF AroundInput, Next
<1>4. CASE UNCHANGED boardVars
  BY <1>4 DEF boardVars
<1> QED BY <1>1, <1>2, <1>3, <1>4 DEF BoardNext

LEMMA LinkedStep ==
  ASSUME Wired, BoardInv, [BoardNext]_boardVars
  PROVE  Linked'
<1>1. Linked /\ said = {ButtonOf[p] : p \in reported}
  BY DEF BoardInv, Linked
<1>2. CASE UNCHANGED <<said, reported>>
  BY <1>1, <1>2 DEF Linked
<1>3. CASE TouchTask
  <2>1. CASE pc = "loop" /\ i < NPins /\ Changed(i)
    <3>1. i \in Pins /\ reported \subseteq Pins
      BY <2>1, HandlerCall DEF BoardInv, TouchInv, TouchTypeOK
    <3>2. TaskLoop /\ said' = With(said, ButtonOf[i], i \in state)
      <4>1. i # NPins
        BY <2>1, NPinsAssumption
      <4>2. TaskLoop
        BY <1>3, <2>1, <4>1 DEF TouchTask, TaskStep, TaskTake, TaskReadOk, TaskReadFailed,
                                TaskRetry, TaskLoopEnd, TaskClearOvcf, TaskRerun
      <4> QED BY <1>3, <2>1, <4>2 DEF TouchTask, mpr121_event_handler
    <3>3. reported' = IF i \in state THEN reported \cup {i} ELSE reported \ {i}
      <4>1. CASE i \in state
        BY <2>1, <3>2, <4>1 DEF TaskLoop
      <4>2. CASE i \notin state
        BY <2>1, <3>2, <4>2 DEF TaskLoop
      <4> QED BY <4>1, <4>2
    <3>4. \A p \in Pins : ButtonOf[p] = ButtonOf[i] => p = i
      BY <3>1 DEF Wired
    <3>5. CASE i \in state
      BY <1>1, <3>2, <3>3, <3>5 DEF Linked, With
    <3>6. CASE i \notin state
      BY <1>1, <3>1, <3>2, <3>3, <3>4, <3>6 DEF Linked, With
    <3> QED BY <3>5, <3>6
  <2>2. CASE ~(pc = "loop" /\ i < NPins /\ Changed(i))
    <3>1. UNCHANGED said
      BY <1>3, <2>2 DEF TouchTask, vars
    <3>2. UNCHANGED reported
      BY <1>3, <2>2 DEF TouchTask, TaskStep, TaskTake, TaskReadOk, TaskReadFailed, TaskRetry,
                        TaskLoop, TaskLoopEnd, TaskClearOvcf, TaskRerun
    <3> QED BY <1>2, <3>1, <3>2
  <2> QED BY <2>1, <2>2
<1>4. CASE AroundTouch
  <2>1. UNCHANGED said
    BY <1>4 DEF AroundTouch, vars
  <2>2. UNCHANGED reported
    BY <1>4 DEF AroundTouch, TouchChange, OverCurrent, badge_mpr121_intr_handler, Configure,
                ConfigureFail, ConfigureReset, ConfigureSetup, ConfigureRun, ForeignRead, task
  <2> QED BY <1>2, <2>1, <2>2
<1>5. CASE AroundInput
  <2>1. UNCHANGED reported
    BY <1>5 DEF AroundInput, touchVars, task
  <2>2. UNCHANGED said
    BY <1>5 DEF AroundInput, PinChange, badge_gpiobutton_handler, Writer, AddEventLoad,
                AddEventStore, AddEventSend, AddEventNotify, Ui, UiWake,
                badge_input_get_event, UiRead
  <2> QED BY <1>2, <2>1, <2>2
<1>6. CASE UNCHANGED boardVars
  BY <1>2, <1>6 DEF boardVars, vars, touchVars, task
<1> QED BY <1>3, <1>4, <1>5, <1>6 DEF BoardNext

LEMMA UnseenStep == TypeOK /\ UnseenOK /\ [Next]_vars => UnseenOK'
<1> SUFFICES ASSUME TypeOK, UnseenOK, [Next]_vars PROVE UnseenOK'
  OBVIOUS
<1>0. call \in [Writers -> Call]
  BY DEF TypeOK
<1> USE DEF UnseenOK, Works, Writers, Call
<1>1. ASSUME NEW b \in GpioButtons, PinChange(b) PROVE UnseenOK'
  BY <1>1 DEF PinChange
<1>2. ASSUME NEW b \in GpioButtons, badge_gpiobutton_handler(b) PROVE UnseenOK'
  BY <1>0, <1>2 DEF badge_gpiobutton_handler, AddEvent
<1>3. ASSUME NEW b \in TouchButtons, TouchEvent(b) PROVE UnseenOK'
  BY <1>0, <1>3 DEF TouchEvent, AddEvent
<1>4. ASSUME NEW w \in Writers, AddEventLoad(w) PROVE UnseenOK'
  BY <1>0, <1>4 DEF AddEventLoad
<1>5. ASSUME NEW w \in Writers, AddEventStore(w) PROVE UnseenOK'
  BY <1>0, <1>5 DEF AddEventStore
<1>6. ASSUME NEW w \in Writers, AddEventSend(w) PROVE UnseenOK'
  BY <1>0, <1>6 DEF AddEventSend
<1>7. ASSUME NEW w \in Writers, AddEventNotify(w) PROVE UnseenOK'
  BY <1>0, <1>7 DEF AddEventNotify, NoCall, With
<1>8. CASE UiWake \/ badge_input_get_event \/ UiRead \/ UNCHANGED vars
  BY <1>8 DEF UiWake, badge_input_get_event, UiRead, vars
<1> QED BY InputCases, <1>1, <1>2, <1>3, <1>4, <1>5, <1>6, <1>7, <1>8

LEMMA BoardInvInit == BoardInit => BoardInv
<1> SUFFICES ASSUME BoardInit PROVE BoardInv
  OBVIOUS
<1>1. Linked /\ UnseenOK
  BY DEF BoardInit, Init, TouchInit, Linked, UnseenOK, Works, NoCall, Writers
<1> QED BY <1>1, TouchInvInit, InputInvInit DEF BoardInit, BoardInv

LEMMA BoardInvStep ==
  ASSUME Wired, BoardInv, [BoardNext]_boardVars
  PROVE  BoardInv'
<1>1. [Next]_vars /\ [TouchNext]_touchVars
  BY PartSteps
<1>2. TouchInv'
  BY <1>1, TouchTypeStep, ReportStep, LineStep, SeenStep DEF BoardInv, TouchInv
<1>3. InputInv' /\ UnseenOK'
  BY <1>1, InputTypeStep, CallsStep, LevelStep, InStepStep, WakeupStep, UnseenStep
     DEF BoardInv, InputInv
<1> QED BY <1>2, <1>3, LinkedStep DEF BoardInv

(* On a badge with an MPR121 the touch task and the input path keep each   *)
(* its own specification: mpr121_event_handler() is never called with the  *)
(* state it was called with before, which is what badge_input_add_event()  *)
(* was specified for, and the call never overlaps another one of the task  *)
(* (badge_mpr121.c:138-153, badge.c:83-88).                                *)
THEOREM BoardImplementsParts ==
  ASSUME Wired
  PROVE  BoardSpec => Init /\ [][Next]_vars /\ TouchInit /\ [][TouchNext]_touchVars
<1>1. BoardInit => BoardInv /\ Init /\ TouchInit
  BY BoardInvInit DEF BoardInit
<1>2. BoardInv /\ [BoardNext]_boardVars => BoardInv'
  BY Wired, BoardInvStep
<1>3. BoardInv /\ [BoardNext]_boardVars => [Next]_vars /\ [TouchNext]_touchVars
  BY Wired, PartSteps
<1> QED BY <1>1, <1>2, <1>3, PTL DEF BoardSpec

(* From the chip to the user interface: when nothing is on its way, what   *)
(* ginput_lld_toggle_getbits() returned last is exactly what is touched    *)
(* and held, whatever was overtaken, bounced, dropped from the full queue  *)
(* or read late (badge_mpr121.c:124-177, badge_input.c:54-90,              *)
(* ginput_lld_toggle.c:42-80).                                             *)
THEOREM TouchesReachTheUser ==
  ASSUME Wired
  PROVE  BoardSpec => []TouchesAreSeen
<1>1. BoardInv /\ [BoardNext]_boardVars => BoardInv'
  BY Wired, BoardInvStep
<1>2. BoardInv => TouchesAreSeen
  <2> SUFFICES ASSUME BoardInv,
                      pc = "wait", ~trigger, ~intEdge, ~hidden,
                      \A w \in Writers : call[w].pc = "idle",
                      pinEdge = {}, ui = "idle", ~wake, ~raced
               PROVE  bits = Turned((level \ unseen) \cup {ButtonOf[p] : p \in touch})
    BY DEF TouchesAreSeen
  <2>1. reported = touch
    BY DEF BoardInv, TouchInv, TouchTypeOK, ReportOK, LineOK, SeenOK, WillRead, LastSeen
  <2>2. said = {ButtonOf[p] : p \in touch}
    BY <2>1 DEF BoardInv, Linked
  <2>3. bits = Turned(button_state)
    BY DEF BoardInv, InputInv, NoLostWakeup
  <2>4. call["isr"].pc = "idle" /\ call["touch"].pc = "idle"
    BY DEF Writers
  <2>5. /\ level \subseteq GpioButtons /\ unseen \subseteq level /\ said \subseteq TouchButtons
        /\ button_state \subseteq GpioButtons \cup TouchButtons
    BY DEF BoardInv, InputInv, TypeOK, Buttons
  <2>6. \A b \in GpioButtons : b \in button_state <=> b \in level \ unseen
    BY <2>4 DEF BoardInv, InputInv, InStep, LevelSeen, UnseenOK, Stored, Works
  <2>7. \A b \in TouchButtons : b \in button_state <=> b \in said
    BY <2>4 DEF BoardInv, InputInv, InStep, Stored, Works
  <2>8. button_state = (level \ unseen) \cup said
    BY <2>5, <2>6, <2>7, ButtonsAssumption
  <2> QED BY <2>2, <2>3, <2>8
<1> QED BY BoardInvInit, <1>1, <1>2, PTL DEF BoardSpec
=============================================================================
