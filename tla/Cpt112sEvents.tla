---------------------------- MODULE Cpt112sEvents ----------------------------
(***************************************************************************)
(* The touch buttons of the boards with a CPT112S controller behind the     *)
(* FXL6408 port expander: the interrupt task of the expander                *)
(* (badge_fxl6408.c), the loop that fetches touch events and the            *)
(* initialisation that runs the same loop itself (badge_cpt112s.c), and     *)
(* the event handler (badge.c).                                             *)
(*                                                                          *)
(* The chips are external.  The CPT112S keeps a queue of events and holds   *)
(* its line low while the queue is not empty.  The expander sees the line   *)
(* as an input; when that leaves its default state and the interrupt is     *)
(* unmasked, a status bit is latched and the INT pin goes low.  Only a read *)
(* of the status register raises INT again.  A failed I2C read may have     *)
(* taken effect in the chip: the status is cleared, or the event shifted    *)
(* out and gone.  An event read of the empty queue is refused, or gives the *)
(* last event once more.                                                    *)
(***************************************************************************)
EXTENDS Naturals, Sequences, FiniteSets

CONSTANTS
  MaxEvents,  \* touch and release events of a run
  MaxFaults   \* I2C transfers that fail

ASSUME BoundAssumption == MaxEvents \in Nat /\ MaxFaults \in Nat

\* The expander's interrupt task and the task that runs badge_init().
Readers == {"task", "main"}

VARIABLES
  queue,     \* events the CPT112S holds; an event is its number
  made,      \* the number of events so far
  unmasked,  \* the expander reports changes of the line
  status,    \* the latched status bit; INT is low while it is set
  edge,      \* a falling edge of INT that the interrupt handler has not seen yet
  trigger,   \* badge_fxl6408_intr_trigger
  at,        \* where each reader is
  ev,        \* the event each reader holds, 0 for none
  delivered, \* the events given to badge_cpt112s_handler, and by whom (history)
  dropped,   \* the events that failed reads have shifted out (history)
  deaf,      \* a failed status read left INT low (history)
  faults

chip    == <<queue, made, unmasked, status, edge, trigger>>
history == <<delivered, dropped, deaf>>
vars    == <<chip, at, ev, history, faults>>

Stages == {"take", "status",                               \* the interrupt task
           "default", "enable", "done", "failed",          \* badge_cpt112s_init()
           "input", "event", "deliver"}                    \* the event loop of both

Fault == faults < MaxFaults /\ faults' = faults + 1

-----------------------------------------------------------------------------
(* The chips and the interrupt. *)

\* The line goes low with the first event; the change is latched if unmasked.
Touch ==
  /\ made < MaxEvents
  /\ made' = made + 1
  /\ queue' = Append(queue, made + 1)
  /\ LET latched == queue = <<>> /\ unmasked IN
       /\ status' = (status \/ latched)
       /\ edge' = (edge \/ (latched /\ ~status))
  /\ UNCHANGED <<unmasked, trigger, at, ev, history, faults>>

\* badge_fxl6408_intr_handler() on an edge of INT: the level is read again.
IntrHandler ==
  /\ edge
  /\ edge' = FALSE
  /\ trigger' = (trigger \/ status)
  /\ UNCHANGED <<queue, made, unmasked, status, at, ev, history, faults>>

-----------------------------------------------------------------------------
(* badge_fxl6408_intr_task(). *)

Take ==
  /\ at["task"] = "take" /\ trigger
  /\ trigger' = FALSE
  /\ at' = [at EXCEPT !["task"] = "status"]
  /\ UNCHANGED <<queue, made, unmasked, status, edge, ev, history, faults>>

\* A task that waits for the next interrupt when the status cannot be read.
AfterStatus_FailIsNone(ints, failed) == IF ints /\ ~failed THEN "input" ELSE "take"

\* A failed read is -1, "then all handlers will trigger".
AfterStatus(ints, failed) == IF ints \/ failed THEN "input" ELSE "take"

ReadStatus ==
  /\ at["task"] = "status"
  /\ status' = FALSE
  /\ at' = [at EXCEPT !["task"] = AfterStatus(status, FALSE)]
  /\ UNCHANGED <<queue, made, unmasked, edge, trigger, ev, history, faults>>
ReadStatusFails ==
  /\ at["task"] = "status"
  /\ Fault
  /\ status' \in {status, FALSE}
  /\ deaf' = (deaf \/ status')
  /\ at' = [at EXCEPT !["task"] = AfterStatus(status, TRUE)]
  /\ UNCHANGED <<queue, made, unmasked, edge, trigger, ev, delivered, dropped>>

-----------------------------------------------------------------------------
(* badge_cpt112s_intr_handler(), in either task. *)

Home(r) == IF r = "task" THEN "take" ELSE "done"

\* A loop that gives up when the line cannot be read.
AfterInputError_Break(r) == Home(r)

AfterInputError(r) == "input"

\* The -1 of a failed event read given to the handler.
AfterEventError_Deliver(r) == "deliver"

AfterEventError(r) == "input"

\* badge_init() that sets the event handler after badge_cpt112s_init().
Handled_Late(r) == IF r = "main" THEN delivered
                   ELSE Append(delivered, [event |-> ev[r], by |-> r])
\* An event put at the front of the input queue.
Handled_ToFront(r) == <<[event |-> ev[r], by |-> r]>> \o delivered

\* cpt112s_event_handler(): badge_input_add_event().
Handled(r) == Append(delivered, [event |-> ev[r], by |-> r])

GetInput(r) ==
  /\ at[r] = "input"
  /\ at' = [at EXCEPT ![r] = IF queue = <<>> THEN Home(r) ELSE "event"]
  /\ UNCHANGED <<chip, ev, history, faults>>
GetInputFails(r) ==
  /\ at[r] = "input"
  /\ Fault
  /\ at' = [at EXCEPT ![r] = AfterInputError(r)]
  /\ UNCHANGED <<chip, ev, history>>

\* The event the chip has given last.
fetched == made - Len(queue)

\* badge_cpt112s_read_event().
ReadEvent(r) ==
  /\ at[r] = "event"
  /\ queue # <<>>
  /\ queue' = Tail(queue)
  /\ ev' = [ev EXCEPT ![r] = Head(queue)]
  /\ at' = [at EXCEPT ![r] = "deliver"]
  /\ UNCHANGED <<made, unmasked, status, edge, trigger, history, faults>>

\* The other reader has fetched the event that held the line low: the chip refuses,
\* or gives that event once more.
ReadNoEvent(r) ==
  /\ at[r] = "event"
  /\ queue = <<>>
  /\ \/ /\ at' = [at EXCEPT ![r] = AfterEventError(r)]
        /\ UNCHANGED ev
     \/ /\ at' = [at EXCEPT ![r] = "deliver"]
        /\ ev' = [ev EXCEPT ![r] = fetched]
  /\ UNCHANGED <<chip, history, faults>>

\* An error in badge_i2c_read_event(), before or after the chip has shifted the event
\* out; badge_cpt112s_intr_handler() reads the line again either way.
ReadEventFails(r) ==
  /\ at[r] = "event"
  /\ Fault
  /\ at' = [at EXCEPT ![r] = AfterEventError(r)]
  /\ \/ UNCHANGED <<queue, dropped>>
     \/ /\ queue # <<>>
        /\ queue' = Tail(queue)
        /\ dropped' = dropped \cup {Head(queue)}
  /\ UNCHANGED <<made, unmasked, status, edge, trigger, ev, delivered, deaf>>

Deliver(r) ==
  /\ at[r] = "deliver"
  /\ delivered' = Handled(r)
  /\ ev' = [ev EXCEPT ![r] = 0]
  /\ at' = [at EXCEPT ![r] = "input"]
  /\ UNCHANGED <<chip, dropped, deaf, faults>>

-----------------------------------------------------------------------------
(* badge_cpt112s_init(): default state, interrupt enable, old events. *)

SetDefault ==
  /\ at["main"] = "default"
  /\ \/ at' = [at EXCEPT !["main"] = "enable"] /\ UNCHANGED faults
     \/ at' = [at EXCEPT !["main"] = "failed"] /\ Fault
  /\ UNCHANGED <<chip, ev, history>>

\* Whether a line that is low already counts as a change is up to the expander.
SetEnable ==
  /\ at["main"] = "enable"
  /\ \/ /\ unmasked' = TRUE
        /\ status' \in {status, status \/ queue # <<>>}
        /\ edge' = (edge \/ (status' /\ ~status))
        /\ at' = [at EXCEPT !["main"] = "input"]
        /\ UNCHANGED faults
     \/ /\ at' = [at EXCEPT !["main"] = "failed"]
        /\ Fault
        /\ UNCHANGED <<unmasked, status, edge>>
  /\ UNCHANGED <<queue, made, trigger, ev, history>>

-----------------------------------------------------------------------------
Init ==
  /\ queue = <<>> /\ made = 0
  /\ unmasked = FALSE /\ status = FALSE /\ edge = FALSE /\ trigger = FALSE
  /\ at = [r \in Readers |-> IF r = "task" THEN "take" ELSE "default"]
  /\ ev = [r \in Readers |-> 0]
  /\ delivered = <<>> /\ dropped = {} /\ deaf = FALSE /\ faults = 0

LoopStep(r) == \/ GetInput(r) \/ GetInputFails(r)
               \/ ReadEvent(r) \/ ReadNoEvent(r) \/ ReadEventFails(r) \/ Deliver(r)
TaskStep == Take \/ ReadStatus \/ ReadStatusFails \/ LoopStep("task")
MainStep == SetDefault \/ SetEnable \/ LoopStep("main")

Next == Touch \/ IntrHandler \/ TaskStep \/ MainStep

\* FreeRTOS runs a task that is ready; the interrupt is taken.
Spec == /\ Init /\ [][Next]_vars
        /\ WF_vars(IntrHandler) /\ WF_vars(TaskStep) /\ WF_vars(MainStep)

-----------------------------------------------------------------------------
TypeOK ==
  /\ queue \in Seq(1..MaxEvents) /\ made \in 0..MaxEvents
  /\ unmasked \in BOOLEAN /\ status \in BOOLEAN /\ edge \in BOOLEAN /\ trigger \in BOOLEAN
  /\ at \in [Readers -> Stages] /\ ev \in [Readers -> 0..MaxEvents]
  /\ delivered \in Seq([event : 1..MaxEvents, by : Readers])
  /\ dropped \subseteq 1..MaxEvents /\ deaf \in BOOLEAN /\ faults \in 0..MaxFaults

\* While an event waits in the chip and the interrupt task sleeps, something is
\* on its way to wake it or badge_cpt112s_init() is still fetching: an event that
\* arrives after the loop saw the line high always raises a new interrupt.  The
\* exceptions are an initialisation that gave up and an INT pin left low by a
\* failed status read, after which no edge can come.
NoEventStranded ==
  queue # <<>> /\ at["task"] = "take" =>
    \/ edge \/ trigger
    \/ at["main"] # "done"
    \/ deaf

\* Every event is in the chip, or has left it by one of the two readers: it is in
\* their hands or delivered, unless a read that failed had already shifted it out.
\* No reader delivers an event twice, and none delivers what is still in the chip;
\* so only an event that badge_cpt112s_init() fetched too is ever given twice.
EachEventOnce ==
  \A e \in 1..made :
    LET given(r) == Cardinality({i \in DOMAIN delivered : delivered[i] = [event |-> e, by |-> r]})
                    + (IF ev[r] = e THEN 1 ELSE 0)
    IN  IF \E i \in DOMAIN queue : queue[i] = e
        THEN \A r \in Readers : given(r) = 0
        ELSE /\ \A r \in Readers : given(r) <= 1
             /\ e \in dropped \/ \E r \in Readers : given(r) = 1

\* Events reach the button state in the order in which they were made, press
\* before release, unless one of the two was fetched by badge_cpt112s_init(),
\* which runs beside the interrupt task and may be overtaken by it.
InOrderExceptInit ==
  \A i, j \in DOMAIN delivered :
    i < j /\ delivered[i].event > delivered[j].event =>
      "main" \in {delivered[i].by, delivered[j].by}

\* Once initialised, the driver empties the chip's queue, whatever reads fail on
\* the way, unless INT was left low.
QueueIsEmptied == (queue # <<>> /\ at["main"] = "done") ~> (queue = <<>> \/ deaf)
=============================================================================
