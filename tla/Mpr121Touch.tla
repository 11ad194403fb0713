---------------------------- MODULE Mpr121Touch ----------------------------
(***************************************************************************)
(* The touch side of badge_mpr121.c.  The MPR121 pulls its INT line low    *)
(* when a status bit changes and releases it when the status registers are *)
(* read.  Both edges run badge_mpr121_intr_handler(), which gives a binary *)
(* semaphore when it finds the line low; badge_mpr121_intr_task() waits    *)
(* for the semaphore, reads the status until a read succeeds, calls the    *)
(* handler of every pin whose bit differs from the previous status, and    *)
(* restarts the chip after an over-current.  The main task configures the  *)
(* chip once (badge_init()), and other code may read the status registers  *)
(* (badge_mpr121_get_touch_info(), badge_mpr121_get_gpio_level()).         *)
(*                                                                         *)
(* The ESP32 may have restarted while the chip kept running: it may start  *)
(* with pins touched and with INT low, an edge that nobody saw.            *)
(***************************************************************************)
EXTENDS Naturals

CONSTANTS
  NPins,         \* number of touch inputs (8 in the code)
  Baseline,      \* CONFIG_SHA_BADGE_MPR121_HARDCODE_BASELINE
  ForeignReads   \* do other tasks read the status registers?

ASSUME NPinsAssumption == NPins \in Nat \ {0}
ASSUME FlagsAssumption ==
  Baseline \in BOOLEAN /\ ForeignReads \in BOOLEAN

Pins == 0..(NPins - 1)

VARIABLES
  touch,     \* the pins the chip's status registers say are touched
  ovcf,      \* their over-current flag, bit 15
  running,   \* the chip is in run mode
  tracking,  \* run mode was entered with base-line tracking (0x88)
  intLow,    \* level of the INT line
  intEdge,   \* an edge of INT is latched in the GPIO peripheral
  trigger,   \* badge_mpr121_intr_trigger
  pc,        \* where badge_mpr121_intr_task() is
  state,     \* its local "state": pins ...
  stOvcf,    \* ... and bit 15
  old_state, \* its local "old_state" (pins)
  i,         \* its loop variable
  reported,  \* the pins whose last handler call said "pressed"
  cfg,       \* progress of badge_mpr121_configure()
  hidden,    \* history: the status changed in a way the task was not told of
  lost       \* history: a write after the last over-current has failed

chip == <<touch, ovcf, running, tracking>>
line == <<intLow, intEdge, trigger>>
task == <<pc, state, stOvcf, old_state, i, reported>>
touchVars == <<chip, line, task, cfg, hidden, lost>>

(* badge_mpr121_init() creates the task and gives the semaphore once. *)
TouchInit ==
  /\ touch \in SUBSET Pins
  /\ running \in BOOLEAN
  /\ ovcf \in BOOLEAN /\ (ovcf => ~running)
  /\ tracking \in BOOLEAN
  /\ intLow \in BOOLEAN
  /\ intEdge = FALSE
  /\ trigger = TRUE
  /\ pc = "wait"
  /\ state = {}
  /\ stOvcf = FALSE
  /\ old_state = {}
  /\ i = 0
  /\ reported = {}
  /\ cfg = "reset"
  /\ hidden = FALSE
  /\ lost = FALSE

-----------------------------------------------------------------------------
(* The chip. *)

(* A status bit changes: INT goes low, an edge if it was high. *)
Assert ==
  /\ intLow' = TRUE
  /\ intEdge' = (intEdge \/ ~intLow)
  /\ UNCHANGED trigger

(* The status registers are read: INT goes high, an edge if it was low. *)
Release ==
  /\ intLow' = FALSE
  /\ intEdge' = (intEdge \/ intLow)
  /\ UNCHANGED trigger

TouchChange ==
  /\ running
  /\ \E p \in Pins : touch' = IF p \in touch THEN touch \ {p} ELSE touch \cup {p}
  /\ Assert
  /\ UNCHANGED <<ovcf, running, tracking, task, cfg, hidden, lost>>

(* An over-current sets bit 15 and leaves run mode. *)
OverCurrent ==
  /\ running
  /\ ovcf' = TRUE
  /\ running' = FALSE
  /\ lost' = FALSE
  /\ Assert
  /\ UNCHANGED <<touch, tracking, task, cfg, hidden>>

-----------------------------------------------------------------------------
(* Mutant: the handler gives the semaphore on the rising edge. *)
badge_mpr121_intr_handler_Rising ==
  /\ intEdge
  /\ intEdge' = FALSE
  /\ trigger' = (trigger \/ ~intLow)
  /\ UNCHANGED <<intLow, chip, task, cfg, hidden, lost>>

(* badge_mpr121_intr_handler(), on either edge of INT. *)
badge_mpr121_intr_handler ==
  /\ intEdge
  /\ intEdge' = FALSE
  /\ trigger' = (trigger \/ intLow)
  /\ UNCHANGED <<intLow, chip, task, cfg, hidden, lost>>

(* badge_mpr121_intr_task(): xSemaphoreTake(badge_mpr121_intr_trigger). *)
TaskTake ==
  /\ pc = "wait"
  /\ trigger
  /\ trigger' = FALSE
  /\ pc' = "read"
  /\ UNCHANGED <<intLow, intEdge, chip, state, stOvcf, old_state, i, reported, cfg, hidden, lost>>

(* badge_mpr121_get_interrupt_status() returned -1: wait a second, retry.  *)
TaskReadFailed ==
  /\ pc = "read"
  /\ pc' = "retry"
  /\ UNCHANGED <<chip, line, state, stOvcf, old_state, i, reported, cfg, hidden, lost>>

(* Mutant: after a failed read the task waits for the next interrupt. *)
TaskRetry_GiveUp ==
  /\ pc = "retry"
  /\ pc' = "wait"
  /\ UNCHANGED <<chip, line, state, stOvcf, old_state, i, reported, cfg, hidden, lost>>

TaskRetry ==
  /\ pc = "retry"
  /\ pc' = "read"
  /\ UNCHANGED <<chip, line, state, stOvcf, old_state, i, reported, cfg, hidden, lost>>

(* The read succeeded: it also releases INT. *)
TaskReadOk ==
  /\ pc = "read"
  /\ state' = touch
  /\ stOvcf' = ovcf
  /\ Release
  /\ pc' = "loop"
  /\ i' = 0
  /\ hidden' = FALSE
  /\ UNCHANGED <<chip, old_state, reported, cfg, lost>>

Changed(p) == (p \in state) # (p \in old_state)

(* Mutant: the loop runs one pin too far. *)
TaskLoop_OffByOne ==
  /\ pc = "loop"
  /\ i <= NPins
  /\ reported' = CASE Changed(i) /\ i \in state    -> reported \cup {i}
                   [] Changed(i) /\ i \notin state -> reported \ {i}
                   [] ~Changed(i)                  -> reported
  /\ i' = i + 1
  /\ UNCHANGED <<chip, line, pc, state, stOvcf, old_state, cfg, hidden, lost>>

(* One pass of the loop over the pins; the handler is called when the bit  *)
(* differs from the previous status.                                       *)
TaskLoop ==
  /\ pc = "loop"
  /\ i < NPins
  /\ reported' = CASE Changed(i) /\ i \in state    -> reported \cup {i}
                   [] Changed(i) /\ i \notin state -> reported \ {i}
                   [] ~Changed(i)                  -> reported
  /\ i' = i + 1
  /\ UNCHANGED <<chip, line, pc, state, stOvcf, old_state, cfg, hidden, lost>>

(* The end of the loop.  Without over-current: old_state = state.          *)
TaskLoopEnd ==
  /\ pc = "loop"
  /\ i = NPins
  /\ IF stOvcf
       THEN pc' = "clear" /\ UNCHANGED old_state
       ELSE pc' = "wait" /\ old_state' = state
  /\ UNCHANGED <<chip, line, state, stOvcf, i, reported, cfg, hidden, lost>>

(* After a second, "clear OVCF by writing a 1"; a failure is logged only.  *)
TaskClearOvcf ==
  /\ pc = "clear"
  /\ \/ ovcf' = FALSE /\ UNCHANGED lost
     \/ lost' = TRUE /\ UNCHANGED ovcf
  /\ pc' = "rerun"
  /\ UNCHANGED <<touch, running, tracking, line, state, stOvcf, old_state, i,
                 reported, cfg, hidden>>

(* Mutant: the over-current path goes back to waiting with "continue". *)
TaskRerun_KeepOld ==
  /\ pc = "rerun"
  /\ running' = (running \/ ~ovcf)
  /\ tracking' = (tracking \/ ~ovcf)
  /\ pc' = "wait"
  /\ UNCHANGED <<touch, ovcf, line, state, stOvcf, old_state, i, reported, cfg, hidden, lost>>

(* Mutant: the flag is cleared, but run mode is not entered again. *)
TaskRerun_ClearOnly ==
  /\ pc = "rerun"
  /\ pc' = "wait"
  /\ old_state' = state
  /\ UNCHANGED <<chip, line, state, stOvcf, i, reported, cfg, hidden, lost>>

(* Write 0x88 to 0x5e: run mode with base-line tracking.  The chip ignores *)
(* it while the over-current flag is set.                                  *)
TaskRerun ==
  /\ pc = "rerun"
  /\ \/ /\ running' = (running \/ ~ovcf)
        /\ tracking' = (tracking \/ ~ovcf)
        /\ UNCHANGED lost
     \/ lost' = TRUE /\ UNCHANGED <<running, tracking>>
  /\ pc' = "wait"
  /\ old_state' = state
  /\ UNCHANGED <<touch, ovcf, line, state, stOvcf, i, reported, cfg, hidden>>

-----------------------------------------------------------------------------
(* badge_mpr121_configure(): every failed write returns at once.           *)
ConfigureFail ==
  /\ cfg \in {"reset", "setup", "run"}
  /\ cfg' = "failed"
  /\ UNCHANGED <<chip, line, task, hidden, lost>>

(* The soft reset (0x80 <- 0x63): status cleared, stop mode, INT released. *)
ConfigureReset ==
  /\ cfg = "reset"
  /\ touch' = {}
  /\ ovcf' = FALSE
  /\ running' = FALSE
  /\ tracking' = FALSE
  /\ Release
  /\ hidden' = (hidden \/ touch # {} \/ intLow)
  /\ cfg' = "setup"
  /\ UNCHANGED <<task, lost>>

(* The filter, baseline and threshold registers. *)
ConfigureSetup ==
  /\ cfg = "setup"
  /\ cfg' = "run"
  /\ UNCHANGED <<chip, line, task, hidden, lost>>

(* Run mode: with base-line tracking only without hardcoded baselines.     *)
ConfigureRun ==
  /\ cfg = "run"
  /\ running' = (running \/ ~ovcf)
  /\ tracking' = IF ovcf THEN tracking ELSE ~Baseline
  /\ cfg' = "done"
  /\ UNCHANGED <<touch, ovcf, line, task, hidden, lost>>

(* badge_mpr121_get_touch_info() or badge_mpr121_get_gpio_level() of       *)
(* another task.  An edge that the interrupt handler has not served yet    *)
(* then finds INT high.                                                    *)
ForeignRead ==
  /\ ForeignReads
  /\ cfg \in {"done", "failed"}
  /\ Release
  /\ hidden' = (hidden \/ (intLow /\ intEdge))
  /\ UNCHANGED <<chip, task, cfg, lost>>

TaskStep ==
  \/ TaskTake \/ TaskReadOk \/ TaskReadFailed \/ TaskRetry
  \/ TaskLoop \/ TaskLoopEnd \/ TaskClearOvcf \/ TaskRerun

Configure == ConfigureFail \/ ConfigureReset \/ ConfigureSetup \/ ConfigureRun

TouchNext ==
  \/ TouchChange \/ OverCurrent
  \/ badge_mpr121_intr_handler
  \/ TaskStep
  \/ Configure
  \/ ForeignRead

(***************************************************************************)
(* Interrupts are served and the task, of priority 10, runs when it can.   *)
(* The I2C bus may fail, but not forever: a read that is tried again and   *)
(* again succeeds in the end.                                              *)
(***************************************************************************)
TouchFairness ==
  /\ WF_touchVars(badge_mpr121_intr_handler)
  /\ WF_touchVars(TaskStep)
  /\ SF_touchVars(TaskReadOk)

TouchSpec == TouchInit /\ [][TouchNext]_touchVars /\ TouchFairness

-----------------------------------------------------------------------------
(* The type invariant of the touch task, the INT line and the chip. *)
TouchTypeOK ==
  /\ touch \subseteq Pins
  /\ ovcf \in BOOLEAN /\ running \in BOOLEAN /\ tracking \in BOOLEAN
  /\ intLow \in BOOLEAN /\ intEdge \in BOOLEAN /\ trigger \in BOOLEAN
  /\ pc \in {"wait", "read", "retry", "loop", "clear", "rerun"}
  /\ state \subseteq Pins
  /\ stOvcf \in BOOLEAN
  /\ old_state \subseteq Pins
  /\ i \in 0..NPins
  /\ reported \subseteq Pins
  /\ cfg \in {"reset", "setup", "run", "done", "failed"}
  /\ hidden \in BOOLEAN
  /\ lost \in BOOLEAN

(***************************************************************************)
(* No touch is lost: when the task sleeps, the semaphore is not given and  *)
(* no edge waits for the interrupt handler, the events reported so far add *)
(* up to the chip's status.  The one exception is a status read or reset   *)
(* by other code since the task's last read (hidden).                      *)
(***************************************************************************)
NoTouchLost ==
  pc = "wait" /\ ~trigger /\ ~intEdge /\ ~hidden => reported = touch

(***************************************************************************)
(* Press and release events of a pin alternate: when the task is about to  *)
(* call a handler, the state it reports is not the one reported last, over *)
(* failed reads, over-currents and resets of the chip.                     *)
(***************************************************************************)
EventsAlternate ==
  pc = "loop" /\ i < NPins /\ Changed(i) => ((i \in state) # (i \in reported))

(***************************************************************************)
(* A touch that lasts is reported, and so is a release, however often the  *)
(* status could not be read before.                                        *)
(***************************************************************************)
TouchIsReported ==
  \A p \in Pins :
    /\ <>[](p \in touch /\ ~hidden) => <>[](p \in reported)
    /\ <>[](p \notin touch /\ ~hidden) => <>[](p \notin reported)

(***************************************************************************)
(* An over-current does not stop the touch input for good: the chip runs   *)
(* again, because the task clears the flag and then enters run mode.  The  *)
(* exceptions are a write of the task that fails (lost), a status read by  *)
(* other code before the interrupt handler has seen INT low (hidden), and  *)
(* a reset by badge_mpr121_configure(), whose own last write starts it.    *)
(***************************************************************************)
OverCurrentEnds == ovcf ~> (running \/ lost \/ hidden \/ (~ovcf /\ cfg = "setup"))
=============================================================================
