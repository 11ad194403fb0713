---------------------------- MODULE Fxl6408Regs ----------------------------
(***************************************************************************)
(* The configuration registers of the FXL6408 port expander and the copy   *)
(* of them that badge_fxl6408.c keeps in RAM (badge_fxl6408_state).        *)
(*                                                                         *)
(* Every badge_fxl6408_set_*() computes the new register value from the    *)
(* RAM copy, skips the I2C write when the copy says that nothing changes,  *)
(* and sets bit 8 of the copy when the write failed, so that the next      *)
(* setter writes again.  The setters are called from several FreeRTOS      *)
(* tasks and serialise on badge_fxl6408_mux.  A restart of the ESP32       *)
(* clears the RAM copy; the chip is not reset (the software reset in       *)
(* badge_fxl6408_init() is commented out) and keeps its registers.         *)
(*                                                                         *)
(* A register value is the set of the pins whose bit is 1.                 *)
(***************************************************************************)
EXTENDS Naturals

CONSTANTS
  Tasks,        \* FreeRTOS tasks that call the setters
  Pins,         \* pins of the expander (0..7 on the chip)
  UsedRegs,     \* the registers the callers change
  InitMayFail   \* may the I2C writes of badge_fxl6408_init() fail?

(* The fields of struct badge_fxl6408_state_t. *)
Regs == {"io_direction", "output_state", "output_high_z",
         "input_default_state", "pull_enable", "pull_down_up",
         "interrupt_mask"}

None == "none"

ASSUME TasksAssumption == None \notin Tasks
ASSUME PinsAssumption == Pins # {}
ASSUME UsedRegsAssumption == UsedRegs \subseteq Regs
ASSUME InitMayFailAssumption == InitMayFail \in BOOLEAN

VARIABLES
  inited,  \* badge_fxl6408_init_done
  hw,      \* the registers of the chip
  state,   \* badge_fxl6408_state, bits 0 to 7
  unknown, \* the registers whose bit 8 is set in badge_fxl6408_state
  mux,     \* holder of badge_fxl6408_mux, or None
  pc,      \* where each task is in the setter it runs
  op,      \* the arguments of that call and its local "value"
  acked    \* history: the pins of a register whose last call returned
           \* ESP_OK, by the bit that call set

vars == <<inited, hw, state, unknown, mux, pc, op, acked>>

Op == [reg : Regs, pin : Pins, on : BOOLEAN, value : SUBSET Pins]
NoOp == [reg |-> "io_direction", pin |-> CHOOSE p \in Pins : TRUE,
         on |-> FALSE, value |-> {}]

(***************************************************************************)
(* What badge_fxl6408_init() writes and copies into badge_fxl6408_state.   *)
(***************************************************************************)
InitValue(r) ==
  IF r \in {"output_high_z", "pull_enable", "interrupt_mask"} THEN Pins ELSE {}

(* The power-on values, from the comments in badge_fxl6408_state_t.  The   *)
(* RAM copy is in .bss: all zero until badge_fxl6408_init().               *)
PowerOnValue(r) ==
  IF r \in {"output_high_z", "pull_enable"} THEN Pins ELSE {}

RamZero == [r \in Regs |-> {}]
NoAck == [r \in Regs |-> [on |-> {}, off |-> {}]]
Forget(r, p) == [on |-> acked[r].on \ {p}, off |-> acked[r].off \ {p}]
Confirm(r, p, on) ==
  [on  |-> IF on THEN acked[r].on \cup {p} ELSE acked[r].on,
   off |-> IF on THEN acked[r].off ELSE acked[r].off \cup {p}]

Init ==
  /\ inited = FALSE
  /\ hw = [r \in Regs |-> PowerOnValue(r)]
  /\ state = RamZero
  /\ unknown = {}
  /\ mux = None
  /\ pc = [t \in Tasks |-> "idle"]
  /\ op = [t \in Tasks |-> NoOp]
  /\ acked = NoAck

(***************************************************************************)
(* badge_fxl6408_init(): the results of the register writes are ignored,   *)
(* so a register in "failed" keeps what the chip had.                      *)
(***************************************************************************)
badge_fxl6408_init ==
  /\ ~inited
  /\ \E failed \in (IF InitMayFail THEN SUBSET UsedRegs ELSE {{}}) :
       hw' = [r \in Regs |-> IF r \in failed THEN hw[r] ELSE InitValue(r)]
  /\ state' = [r \in Regs |-> InitValue(r)]
  /\ unknown' = {}
  /\ inited' = TRUE
  /\ acked' = [r \in Regs |-> [on |-> InitValue(r), off |-> Pins \ InitValue(r)]]
  /\ UNCHANGED <<mux, pc, op>>

(* Mutant: "value" is a uint16_t and keeps bit 8 of the copy. *)
NewValue_16Bit(r, p, on) ==
  LET copy == state[r] \cup (IF r \in unknown THEN {"bit 8"} ELSE {})
  IN IF on THEN copy \cup {p} ELSE copy \ {p}

(* "value |= 1 << pin" or "value &= ~(1 << pin)"; the sense is inverted for *)
(* badge_fxl6408_set_interrupt_enable(), which clears the mask bit.         *)
NewValue(r, p, on) ==
  IF on THEN state[r] \cup {p} ELSE state[r] \ {p}

BitFor(r, arg) == IF r = "interrupt_mask" THEN ~arg ELSE arg

(***************************************************************************)
(* xSemaphoreTake(badge_fxl6408_mux, portMAX_DELAY) and the computation of *)
(* the local "value".                                                      *)
(***************************************************************************)
SetterTake(t) ==
  /\ inited
  /\ pc[t] = "idle"
  /\ mux = None
  /\ \E r \in UsedRegs, p \in Pins, arg \in BOOLEAN :
       LET on == BitFor(r, arg) IN
       /\ op' = [op EXCEPT ![t] = [reg |-> r, pin |-> p, on |-> on,
                                   value |-> NewValue(r, p, on)]]
       /\ acked' = [acked EXCEPT ![r] = Forget(r, p)]
  /\ mux' = t
  /\ pc' = [pc EXCEPT ![t] = "compare"]
  /\ UNCHANGED <<inited, hw, state, unknown>>

(* The comparison sees bit 8: a copy marked unknown differs from any value. *)
Differs(r, value) == r \in unknown \/ state[r] # value

(***************************************************************************)
(* "if (state != value) { state = value; ... }": the assignment comes      *)
(* before the I2C write and drops bit 8.                                   *)
(***************************************************************************)
SetterCompare(t) ==
  /\ pc[t] = "compare"
  /\ LET r == op[t].reg IN
     IF Differs(r, op[t].value)
       THEN /\ state' = [state EXCEPT ![r] = op[t].value]
            /\ unknown' = unknown \ {r}
            /\ pc' = [pc EXCEPT ![t] = "write"]
       ELSE /\ pc' = [pc EXCEPT ![t] = "give"]
            /\ UNCHANGED <<state, unknown>>
  /\ UNCHANGED <<inited, hw, mux, op, acked>>

(* badge_fxl6408_write_reg() returned ESP_OK. *)
SetterWriteOk(t) ==
  /\ pc[t] = "write"
  /\ hw' = [hw EXCEPT ![op[t].reg] = op[t].value]
  /\ pc' = [pc EXCEPT ![t] = "give"]
  /\ UNCHANGED <<inited, state, unknown, mux, op, acked>>

(* Mutant: the failure is returned but bit 8 is not set. *)
SetterWriteFailed_NoMark(t) ==
  /\ pc[t] = "write"
  /\ \E v \in {hw[op[t].reg], op[t].value} : hw' = [hw EXCEPT ![op[t].reg] = v]
  /\ pc' = [pc EXCEPT ![t] = "giveErr"]
  /\ UNCHANGED <<inited, state, unknown, mux, op, acked>>

(* Mutant: bit 8 replaces the value instead of being or-ed into it. *)
SetterWriteFailed_LoseValue(t) ==
  /\ pc[t] = "write"
  /\ \E v \in {hw[op[t].reg], op[t].value} : hw' = [hw EXCEPT ![op[t].reg] = v]
  /\ state' = [state EXCEPT ![op[t].reg] = {}]
  /\ unknown' = unknown \cup {op[t].reg}
  /\ pc' = [pc EXCEPT ![t] = "giveErr"]
  /\ UNCHANGED <<inited, mux, op, acked>>

(* It failed: the chip may or may not have taken the value; bit 8 is set.  *)
SetterWriteFailed(t) ==
  /\ pc[t] = "write"
  /\ \E v \in {hw[op[t].reg], op[t].value} : hw' = [hw EXCEPT ![op[t].reg] = v]
  /\ unknown' = unknown \cup {op[t].reg}
  /\ pc' = [pc EXCEPT ![t] = "giveErr"]
  /\ UNCHANGED <<inited, state, mux, op, acked>>

(* xSemaphoreGive() and return res. *)
SetterGive(t) ==
  /\ pc[t] \in {"give", "giveErr"}
  /\ mux' = None
  /\ pc' = [pc EXCEPT ![t] = "idle"]
  /\ acked' = IF pc[t] = "give"
                THEN [acked EXCEPT ![op[t].reg] = Confirm(op[t].reg, op[t].pin, op[t].on)]
                ELSE acked
  /\ op' = [op EXCEPT ![t] = NoOp]
  /\ UNCHANGED <<inited, hw, state, unknown>>

(* esp_restart() or a crash at any point: RAM is lost, the chip is not.    *)
Restart ==
  /\ inited
  /\ inited' = FALSE
  /\ state' = RamZero
  /\ unknown' = {}
  /\ mux' = None
  /\ pc' = [t \in Tasks |-> "idle"]
  /\ op' = [t \in Tasks |-> NoOp]
  /\ acked' = NoAck
  /\ UNCHANGED hw

SetterStep(t) ==
  SetterCompare(t) \/ SetterWriteOk(t) \/ SetterWriteFailed(t) \/ SetterGive(t)

Next ==
  \/ badge_fxl6408_init
  \/ \E t \in Tasks : SetterTake(t) \/ SetterStep(t)
  \/ Restart

Spec == Init /\ [][Next]_vars

-----------------------------------------------------------------------------
(* The type invariant of the registers, their RAM copy and the calls. *)
TypeOK ==
  /\ inited \in BOOLEAN
  /\ hw \in [Regs -> SUBSET Pins]
  /\ state \in [Regs -> SUBSET Pins]
  /\ unknown \subseteq Regs
  /\ mux \in Tasks \cup {None}
  /\ pc \in [Tasks -> {"idle", "compare", "write", "give", "giveErr"}]
  /\ op \in [Tasks -> Op]
  /\ acked \in [Regs -> [on : SUBSET Pins, off : SUBSET Pins]]

(***************************************************************************)
(* A register whose RAM copy is not marked unknown, and that no setter is  *)
(* about to write, holds in the chip exactly what the copy says: skipping  *)
(* the I2C write because "nothing changes" is then right.  This must       *)
(* survive failed writes, retries, other tasks' setters and restarts.      *)
(***************************************************************************)
Writing(r) == \E t \in Tasks : pc[t] = "write" /\ op[t].reg = r

ShadowCoherent ==
  inited => \A r \in UsedRegs :
    r \notin unknown /\ ~Writing(r) => hw[r] = state[r]

(***************************************************************************)
(* Once a setter returned ESP_OK for a pin, the chip keeps the bit it set  *)
(* until the next call for the same pin and register, whatever the calls   *)
(* for the other pins of that register do, the failing ones included.      *)
(***************************************************************************)
AckedPinsHold ==
  inited => \A r \in UsedRegs :
    acked[r].on \subseteq hw[r] /\ acked[r].off \cap hw[r] = {}
=============================================================================
