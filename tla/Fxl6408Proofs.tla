--------------------------- MODULE Fxl6408Proofs ---------------------------
(***************************************************************************)
(* Proofs about Fxl6408Regs, for every set of tasks, pins and registers.   *)
(* The two safety theorems assume that the register writes made by         *)
(* badge_fxl6408_init() succeed: the code does not look at their results.  *)
(***************************************************************************)
EXTENDS Fxl6408Regs, TLAPS

(***************************************************************************)
(* The inductive invariant behind the two properties.  A task inside a     *)
(* setter holds the mutex; the copy agrees with every acknowledged pin     *)
(* even when it is marked unknown, because a failed write keeps the value  *)
(* it tried to set; and the local "value" is still what it was computed    *)
(* from when it is compared and written.                                   *)
(***************************************************************************)
MutexHeld ==
  \A t \in Tasks : pc[t] # "idle" => mux = t /\ inited /\ op[t].reg \in UsedRegs

CopyHoldsAcked ==
  inited => \A r \in UsedRegs :
    acked[r].on \subseteq state[r] /\ acked[r].off \cap state[r] = {}

CallInFlight ==
  \A t \in Tasks :
    LET r == op[t].reg  p == op[t].pin IN
    /\ pc[t] # "idle" => p \notin acked[r].on /\ p \notin acked[r].off
    /\ pc[t] = "compare" => op[t].value = NewValue(r, p, op[t].on)
    /\ pc[t] \in {"write", "give"} =>
         /\ r \notin unknown
         /\ state[r] = op[t].value
         /\ IF op[t].on THEN p \in state[r] ELSE p \notin state[r]

IInv ==
  /\ TypeOK
  /\ MutexHeld
  /\ CopyHoldsAcked
  /\ CallInFlight
  /\ ShadowCoherent
  /\ AckedPinsHold

-----------------------------------------------------------------------------
(* The values the actions assign as a whole have the types of TypeOK. *)
LEMMA HelperTypes ==
  /\ NoOp \in Op
  /\ \A r \in Regs : InitValue(r) \subseteq Pins /\ PowerOnValue(r) \subseteq Pins
  /\ RamZero \in [Regs -> SUBSET Pins]
  /\ NoAck \in [Regs -> [on : SUBSET Pins, off : SUBSET Pins]]
  <1>1. (CHOOSE p \in Pins : TRUE) \in Pins
    BY PinsAssumption
  <1> QED
    BY <1>1 DEF NoOp, Op, Regs, InitValue, PowerOnValue, RamZero, NoAck

(* What a call chosen by SetterTake(t) puts into op and acked. *)
LEMMA TakeFacts ==
  ASSUME TypeOK, NEW t \in Tasks, SetterTake(t)
  PROVE  \E r \in UsedRegs, p \in Pins, on \in BOOLEAN :
           /\ r \in Regs
           /\ NewValue(r, p, on) \in SUBSET Pins
           /\ op' = [op EXCEPT ![t] = [reg |-> r, pin |-> p, on |-> on,
                                       value |-> NewValue(r, p, on)]]
           /\ acked' = [acked EXCEPT ![r] = Forget(r, p)]
  <1>1. PICK r \in UsedRegs, p \in Pins, arg \in BOOLEAN :
          LET on == BitFor(r, arg) IN
          /\ op' = [op EXCEPT ![t] = [reg |-> r, pin |-> p, on |-> on,
                                      value |-> NewValue(r, p, on)]]
          /\ acked' = [acked EXCEPT ![r] = Forget(r, p)]
    BY DEF SetterTake
  <1>2. r \in Regs /\ BitFor(r, arg) \in BOOLEAN
    BY UsedRegsAssumption DEF BitFor
  <1>3. NewValue(r, p, BitFor(r, arg)) \in SUBSET Pins
    BY <1>2 DEF NewValue, TypeOK
  <1> HIDE DEF BitFor
  <1> QED
    BY <1>1, <1>2, <1>3

(***************************************************************************)
(* The types of Fxl6408Regs are preserved by every step of the setters, of *)
(* badge_fxl6408_init() and by a restart.                                  *)
(***************************************************************************)
LEMMA TypeStep == TypeOK /\ [Next]_vars => TypeOK'
<1> SUFFICES ASSUME TypeOK, [Next]_vars PROVE TypeOK'
  OBVIOUS
<1> USE DEF TypeOK
<1>0. \A t \in Tasks : op[t].reg \in Regs /\ op[t].value \in SUBSET Pins
  BY DEF Op
<1>1. CASE badge_fxl6408_init
  BY <1>1, HelperTypes, UsedRegsAssumption DEF badge_fxl6408_init
<1>2. ASSUME NEW t \in Tasks, SetterTake(t) PROVE TypeOK'
  <2>1. PICK r \in UsedRegs, p \in Pins, on \in BOOLEAN :
          /\ r \in Regs
          /\ NewValue(r, p, on) \in SUBSET Pins
          /\ op' = [op EXCEPT ![t] = [reg |-> r, pin |-> p, on |-> on,
                                      value |-> NewValue(r, p, on)]]
          /\ acked' = [acked EXCEPT ![r] = Forget(r, p)]
    BY <1>2, TakeFacts
  <2>2. op' \in [Tasks -> Op]
    BY <2>1 DEF Op
  <2>3. acked' \in [Regs -> [on : SUBSET Pins, off : SUBSET Pins]]
    BY <2>1 DEF Forget
  <2> QED
    BY <1>2, <2>2, <2>3 DEF SetterTake
<1>3. ASSUME NEW t \in Tasks, SetterCompare(t) PROVE TypeOK'
  BY <1>0, <1>3 DEF SetterCompare
<1>4. ASSUME NEW t \in Tasks, SetterWriteOk(t) PROVE TypeOK'
  BY <1>0, <1>4 DEF SetterWriteOk
<1>5. ASSUME NEW t \in Tasks, SetterWriteFailed(t) PROVE TypeOK'
  BY <1>0, <1>5 DEF SetterWriteFailed
<1>6. ASSUME NEW t \in Tasks, SetterGive(t) PROVE TypeOK'
  <2>1. acked' \in [Regs -> [on : SUBSET Pins, off : SUBSET Pins]]
    BY <1>0, <1>6 DEF SetterGive, Confirm, Op
  <2> QED
    BY <1>6, <2>1, HelperTypes DEF SetterGive
<1>7. CASE Restart
  BY <1>7, HelperTypes DEF Restart
<1>8. CASE UNCHANGED vars
  BY <1>8 DEF vars
<1> QED
  BY <1>1, <1>2, <1>3, <1>4, <1>5, <1>6, <1>7, <1>8 DEF Next, SetterStep

LEMMA TypeInit == Init => TypeOK
<1> SUFFICES ASSUME Init PROVE TypeOK
  OBVIOUS
<1>1. hw \in [Regs -> SUBSET Pins]
  BY HelperTypes DEF Init
<1>2. op \in [Tasks -> Op]
  BY HelperTypes DEF Init
<1> QED
  BY <1>1, <1>2, HelperTypes DEF Init, TypeOK

(***************************************************************************)
(* The types of Fxl6408Regs hold in every state of every behaviour: the    *)
(* value a setter computes is a register value, and the holder of          *)
(* badge_fxl6408_mux is one of the tasks or nobody.                        *)
(***************************************************************************)
THEOREM TypeCorrect == Spec => []TypeOK
  BY TypeInit, TypeStep, PTL DEF Spec

-----------------------------------------------------------------------------
LEMMA IInvInit == Init => IInv
  BY TypeInit DEF Init, IInv, MutexHeld, CopyHoldsAcked, CallInFlight,
                  ShadowCoherent, AckedPinsHold

(* One step per action; the mutex makes the other tasks' calls stand still *)
(* (they are idle), so each action only has its own register to restore.   *)
LEMMA IInvStep == InitMayFail = FALSE /\ IInv /\ [Next]_vars => IInv'
<1> SUFFICES ASSUME InitMayFail = FALSE, IInv, [Next]_vars PROVE IInv'
  OBVIOUS
<1>0. TypeOK /\ TypeOK'
  BY TypeStep DEF IInv
<1>00. \A t \in Tasks : op[t].reg \in Regs /\ op[t].value \in SUBSET Pins
                        /\ op[t].pin \in Pins /\ op[t].on \in BOOLEAN
  BY <1>0 DEF TypeOK, Op
<1> USE UsedRegsAssumption DEF IInv
<1>1. CASE badge_fxl6408_init
  <2>1. \A t \in Tasks : pc'[t] = "idle"
    BY <1>1 DEF badge_fxl6408_init, MutexHeld
  <2>2. hw' = [r \in Regs |-> InitValue(r)] /\ state' = [r \in Regs |-> InitValue(r)]
    BY <1>1 DEF badge_fxl6408_init
  <2>3. acked' = [r \in Regs |-> [on |-> InitValue(r), off |-> Pins \ InitValue(r)]]
    BY <1>1 DEF badge_fxl6408_init
  <2>4. CopyHoldsAcked' /\ AckedPinsHold' /\ ShadowCoherent'
    BY <2>2, <2>3 DEF CopyHoldsAcked, AckedPinsHold, ShadowCoherent
  <2> QED
    BY <1>0, <2>1, <2>4 DEF MutexHeld, CallInFlight
<1>2. ASSUME NEW t \in Tasks, SetterTake(t) PROVE IInv'
  <2>1. PICK r \in UsedRegs, p \in Pins, on \in BOOLEAN :
          /\ r \in Regs
          /\ NewValue(r, p, on) \in SUBSET Pins
          /\ op' = [op EXCEPT ![t] = [reg |-> r, pin |-> p, on |-> on,
                                      value |-> NewValue(r, p, on)]]
          /\ acked' = [acked EXCEPT ![r] = Forget(r, p)]
    BY <1>0, <1>2, TakeFacts
  <2>2. /\ inited /\ inited' /\ mux' = t
        /\ UNCHANGED <<hw, state, unknown>>
        /\ \A u \in Tasks : pc[u] = "idle"
        /\ pc' = [pc EXCEPT ![t] = "compare"]
    <3>1. \A u \in Tasks : pc[u] = "idle"
      BY <1>2, TasksAssumption DEF SetterTake, MutexHeld
    <3> QED
      BY <1>2, <3>1 DEF SetterTake
  <2>3. /\ pc'[t] = "compare"
        /\ \A u \in Tasks \ {t} : pc'[u] = "idle"
        /\ op'[t] = [reg |-> r, pin |-> p, on |-> on, value |-> NewValue(r, p, on)]
    BY <1>0, <2>1, <2>2 DEF TypeOK
  <2>4. acked'[r] = Forget(r, p) /\ \A q \in Regs \ {r} : acked'[q] = acked[q]
    BY <1>0, <2>1 DEF TypeOK
  <2>5. MutexHeld'
    BY <2>2, <2>3 DEF MutexHeld
  <2>6. CopyHoldsAcked' /\ AckedPinsHold'
    BY <2>2, <2>4 DEF CopyHoldsAcked, AckedPinsHold, Forget
  <2>7. CallInFlight'
    <3>2. /\ op'[t].reg = r /\ op'[t].pin = p /\ op'[t].on = on
          /\ op'[t].value = NewValue(r, p, on)
      BY <2>3
    <3>3. p \notin acked'[r].on /\ p \notin acked'[r].off
      BY <2>4 DEF Forget
    <3> QED
      BY <2>2, <2>3, <3>2, <3>3 DEF CallInFlight, NewValue
  <2>8. ShadowCoherent'
    BY <2>2, <2>3 DEF ShadowCoherent, Writing
  <2> QED
    BY <1>0, <2>5, <2>6, <2>7, <2>8
<1>3. ASSUME NEW t \in Tasks, SetterCompare(t) PROVE IInv'
  <2> DEFINE r == op[t].reg
  <2>1. /\ inited /\ r \in UsedRegs /\ r \in Regs
        /\ \A u \in Tasks \ {t} : pc[u] = "idle"
        /\ UNCHANGED <<inited, hw, mux, op, acked>>
        /\ op[t].value = NewValue(r, op[t].pin, op[t].on)
        /\ op[t].pin \notin acked[r].on /\ op[t].pin \notin acked[r].off
    BY <1>3, <1>00 DEF SetterCompare, MutexHeld, CallInFlight
  <2>2. /\ \A u \in Tasks \ {t} : pc'[u] = "idle"
        /\ pc'[t] # "idle"
    BY <1>0, <1>3, <2>1 DEF SetterCompare, TypeOK
  <2>3. MutexHeld'
    BY <2>1, <2>2, <1>3 DEF MutexHeld, SetterCompare
  <2>4. AckedPinsHold'
    BY <2>1 DEF AckedPinsHold
  <2>5. IF op[t].on THEN op[t].pin \in op[t].value ELSE op[t].pin \notin op[t].value
    BY <2>1 DEF NewValue
  <2>6. CASE Differs(r, op[t].value)
    <3>1. /\ state' = [state EXCEPT ![r] = op[t].value]
          /\ unknown' = unknown \ {r}
          /\ pc' = [pc EXCEPT ![t] = "write"]
      BY <1>3, <2>6 DEF SetterCompare
    <3>2. /\ state'[r] = op[t].value /\ \A q \in Regs \ {r} : state'[q] = state[q]
          /\ pc'[t] = "write"
      BY <3>1, <2>1, <1>0 DEF TypeOK
    <3>3. CopyHoldsAcked'
      BY <2>1, <3>2 DEF CopyHoldsAcked, NewValue
    <3>4. CallInFlight'
      BY <2>1, <2>2, <2>5, <3>1, <3>2 DEF CallInFlight
    <3>5. ShadowCoherent'
      BY <2>1, <2>2, <3>1, <3>2 DEF ShadowCoherent, Writing
    <3> QED
      BY <1>0, <2>3, <2>4, <3>3, <3>4, <3>5
  <2>7. CASE ~Differs(r, op[t].value)
    <3>1. pc' = [pc EXCEPT ![t] = "give"] /\ UNCHANGED <<state, unknown>>
      BY <1>3, <2>7 DEF SetterCompare
    <3>2. r \notin unknown /\ state[r] = op[t].value /\ pc'[t] = "give" /\ pc[t] = "compare"
      BY <1>0, <1>3, <2>7, <3>1 DEF Differs, SetterCompare, TypeOK
    <3>3. CopyHoldsAcked'
      BY <2>1, <3>1 DEF CopyHoldsAcked
    <3>4. CallInFlight'
      BY <2>1, <2>2, <2>5, <3>1, <3>2 DEF CallInFlight
    <3>5. ShadowCoherent'
      BY <2>1, <2>2, <3>1, <3>2 DEF ShadowCoherent, Writing
    <3> QED
      BY <1>0, <2>3, <2>4, <3>3, <3>4, <3>5
  <2> QED
    BY <2>6, <2>7
<1>4. ASSUME NEW t \in Tasks, SetterWriteOk(t) PROVE IInv'
  <2> DEFINE r == op[t].reg
  <2>1. /\ inited /\ r \in UsedRegs /\ r \in Regs /\ mux = t
        /\ \A u \in Tasks \ {t} : pc[u] = "idle"
        /\ UNCHANGED <<inited, state, unknown, mux, op, acked>>
        /\ pc[t] = "write" /\ state[r] = op[t].value /\ r \notin unknown
    BY <1>4, <1>00 DEF SetterWriteOk, MutexHeld, CallInFlight
  <2>2. /\ \A u \in Tasks \ {t} : pc'[u] = "idle"
        /\ pc'[t] = "give"
        /\ hw'[r] = state[r] /\ \A q \in Regs \ {r} : hw'[q] = hw[q]
    BY <1>0, <1>4, <2>1 DEF SetterWriteOk, TypeOK
  <2>3. MutexHeld' /\ CopyHoldsAcked'
    BY <2>1, <2>2 DEF MutexHeld, CopyHoldsAcked
  <2>4. CallInFlight'
    BY <2>1, <2>2 DEF CallInFlight
  <2>5. ShadowCoherent'
    BY <2>1, <2>2 DEF ShadowCoherent, Writing
  <2>6. AckedPinsHold'
    BY <2>1, <2>2 DEF AckedPinsHold, CopyHoldsAcked
  <2> QED
    BY <1>0, <2>3, <2>4, <2>5, <2>6
<1>5. ASSUME NEW t \in Tasks, SetterWriteFailed(t) PROVE IInv'
  <2> DEFINE r == op[t].reg
  <2>1. /\ inited /\ r \in UsedRegs /\ r \in Regs /\ mux = t
        /\ \A u \in Tasks \ {t} : pc[u] = "idle"
        /\ UNCHANGED <<inited, state, mux, op, acked>>
        /\ pc[t] = "write" /\ state[r] = op[t].value
        /\ unknown' = unknown \cup {r}
    BY <1>5, <1>00 DEF SetterWriteFailed, MutexHeld, CallInFlight
  <2>2. /\ \A u \in Tasks \ {t} : pc'[u] = "idle"
        /\ pc'[t] = "giveErr"
        /\ hw'[r] \in {hw[r], state[r]} /\ \A q \in Regs \ {r} : hw'[q] = hw[q]
    BY <1>0, <1>5, <2>1 DEF SetterWriteFailed, TypeOK
  <2>3. MutexHeld' /\ CopyHoldsAcked'
    BY <2>1, <2>2 DEF MutexHeld, CopyHoldsAcked
  <2>4. CallInFlight'
    BY <2>1, <2>2 DEF CallInFlight
  <2>5. ShadowCoherent'
    BY <2>1, <2>2 DEF ShadowCoherent, Writing
  <2>6. AckedPinsHold'
    BY <2>1, <2>2 DEF AckedPinsHold, CopyHoldsAcked
  <2> QED
    BY <1>0, <2>3, <2>4, <2>5, <2>6
<1>6. ASSUME NEW t \in Tasks, SetterGive(t) PROVE IInv'
  <2> DEFINE r == op[t].reg
  <2>1. /\ inited /\ r \in UsedRegs /\ r \in Regs
        /\ \A u \in Tasks \ {t} : pc[u] = "idle"
        /\ UNCHANGED <<inited, hw, state, unknown>>
    BY <1>6, <1>00 DEF SetterGive, MutexHeld
  <2>2. \A u \in Tasks : pc'[u] = "idle"
    BY <1>0, <1>6, <2>1 DEF SetterGive, TypeOK
  <2>3. CASE pc[t] = "give"
    <3>1. /\ acked'[r] = Confirm(r, op[t].pin, op[t].on)
          /\ \A q \in Regs \ {r} : acked'[q] = acked[q]
      BY <1>0, <1>6, <2>1, <2>3 DEF SetterGive, TypeOK
    <3>2. /\ r \notin unknown
          /\ IF op[t].on THEN op[t].pin \in state[r] ELSE op[t].pin \notin state[r]
      BY <2>3 DEF CallInFlight
    <3>3. hw[r] = state[r]
      BY <2>1, <2>3, <3>2 DEF ShadowCoherent, Writing
    <3>4. CopyHoldsAcked' /\ AckedPinsHold'
      BY <2>1, <3>1, <3>2, <3>3 DEF CopyHoldsAcked, AckedPinsHold, Confirm
    <3> QED
      BY <1>0, <2>1, <2>2, <2>3, <3>4
         DEF MutexHeld, CallInFlight, ShadowCoherent, Writing
  <2>4. CASE pc[t] # "give"
    <3>1. UNCHANGED acked
      BY <1>6, <2>4 DEF SetterGive
    <3>2. pc[t] = "giveErr"
      BY <1>6, <2>4 DEF SetterGive
    <3> QED
      BY <1>0, <2>1, <2>2, <3>1, <3>2 DEF MutexHeld, CallInFlight,
         ShadowCoherent, Writing, CopyHoldsAcked, AckedPinsHold
  <2> QED
    BY <2>3, <2>4
<1>7. CASE Restart
  BY <1>0, <1>7 DEF Restart, MutexHeld, CopyHoldsAcked, CallInFlight,
                    ShadowCoherent, AckedPinsHold
<1>8. CASE UNCHANGED vars
  BY <1>8 DEF vars, TypeOK, MutexHeld, CopyHoldsAcked, CallInFlight, NewValue,
              ShadowCoherent, Writing, AckedPinsHold
<1> QED
  BY <1>1, <1>2, <1>3, <1>4, <1>5, <1>6, <1>7, <1>8 DEF Next, SetterStep

(***************************************************************************)
(* If the writes of badge_fxl6408_init() succeed, a register that is not   *)
(* marked unknown and not being written always holds the value of the RAM  *)
(* copy, through failed writes, concurrent setters and restarts.           *)
(***************************************************************************)
THEOREM ShadowIsCoherent == InitMayFail = FALSE => (Spec => []ShadowCoherent)
<1> SUFFICES ASSUME InitMayFail = FALSE PROVE Spec => []ShadowCoherent
  OBVIOUS
<1>1. IInv /\ [Next]_vars => IInv'
  BY IInvStep
<1>2. IInv => ShadowCoherent
  BY DEF IInv
<1> QED
  BY <1>1, <1>2, IInvInit, PTL DEF Spec

(***************************************************************************)
(* If the writes of badge_fxl6408_init() succeed, a pin whose setter       *)
(* returned ESP_OK keeps its bit in the chip until the next call for it.   *)
(***************************************************************************)
THEOREM AckedPinsAreKept == InitMayFail = FALSE => (Spec => []AckedPinsHold)
<1> SUFFICES ASSUME InitMayFail = FALSE PROVE Spec => []AckedPinsHold
  OBVIOUS
<1>1. IInv /\ [Next]_vars => IInv'
  BY IInvStep
<1>2. IInv => AckedPinsHold
  BY DEF IInv
<1> QED
  BY <1>1, <1>2, IInvInit, PTL DEF Spec
=============================================================================
