------------------------------- MODULE BadgeNvs -------------------------------
(***************************************************************************)
(* badge_nvs.c: the settings in flash.  badge_nvs_set_u8(), _u16() and      *)
(* _str() open the namespace, erase the key, write it and commit; any step  *)
(* can fail, and power can be lost between any two of them.  The calls come *)
(* from the MicroPython task, one at a time.  nvs_flash itself is external: *)
(* each of its calls is atomic and takes effect at once.                    *)
(***************************************************************************)
EXTENDS Naturals, Sequences

CONSTANTS
  Keys,        \* the settings
  None,        \* no item: ESP_ERR_NVS_NOT_FOUND
  MaxFaults    \* bound on power losses, panics and failing flash operations

ASSUME FaultAssumption == MaxFaults \in Nat
ASSUME NoneAssumption == None \notin Keys

VARIABLES
  store,   \* per key, the item in flash
  call,    \* the call of badge_nvs.c that is under way, or the last one's result
  acked,   \* history, per key: {what the flash must hold}, {} if nothing is promised
  faults   \* faults so far

NoCall == [at |-> "idle", op |-> "none", keys |-> {}, val |-> None]

\* The namespace must be opened before anything else.
Call(op, keys, val) == [at |-> "open", op |-> op, keys |-> keys, val |-> val]

NvsInit ==
  /\ store = [k \in Keys |-> None]
  /\ call = NoCall
  /\ acked = [k \in Keys |-> {None}]
  /\ faults = 0

\* Takes a missing item for a value.
NvsGet_NoDefault(k, default) == store[k]

\* badge_nvs_get_*(), and the default that modbadge.c returns if there is no item.
NvsGet(k, default) == IF store[k] = None THEN default ELSE store[k]

\* What a read may give: modbadge.c returns the default on every other error too.
\* A failing read is a fault where it makes a difference.
NvsReads(k, default) ==
  {[val |-> v, failed |-> IF v = NvsGet(k, default) THEN 0 ELSE 1] :
     v \in {NvsGet(k, default), default}}

\* n calls of nvs_flash fail, within the bound.
Faults(n) == faults + n <= MaxFaults /\ faults' = faults + n

\* The keys that a call is about hold v.
Stored(v) == [k \in Keys |-> IF k \in call.keys THEN v ELSE store[k]]

\* nvs_open(): from here on the old value is no longer promised.
NvsOpen ==
  /\ call.at = "open"
  /\ call' = [call EXCEPT !.at = "erase"]
  /\ acked' = [k \in Keys |-> IF k \in call.keys THEN {} ELSE acked[k]]
  /\ UNCHANGED <<store, faults>>

\* Erases every key where one is meant.
NvsErase_All ==
  /\ call.at = "erase"
  /\ store' = [k \in Keys |-> None]
  /\ call' = [call EXCEPT !.at = IF call.op = "set" THEN "set" ELSE "commit"]
  /\ UNCHANGED <<acked, faults>>

\* nvs_erase_key() and nvs_erase_all().  A key that does not exist is an error
\* for badge_nvs_erase_key() but not for the setters.
NvsErase ==
  /\ call.at = "erase"
  /\ store' = Stored(None)
  /\ call' = [call EXCEPT !.at =
       CASE call.op = "set" -> "set"
         [] call.op = "erase_key" /\ \A k \in call.keys : store[k] = None -> "failed"
         [] OTHER -> "commit"]
  /\ UNCHANGED <<acked, faults>>

\* nvs_set_u8(), nvs_set_u16() or nvs_set_str().
NvsSet ==
  /\ call.at = "set"
  /\ store' = Stored(call.val)
  /\ call' = [call EXCEPT !.at = "commit"]
  /\ UNCHANGED <<acked, faults>>

\* nvs_commit(), nvs_close() and ESP_OK.
NvsCommit ==
  /\ call.at = "commit"
  /\ call' = [call EXCEPT !.at = "ok"]
  /\ acked' = [k \in Keys |-> IF k \in call.keys THEN {call.val} ELSE acked[k]]
  /\ UNCHANGED <<store, faults>>

\* A call of nvs_flash fails: badge_nvs.c closes the handle and returns the error;
\* what the earlier calls did stays done.
NvsFails ==
  /\ call.at \in {"open", "erase", "set", "commit"} /\ faults < MaxFaults
  /\ call' = [call EXCEPT !.at = "failed"]
  /\ faults' = faults + 1
  /\ UNCHANGED <<store, acked>>

NvsStep == NvsOpen \/ NvsErase \/ NvsSet \/ NvsCommit

Returned == call.at \in {"ok", "failed"}

-----------------------------------------------------------------------------
\* A setting holds what the last successful call for it stored, over failures of
\* other calls, power losses and restarts, until the next call for it begins: the
\* erase that precedes every write (badge_nvs.c:177) never undoes it afterwards.
AckedSettingStays == \A k \in Keys : acked[k] # {} => store[k] \in acked[k]
=============================================================================
