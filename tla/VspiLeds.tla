------------------------------ MODULE VspiLeds ------------------------------
(***************************************************************************)
(* The VSPI bus that the led bar and the e-ink panel take turns on          *)
(* (badge_spi.c, badge_leds.c, badge_eink_dev.c) and the power rail that    *)
(* the led bar and the sd-card share (badge_power.c, driven through an      *)
(* MPR121 output pin, badge_mpr121.c).                                      *)
(*                                                                          *)
(* Neither driver locks: "We are assuming that all calls are done from the  *)
(* same thread" (badge_spi.c:15), the MicroPython task.  One action is      *)
(* therefore one whole call, and what is hard is not interleaving but the   *)
(* early returns: an I2C write or an SPI allocation that fails leaves the   *)
(* remaining assignments of the call undone.  The C functions that change   *)
(* state and return a result are operators that map a state to the set of   *)
(* outcomes [.., ok |-> ESP_OK or not].                                     *)
(***************************************************************************)
EXTENDS Naturals, FiniteSets

CONSTANTS
  SpiFaults,     \* SPI driver calls of the led driver that may fail (ESP_ERR_NO_MEM)
  I2cFaults,     \* how a write to the MPR121 may fail: without effect, or after it
  AppPowerCalls  \* the application calls badge.power_leds_*() beside badge.leds_*()

ASSUME FaultAssumption ==
  /\ SpiFaults \subseteq {"initialize", "add_device"}
  /\ I2cFaults \subseteq {"lost", "landed"}
  /\ AppPowerCalls \in BOOLEAN

Drivers == {"leds", "eink"}
Users   == {"leds", "sd"}
Unknown == 2     \* -1 in mpr121_gpio_bit_out

VARIABLES
  vspi,     \* badge_vspi_release, the configured bus, the drivers with a device handle
  power,    \* badge_power_leds_sdcard as a set, mpr121_gpio_bit_out, the rail itself
  active,   \* badge_leds_active
  aborted,  \* an assert() of badge_eink_dev.c failed
  last      \* the last call that returned, and whether it returned ESP_OK

vars == <<vspi, power, active, aborted, last>>

Vspi  == [release : Drivers \cup {"NULL"}, bus : Drivers \cup {"free"}, dev : SUBSET Drivers]
Power == [users : SUBSET Users, cache : {0, 1, Unknown}, rail : {0, 1}]
Calls == {"none", "leds_enable", "leds_disable", "leds_send", "eink_send",
          "power_enable", "power_disable"}

-----------------------------------------------------------------------------
(* The VSPI bus. *)

\* A release that keeps the handle of the device it removed.
ReleaseSpi_KeepHandle(v, d) ==
  IF d \in v.dev
  THEN [v |-> [release |-> "NULL", bus |-> "free", dev |-> v.dev], ok |-> TRUE]
  ELSE [v |-> v, ok |-> FALSE]

\* badge_leds_release_spi() and badge_eink_dev_release_spi(): remove the device,
\* forget the handle, free the bus and clear badge_vspi_release.  Without a
\* handle spi_bus_remove_device() fails before anything is changed.
ReleaseSpi(v, d) ==
  IF d \in v.dev
  THEN [v |-> [release |-> "NULL", bus |-> "free", dev |-> v.dev \ {d}], ok |-> TRUE]
  ELSE [v |-> v, ok |-> FALSE]

\* Registers the new owner before the old one has been told to let go.
badge_vspi_release_and_claim_Early(v, r) ==
  [v |-> [v EXCEPT !.release = r], ok |-> TRUE]

badge_vspi_release_and_claim(v, r) ==
  IF v.release = "NULL"
  THEN [v |-> [v EXCEPT !.release = r], ok |-> TRUE]
  ELSE LET o == ReleaseSpi(v, v.release)
       IN IF o.v.release = "NULL" /\ o.ok
          THEN [v |-> [o.v EXCEPT !.release = r], ok |-> TRUE]
          ELSE [v |-> o.v, ok |-> FALSE]

\* badge_leds_claim_spi(): the result of the claim is ignored, a failed
\* initialization or device leaves badge_vspi_release pointing at the led driver.
badge_leds_claim_spi(v) ==
  IF "leds" \in v.dev
  THEN {[v |-> v, ok |-> TRUE]}
  ELSE LET w == badge_vspi_release_and_claim(v, "leds").v
           fail == [v |-> w, ok |-> FALSE]
       IN IF w.bus # "free"
          THEN {fail}
          ELSE {[v |-> [w EXCEPT !.bus = "leds", !.dev = @ \cup {"leds"}], ok |-> TRUE]}
               \cup {o \in {fail} : "initialize" \in SpiFaults}
               \cup {o \in {[v |-> [w EXCEPT !.bus = "leds"], ok |-> FALSE]} :
                       "add_device" \in SpiFaults}

\* badge_eink_dev_claim_spi(): the claim's result is ignored as well, but a bus
\* that is still in use fails an assert (ok = FALSE).
badge_eink_dev_claim_spi(v) ==
  IF "eink" \in v.dev
  THEN [v |-> v, ok |-> TRUE]
  ELSE LET w == badge_vspi_release_and_claim(v, "eink").v
       IN IF w.bus # "free"
          THEN [v |-> w, ok |-> FALSE]
          ELSE [v |-> [w EXCEPT !.bus = "eink", !.dev = @ \cup {"eink"}], ok |-> TRUE]

-----------------------------------------------------------------------------
(* The shared power rail. *)

\* Remembers the register mask (bit_set) where the level belongs.
badge_mpr121_set_gpio_level_Mask(p, value) ==
  IF p.cache = value
  THEN {[p |-> p, ok |-> TRUE]}
  ELSE {[p |-> [p EXCEPT !.cache = 64, !.rail = value], ok |-> TRUE]}

\* badge_mpr121_set_gpio_level() on MPR121_PIN_NUM_LEDS: skip a write the cache
\* says is not needed, otherwise write and remember the level if that worked.
badge_mpr121_set_gpio_level(p, value) ==
  IF p.cache = value
  THEN {[p |-> p, ok |-> TRUE]}
  ELSE {[p |-> [p EXCEPT !.cache = value, !.rail = value], ok |-> TRUE]}
       \cup {o \in {[p |-> [p EXCEPT !.cache = Unknown], ok |-> FALSE]} : "lost" \in I2cFaults}
       \cup {o \in {[p |-> [p EXCEPT !.cache = Unknown, !.rail = value], ok |-> FALSE]} :
               "landed" \in I2cFaults}

\* badge_power_leds_enable() and badge_power_sdcard_enable().
PowerEnable(p, u) ==
  IF u \in p.users
  THEN {[p |-> p, ok |-> TRUE]}
  ELSE IF p.users # {}
       THEN {[p |-> [p EXCEPT !.users = @ \cup {u}], ok |-> TRUE]}
       ELSE {[p |-> IF o.ok THEN [o.p EXCEPT !.users = {u}] ELSE o.p, ok |-> o.ok] :
               o \in badge_mpr121_set_gpio_level(p, 1)}

\* Switches the rail off without looking at the other user.
PowerDisable_NotShared(p, u) ==
  IF u \notin p.users
  THEN {[p |-> p, ok |-> TRUE]}
  ELSE {[p |-> IF o.ok THEN [o.p EXCEPT !.users = @ \ {u}] ELSE o.p, ok |-> o.ok] :
          o \in badge_mpr121_set_gpio_level(p, 0)}

\* badge_power_leds_disable() and badge_power_sdcard_disable().
PowerDisable(p, u) ==
  IF u \notin p.users
  THEN {[p |-> p, ok |-> TRUE]}
  ELSE IF p.users # {u}
       THEN {[p |-> [p EXCEPT !.users = @ \ {u}], ok |-> TRUE]}
       ELSE {[p |-> IF o.ok THEN [o.p EXCEPT !.users = {}] ELSE o.p, ok |-> o.ok] :
               o \in badge_mpr121_set_gpio_level(p, 0)}

-----------------------------------------------------------------------------
(* The calls. *)

Init ==
  /\ vspi = [release |-> "NULL", bus |-> "free", dev |-> {}]
  /\ power = [users |-> {}, cache |-> Unknown, rail |-> 0]
  /\ active = FALSE
  /\ aborted = FALSE
  /\ last = [call |-> "none", ok |-> TRUE]

Returned(c, ok) == last' = [call |-> c, ok |-> ok]

\* badge_leds_enable() as a set of outcomes, for the calls that contain it.
LedsEnable(v, p, a) ==
  IF a
  THEN {[v |-> v, p |-> p, a |-> a, ok |-> TRUE]}
  ELSE UNION {IF ~o.ok
              THEN {[v |-> v, p |-> o.p, a |-> a, ok |-> FALSE]}
              ELSE {[v |-> c.v, p |-> o.p, a |-> c.ok, ok |-> c.ok] : c \in badge_leds_claim_spi(v)} :
                o \in PowerEnable(p, "leds")}

badge_leds_enable ==
  \E o \in LedsEnable(vspi, power, active) :
    /\ ~aborted
    /\ vspi' = o.v
    /\ power' = o.p
    /\ active' = o.a
    /\ Returned("leds_enable", o.ok)
    /\ UNCHANGED aborted

\* badge_leds_disable(): nothing to do if not active; else give up the bus if
\* the led driver holds it, and only then the power.  (gpio_config() of the led
\* pin gets constant, valid arguments and does not fail.)
LedsDisable(v, p, a) ==
  LET held == "leds" \in v.dev
      c    == badge_vspi_release_and_claim(v, "NULL")
      w    == IF held THEN c.v ELSE v
  IN IF ~a
     THEN {[v |-> v, p |-> p, a |-> a, ok |-> TRUE]}
     ELSE IF held /\ ~c.ok
          THEN {[v |-> w, p |-> p, a |-> a, ok |-> FALSE]}
          ELSE {[v |-> w, p |-> o.p, a |-> FALSE, ok |-> o.ok] : o \in PowerDisable(p, "leds")}

badge_leds_disable ==
  \E o \in LedsDisable(vspi, power, active) :
    /\ ~aborted
    /\ vspi' = o.v
    /\ power' = o.p
    /\ active' = o.a
    /\ Returned("leds_disable", o.ok)
    /\ UNCHANGED aborted

\* Sends with the handle of the enable, without claiming the bus again.
LedsSend_NoReclaim(v, p, a) == LedsEnable(v, p, a)

\* badge_leds_send_data(): enable, then claim the bus again, which an e-ink
\* update may have taken since the leds were enabled.  The buffer is allocated
\* first; when that fails nothing else is done.
LedsSend(v, p, a) ==
  {[v |-> v, p |-> p, a |-> a, ok |-> FALSE]} \cup
  UNION {IF ~e.ok
         THEN {e}
         ELSE {[v |-> c.v, p |-> e.p, a |-> e.a, ok |-> c.ok] : c \in badge_leds_claim_spi(e.v)} :
           e \in LedsEnable(v, p, a)}

badge_leds_send_data ==
  \E o \in LedsSend(vspi, power, active) :
    /\ ~aborted
    /\ vspi' = o.v
    /\ power' = o.p
    /\ active' = o.a
    /\ Returned("leds_send", o.ok)
    /\ UNCHANGED aborted

\* badge_spi_send() of the e-ink driver.
badge_spi_send ==
  LET o == badge_eink_dev_claim_spi(vspi)
  IN /\ ~aborted
     /\ vspi' = o.v
     /\ aborted' = ~o.ok
     /\ Returned("eink_send", o.ok)
     /\ UNCHANGED <<power, active>>

badge_power_enable(u) ==
  \E o \in PowerEnable(power, u) :
    /\ ~aborted
    /\ power' = o.p
    /\ Returned("power_enable", o.ok)
    /\ UNCHANGED <<vspi, active, aborted>>

badge_power_disable(u) ==
  \E o \in PowerDisable(power, u) :
    /\ ~aborted
    /\ power' = o.p
    /\ Returned("power_disable", o.ok)
    /\ UNCHANGED <<vspi, active, aborted>>

AppUsers == {u \in Users : u = "sd" \/ AppPowerCalls}

\* An assert that fails ends the program: every call needs ~aborted.
Next ==
  \/ badge_leds_enable
  \/ badge_leds_disable
  \/ badge_leds_send_data
  \/ badge_spi_send
  \/ \E u \in AppUsers : badge_power_enable(u)
  \/ \E u \in AppUsers : badge_power_disable(u)

Spec == Init /\ [][Next]_vars

-----------------------------------------------------------------------------
(* Properties. *)

TypeOK ==
  /\ vspi \in Vspi
  /\ power \in Power
  /\ active \in BOOLEAN
  /\ aborted \in BOOLEAN
  /\ last \in [call : Calls, ok : BOOLEAN]

(* A driver that holds a device handle is alone on the bus, and the bus is   *)
(* configured for its pins: nothing is ever sent with a handle to a bus the  *)
(* other driver has set up since (badge_leds.c:28-81, badge_eink_dev.c).     *)
OneOwner ==
  \A d \in vspi.dev : vspi.dev = {d} /\ vspi.bus = d

(* A driver that holds a device handle is the one badge_vspi_release points  *)
(* at, so the other driver can make it let go ("force other device to        *)
(* release the vspi", badge_spi.c:32).  It needs SPI calls that do not fail. *)
OwnerRegistered ==
  \A d \in vspi.dev : vspi.release = d /\ vspi.bus = d

(* The asserts of badge_eink_dev.c on the VSPI bus hold: whatever the led    *)
(* driver did before, the panel gets the bus.                                *)
EinkGetsTheBus == ~aborted

\* No failed write has left the level of the pin open.
RailKnown(p) == p.cache # Unknown \/ "landed" \notin I2cFaults

(* The shared rail, where its level is known, is on exactly while the led    *)
(* bar or the sd-card is registered as a user (the note of badge_power.h: it *)
(* stays on while the other user has it enabled, and goes off with the last).*)
RailFollowsUsers ==
  RailKnown(power) => ((power.rail = 1) <=> (power.users # {}))

(* A badge_leds_send_data() that returned ESP_OK went out over a bus that is *)
(* configured for the led pin, with its own handle, to leds that have power  *)
(* (unless a failed write has left their rail in an unknown state).          *)
SentIsPowered ==
  (last.call = "leds_send" /\ last.ok) =>
    /\ "leds" \in vspi.dev
    /\ vspi.bus = "leds"
    /\ "leds" \in power.users
    /\ RailKnown(power) => power.rail = 1
=============================================================================
