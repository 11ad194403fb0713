--------------------------- MODULE VspiLedsProofs ---------------------------
(***************************************************************************)
(* Proofs about VspiLeds, for every set of faults the theorems allow.       *)
(*                                                                          *)
(* The bus argument is one lemma per C function (what a claim or a release  *)
(* does to a bus that is in order), lifted to the calls that contain them.  *)
(***************************************************************************)
EXTENDS VspiLeds, TLAPS

\* A bus the two drivers agree on: one device at most, attached to the bus it
\* configured, and a release function that can detach it unless the led driver
\* left its own behind after a failed initialization.
BusOK(v) ==
  /\ v.dev \subseteq {v.bus}
  /\ v.bus # "free" => v.bus \in v.dev
  /\ "leds" \in v.dev => v.release = "leds"
  /\ "eink" \in v.dev => v.release # "NULL"
  /\ v.release = "eink" => "eink" \in v.dev

\* Without SPI failures the release function is always the owner's.
BusRegistered(v) ==
  /\ BusOK(v)
  /\ v.release # "NULL" => v.release \in v.dev

\* What a release-and-claim leaves of a bus in order, seen from a driver d that
\* does not hold a handle.
LEMMA ClaimIsOrderly ==
  ASSUME NEW v \in Vspi, BusOK(v), NEW d \in Drivers, d \notin v.dev
  PROVE  LET w == badge_vspi_release_and_claim(v, d).v
         IN /\ w \in Vspi
            /\ \/ w.bus = "free" /\ w.dev = {} /\ (d = "leds" => w.release = "leds")
                  /\ (d = "eink" => w.release # "NULL")
               \/ w = v /\ v.dev = {"eink"} /\ v.release = "leds" /\ d = "leds"
            /\ BusRegistered(v) => w.bus = "free" /\ w.release = d
<1> DEFINE w == badge_vspi_release_and_claim(v, d).v
<1>1. CASE v.release = "NULL"
  <2>1. w = [v EXCEPT !.release = d]
    BY <1>1 DEF badge_vspi_release_and_claim
  <2>2. v.dev = {} /\ v.bus = "free"
    BY <1>1 DEF BusOK, Vspi, Drivers
  <2> QED
    BY <2>1, <2>2 DEF Vspi, Drivers, BusRegistered
<1>2. CASE v.release \in v.dev
  <2>1. w = [release |-> d, bus |-> "free", dev |-> v.dev \ {v.release}]
    BY <1>2 DEF badge_vspi_release_and_claim, ReleaseSpi, Vspi, Drivers
  <2>2. v.dev \ {v.release} = {}
    BY <1>2 DEF BusOK, Vspi, Drivers
  <2> QED
    BY <2>1, <2>2 DEF Vspi, Drivers, BusRegistered
<1>3. CASE v.release # "NULL" /\ v.release \notin v.dev
  <2>1. w = v
    BY <1>3 DEF badge_vspi_release_and_claim, ReleaseSpi, Vspi, Drivers
  <2>2. v.release = "leds"
    BY <1>3 DEF BusOK, Vspi, Drivers
  <2>3. v.dev = {} \/ v.dev = {"eink"}
    BY <1>3, <2>2 DEF BusOK, Vspi, Drivers
  <2>4. CASE v.dev = {}
    BY <2>1, <2>2, <2>4, <1>3 DEF BusOK, BusRegistered, Vspi, Drivers
  <2>5. CASE v.dev = {"eink"}
    BY <2>1, <2>2, <2>5, <1>3 DEF BusOK, BusRegistered, Vspi, Drivers
  <2> QED
    BY <2>3, <2>4, <2>5
<1> QED
  BY <1>1, <1>2, <1>3

\* badge_leds_claim_spi() keeps the bus in order when no device is left without
\* a handle, and succeeds exactly with a handle for the led driver.
LEMMA LedsClaimIsOrderly ==
  ASSUME NEW v \in Vspi, BusOK(v), "add_device" \notin SpiFaults,
         NEW o \in badge_leds_claim_spi(v)
  PROVE  /\ o.v \in Vspi /\ o.ok \in BOOLEAN
         /\ BusOK(o.v)
         /\ o.ok => "leds" \in o.v.dev /\ o.v.bus = "leds"
         /\ BusRegistered(v) /\ SpiFaults = {} => BusRegistered(o.v)
<1> DEFINE w == badge_vspi_release_and_claim(v, "leds").v
<1>1. CASE "leds" \in v.dev
  <2>1. o = [v |-> v, ok |-> TRUE]
    BY <1>1 DEF badge_leds_claim_spi
  <2>2. v.bus = "leds"
    BY <1>1 DEF BusOK, Vspi
  <2> QED
    BY <2>1, <2>2, <1>1
<1>2. CASE "leds" \notin v.dev
  <2>1. /\ w \in Vspi
        /\ \/ w.bus = "free" /\ w.dev = {} /\ w.release = "leds"
           \/ w = v /\ v.dev = {"eink"} /\ v.release = "leds"
        /\ BusRegistered(v) => w.bus = "free" /\ w.release = "leds"
    BY <1>2, ClaimIsOrderly DEF Drivers
  <2>2. BusOK(w)
    BY <2>1 DEF BusOK, Vspi, Drivers
  <2>3. CASE w.bus # "free"
    <3>1. o = [v |-> w, ok |-> FALSE]
      BY <1>2, <2>3 DEF badge_leds_claim_spi
    <3> QED
      BY <3>1, <2>1, <2>2, <2>3
  <2>4. CASE w.bus = "free"
    <3>1. \/ o = [v |-> w, ok |-> FALSE] /\ SpiFaults # {}
          \/ o = [v |-> [w EXCEPT !.bus = "leds", !.dev = w.dev \cup {"leds"}], ok |-> TRUE]
      BY <1>2, <2>4 DEF badge_leds_claim_spi
    <3>2. CASE o = [v |-> w, ok |-> FALSE] /\ SpiFaults # {}
      BY <3>2, <2>1, <2>2
    <3>3. CASE o = [v |-> [w EXCEPT !.bus = "leds", !.dev = w.dev \cup {"leds"}], ok |-> TRUE]
      BY <3>3, <2>1, <2>4 DEF Vspi, Drivers, BusOK, BusRegistered
    <3> QED
      BY <3>1, <3>2, <3>3
  <2> QED
    BY <2>3, <2>4
<1> QED
  BY <1>1, <1>2

\* badge_eink_dev_claim_spi() always gets a bus that is in order.
LEMMA EinkClaimIsOrderly ==
  ASSUME NEW v \in Vspi, BusOK(v)
  PROVE  LET o == badge_eink_dev_claim_spi(v)
         IN /\ o.v \in Vspi /\ o.ok = TRUE
            /\ BusOK(o.v)
            /\ BusRegistered(v) => BusRegistered(o.v)
<1> DEFINE w == badge_vspi_release_and_claim(v, "eink").v
           o == badge_eink_dev_claim_spi(v)
<1>1. CASE "eink" \in v.dev
  BY <1>1 DEF badge_eink_dev_claim_spi
<1>2. CASE "eink" \notin v.dev
  <2>1. w \in Vspi /\ w.bus = "free" /\ w.dev = {} /\ w.release # "NULL"
    BY <1>2, ClaimIsOrderly DEF Drivers
  <2>2. BusRegistered(v) => w.release = "eink"
    BY <1>2, ClaimIsOrderly DEF Drivers
  <2>3. o = [v |-> [w EXCEPT !.bus = "eink", !.dev = w.dev \cup {"eink"}], ok |-> TRUE]
    BY <1>2, <2>1 DEF badge_eink_dev_claim_spi
  <2>4. o.v \in Vspi /\ o.ok = TRUE /\ o.v.bus = "eink" /\ o.v.dev = {"eink"}
        /\ o.v.release = w.release
    <3> HIDE DEF w, o
    <3>1. w.dev \cup {"eink"} = {"eink"}
      BY <2>1
    <3>2. o.v = [w EXCEPT !.bus = "eink", !.dev = {"eink"}] /\ o.ok = TRUE
      BY <2>3, <3>1
    <3> QED
      BY <2>1, <3>2 DEF Vspi, Drivers
  <2>5. BusOK(o.v)
    BY <2>1, <2>4 DEF BusOK
  <2>6. BusRegistered(v) => BusRegistered(o.v)
    BY <2>2, <2>4, <2>5 DEF BusRegistered
  <2> QED
    BY <2>4, <2>5, <2>6
<1> QED
  BY <1>1, <1>2

\* badge_leds_disable() gives the bus back to nobody when it holds it.
LEMMA LedsReleaseIsOrderly ==
  ASSUME NEW v \in Vspi, BusOK(v), "leds" \in v.dev
  PROVE  badge_vspi_release_and_claim(v, "NULL") =
           [v |-> [release |-> "NULL", bus |-> "free", dev |-> {}], ok |-> TRUE]
<1>1. v.release = "leds" /\ v.dev \ {"leds"} = {}
  BY DEF BusOK, Vspi, Drivers
<1>2. badge_vspi_release_and_claim(v, "NULL") =
        [v |-> [release |-> "NULL", bus |-> "free", dev |-> v.dev \ {"leds"}], ok |-> TRUE]
  BY <1>1 DEF badge_vspi_release_and_claim, ReleaseSpi, Vspi
<1> QED
  BY <1>1, <1>2

-----------------------------------------------------------------------------
(* The rail. *)

\* The rail, where its level is known, is on exactly while it has a user, and the
\* cached level of the pin is the level of the pin, or unknown.
RailOK(p) ==
  /\ RailKnown(p) => (p.rail = 1 <=> p.users # {})
  /\ p.cache = Unknown \/ p.cache = p.rail

LEMMA LevelTypes ==
  ASSUME NEW p \in Power, NEW value \in {0, 1}, NEW o \in badge_mpr121_set_gpio_level(p, value)
  PROVE  /\ o.p \in Power /\ o.ok \in BOOLEAN
         /\ o.p.users = p.users
         /\ o.ok /\ RailOK(p) => o.p.rail = value /\ o.p.cache = value
         /\ ~o.ok => o.p.cache = Unknown /\ ("landed" \notin I2cFaults => o.p.rail = p.rail)
<1>1. \/ o = [p |-> p, ok |-> TRUE] /\ p.cache = value
      \/ o = [p |-> [p EXCEPT !.cache = value, !.rail = value], ok |-> TRUE]
      \/ o = [p |-> [p EXCEPT !.cache = Unknown], ok |-> FALSE]
      \/ o = [p |-> [p EXCEPT !.cache = Unknown, !.rail = value], ok |-> FALSE] /\ "landed" \in I2cFaults
  BY DEF badge_mpr121_set_gpio_level
<1>2. CASE o = [p |-> p, ok |-> TRUE] /\ p.cache = value
  <2>1. p.cache # Unknown
    BY <1>2 DEF Unknown
  <2> QED
    BY <1>2, <2>1 DEF RailOK
<1>3. CASE o = [p |-> [p EXCEPT !.cache = value, !.rail = value], ok |-> TRUE]
  BY <1>3 DEF Power
<1>4. CASE o = [p |-> [p EXCEPT !.cache = Unknown], ok |-> FALSE]
  BY <1>4 DEF Power
<1>5. CASE o = [p |-> [p EXCEPT !.cache = Unknown, !.rail = value], ok |-> FALSE] /\ "landed" \in I2cFaults
  BY <1>5 DEF Power
<1> QED
  BY <1>1, <1>2, <1>3, <1>4, <1>5

\* badge_power_*_enable().
LEMMA EnableIsShared ==
  ASSUME NEW p \in Power, NEW u \in Users, NEW o \in PowerEnable(p, u)
  PROVE  /\ o.p \in Power /\ o.ok \in BOOLEAN
         /\ o.ok => u \in o.p.users
         /\ p.users \subseteq o.p.users
         /\ RailOK(p) => RailOK(o.p)
<1>1. CASE u \in p.users
  <2>1. o = [p |-> p, ok |-> TRUE]
    BY <1>1 DEF PowerEnable
  <2> QED
    BY <2>1, <1>1
<1>2. CASE u \notin p.users /\ p.users # {}
  <2>1. o = [p |-> [p EXCEPT !.users = p.users \cup {u}], ok |-> TRUE]
    BY <1>2 DEF PowerEnable
  <2> QED
    BY <2>1, <1>2 DEF Power, Users, RailOK, RailKnown
<1>3. CASE p.users = {}
  <2>1. PICK x \in badge_mpr121_set_gpio_level(p, 1) :
          o = [p |-> IF x.ok THEN [x.p EXCEPT !.users = {u}] ELSE x.p, ok |-> x.ok]
    BY <1>3 DEF PowerEnable
  <2>2. /\ x.p \in Power /\ x.ok \in BOOLEAN
        /\ x.p.users = {}
        /\ x.ok /\ RailOK(p) => x.p.rail = 1 /\ x.p.cache = 1
        /\ ~x.ok => x.p.cache = Unknown /\ ("landed" \notin I2cFaults => x.p.rail = p.rail)
    BY <1>3, LevelTypes
  <2>3. CASE x.ok
    BY <2>1, <2>2, <2>3, <1>3 DEF Power, Users, RailOK, RailKnown
  <2>4. CASE ~x.ok
    BY <2>1, <2>2, <2>4, <1>3 DEF Power, Users, RailOK, RailKnown
  <2> QED
    BY <2>3, <2>4
<1> QED
  BY <1>1, <1>2, <1>3

\* badge_power_*_disable().
LEMMA DisableIsShared ==
  ASSUME NEW p \in Power, NEW u \in Users, NEW o \in PowerDisable(p, u)
  PROVE  /\ o.p \in Power /\ o.ok \in BOOLEAN
         /\ o.p.users \subseteq p.users
         /\ p.users \ {u} \subseteq o.p.users
         /\ RailOK(p) => RailOK(o.p)
<1>1. CASE u \notin p.users
  <2>1. o = [p |-> p, ok |-> TRUE]
    BY <1>1 DEF PowerDisable
  <2> QED
    BY <2>1, <1>1
<1>2. CASE u \in p.users /\ p.users # {u}
  <2>1. o = [p |-> [p EXCEPT !.users = p.users \ {u}], ok |-> TRUE]
    BY <1>2 DEF PowerDisable
  <2>2. p.users \ {u} # {}
    BY <1>2
  <2> QED
    BY <2>1, <2>2, <1>2 DEF Power, Users, RailOK, RailKnown
<1>3. CASE p.users = {u}
  <2>1. PICK x \in badge_mpr121_set_gpio_level(p, 0) :
          o = [p |-> IF x.ok THEN [x.p EXCEPT !.users = {}] ELSE x.p, ok |-> x.ok]
    BY <1>3 DEF PowerDisable
  <2>2. /\ x.p \in Power /\ x.ok \in BOOLEAN
        /\ x.p.users = {u}
        /\ x.ok /\ RailOK(p) => x.p.rail = 0 /\ x.p.cache = 0
        /\ ~x.ok => x.p.cache = Unknown /\ ("landed" \notin I2cFaults => x.p.rail = p.rail)
    BY <1>3, LevelTypes
  <2>3. CASE x.ok
    BY <2>1, <2>2, <2>3, <1>3 DEF Power, Users, RailOK, RailKnown
  <2>4. CASE ~x.ok
    BY <2>1, <2>2, <2>4, <1>3 DEF Power, Users, RailOK, RailKnown
  <2> QED
    BY <2>3, <2>4
<1> QED
  BY <1>1, <1>2, <1>3

-----------------------------------------------------------------------------
(* The calls. *)

\* What every call of the led driver does to bus, rail and badge_leds_active.
CallOK(v, p, a, o) ==
  /\ o.v \in Vspi /\ o.p \in Power /\ o.a \in BOOLEAN /\ o.ok \in BOOLEAN
  /\ BusOK(o.v)
  /\ BusRegistered(v) /\ SpiFaults = {} => BusRegistered(o.v)
  /\ RailOK(p) => RailOK(o.p)
  /\ (a => "leds" \in p.users) => (o.a => "leds" \in o.p.users)

LEMMA LedsEnableIsOrderly ==
  ASSUME NEW v \in Vspi, BusOK(v), "add_device" \notin SpiFaults,
         NEW p \in Power, NEW a \in BOOLEAN, NEW o \in LedsEnable(v, p, a)
  PROVE  CallOK(v, p, a, o) /\ (o.ok => o.a)
<1>1. CASE a
  <2>1. o = [v |-> v, p |-> p, a |-> a, ok |-> TRUE]
    BY <1>1 DEF LedsEnable
  <2> QED
    BY <2>1, <1>1 DEF CallOK
<1>2. CASE ~a
  <2>1. PICK x \in PowerEnable(p, "leds") :
          o \in IF ~x.ok
               THEN {[v |-> v, p |-> x.p, a |-> a, ok |-> FALSE]}
               ELSE {[v |-> c.v, p |-> x.p, a |-> c.ok, ok |-> c.ok] : c \in badge_leds_claim_spi(v)}
    BY <1>2 DEF LedsEnable
  <2>2. /\ x.p \in Power /\ x.ok \in BOOLEAN
        /\ x.ok => "leds" \in x.p.users
        /\ RailOK(p) => RailOK(x.p)
    BY EnableIsShared DEF Users
  <2>3. CASE ~x.ok
    <3>1. o = [v |-> v, p |-> x.p, a |-> a, ok |-> FALSE]
      BY <2>1, <2>3
    <3> QED
      BY <3>1, <2>2, <1>2 DEF CallOK
  <2>4. CASE x.ok
    <3>1. PICK c \in badge_leds_claim_spi(v) :
            o = [v |-> c.v, p |-> x.p, a |-> c.ok, ok |-> c.ok]
      BY <2>1, <2>4
    <3>2. /\ c.v \in Vspi /\ c.ok \in BOOLEAN
          /\ BusOK(c.v)
          /\ BusRegistered(v) /\ SpiFaults = {} => BusRegistered(c.v)
      BY LedsClaimIsOrderly
    <3> QED
      BY <3>1, <3>2, <2>2, <2>4 DEF CallOK
  <2> QED
    BY <2>2, <2>3, <2>4
<1> QED
  BY <1>1, <1>2

LEMMA LedsDisableIsOrderly ==
  ASSUME NEW v \in Vspi, BusOK(v),
         NEW p \in Power, NEW a \in BOOLEAN, NEW o \in LedsDisable(v, p, a)
  PROVE  CallOK(v, p, a, o)
<1>1. CASE ~a
  <2>1. o = [v |-> v, p |-> p, a |-> a, ok |-> TRUE]
    BY <1>1 DEF LedsDisable
  <2> QED
    BY <2>1 DEF CallOK
<1>2. CASE a
  <2> DEFINE w == IF "leds" \in v.dev THEN badge_vspi_release_and_claim(v, "NULL").v ELSE v
  <2>1. /\ w \in Vspi /\ BusOK(w)
        /\ BusRegistered(v) => BusRegistered(w)
    <3>1. CASE "leds" \in v.dev
      <4>0. badge_vspi_release_and_claim(v, "NULL") =
              [v |-> [release |-> "NULL", bus |-> "free", dev |-> {}], ok |-> TRUE]
        BY <3>1, LedsReleaseIsOrderly
      <4>1. w = [release |-> "NULL", bus |-> "free", dev |-> {}]
        BY <3>1, <4>0
      <4> QED
        BY <4>1 DEF Vspi, BusOK, BusRegistered, Drivers
    <3>2. CASE "leds" \notin v.dev
      BY <3>2
    <3> QED
      BY <3>1, <3>2
  <2>2. "leds" \in v.dev => badge_vspi_release_and_claim(v, "NULL").ok
    BY LedsReleaseIsOrderly
  <2>3. PICK x \in PowerDisable(p, "leds") : o = [v |-> w, p |-> x.p, a |-> FALSE, ok |-> x.ok]
    BY <1>2, <2>2 DEF LedsDisable
  <2>4. /\ x.p \in Power /\ x.ok \in BOOLEAN
        /\ RailOK(p) => RailOK(x.p)
    BY DisableIsShared DEF Users
  <2> HIDE DEF w
  <2> QED
    BY <2>1, <2>3, <2>4 DEF CallOK
<1> QED
  BY <1>1, <1>2

LEMMA LedsSendIsOrderly ==
  ASSUME NEW v \in Vspi, BusOK(v), "add_device" \notin SpiFaults,
         NEW p \in Power, NEW a \in BOOLEAN, NEW o \in LedsSend(v, p, a)
  PROVE  /\ CallOK(v, p, a, o)
         /\ o.ok => "leds" \in o.v.dev /\ o.v.bus = "leds" /\ o.a
<1>1. CASE o = [v |-> v, p |-> p, a |-> a, ok |-> FALSE]
  BY <1>1 DEF CallOK
<1>2. CASE o # [v |-> v, p |-> p, a |-> a, ok |-> FALSE]
  <2>1. PICK e \in LedsEnable(v, p, a) :
          o \in IF ~e.ok
               THEN {e}
               ELSE {[v |-> c.v, p |-> e.p, a |-> e.a, ok |-> c.ok] : c \in badge_leds_claim_spi(e.v)}
    BY <1>2 DEF LedsSend
  <2>2. CallOK(v, p, a, e) /\ (e.ok => e.a)
    BY LedsEnableIsOrderly
  <2>3. CASE ~e.ok
    <3>1. o = e
      BY <2>1, <2>3
    <3> QED
      BY <3>1, <2>2, <2>3
  <2>4. CASE e.ok
    <3>1. PICK c \in badge_leds_claim_spi(e.v) :
            o = [v |-> c.v, p |-> e.p, a |-> e.a, ok |-> c.ok]
      BY <2>1, <2>4
    <3>2. /\ c.v \in Vspi /\ c.ok \in BOOLEAN
          /\ BusOK(c.v)
          /\ c.ok => "leds" \in c.v.dev /\ c.v.bus = "leds"
          /\ BusRegistered(e.v) /\ SpiFaults = {} => BusRegistered(c.v)
      BY <2>2, LedsClaimIsOrderly DEF CallOK
    <3> QED
      BY <3>1, <3>2, <2>2, <2>4 DEF CallOK
  <2> QED
    BY <2>2, <2>3, <2>4 DEF CallOK
<1> QED
  BY <1>1, <1>2

-----------------------------------------------------------------------------
(* The invariant. *)

IInv ==
  /\ TypeOK
  /\ BusOK(vspi)
  /\ SpiFaults = {} => BusRegistered(vspi)
  /\ RailOK(power)
  /\ ~AppPowerCalls => (active => "leds" \in power.users)
  /\ EinkGetsTheBus
  /\ ~AppPowerCalls => SentIsPowered

\* A call of the led driver whose outcome is in order keeps the invariant.
LEMMA OrderlyCallKeepsIInv ==
  ASSUME IInv, NEW o, CallOK(vspi, power, active, o),
         vspi' = o.v, power' = o.p, active' = o.a, UNCHANGED aborted,
         NEW c \in Calls, Returned(c, o.ok),
         c = "leds_send" /\ o.ok => "leds" \in o.v.dev /\ o.v.bus = "leds" /\ o.a
  PROVE  IInv'
<1>1. TypeOK'
  BY DEF IInv, TypeOK, CallOK, Returned
<1>2. BusOK(vspi)' /\ (SpiFaults = {} => BusRegistered(vspi)')
  BY DEF IInv, CallOK
<1>3. RailOK(power)'
  BY DEF IInv, CallOK
<1>4. ~AppPowerCalls => (active' => "leds" \in power'.users)
  BY DEF IInv, CallOK
<1>5. EinkGetsTheBus'
  BY DEF IInv, EinkGetsTheBus
<1>6. ~AppPowerCalls => SentIsPowered'
  BY <1>3, <1>4 DEF SentIsPowered, Returned, RailOK, RailKnown
<1> QED
  BY <1>1, <1>2, <1>3, <1>4, <1>5, <1>6 DEF IInv

\* The invariant is inductive as long as a led device is never left without its
\* handle, which is what a failing spi_bus_add_device() does.
LEMMA IInvIsInductive ==
  ASSUME "add_device" \notin SpiFaults, IInv, [Next]_vars
  PROVE  IInv'
<1> USE FaultAssumption
<1>0. vspi \in Vspi /\ power \in Power /\ active \in BOOLEAN /\ BusOK(vspi)
  BY DEF IInv, TypeOK
<1>1. CASE badge_leds_enable
  BY <1>0, <1>1, LedsEnableIsOrderly, OrderlyCallKeepsIInv DEF badge_leds_enable, Calls
<1>2. CASE badge_leds_disable
  BY <1>0, <1>2, LedsDisableIsOrderly, OrderlyCallKeepsIInv DEF badge_leds_disable, Calls
<1>3. CASE badge_leds_send_data
  BY <1>0, <1>3, LedsSendIsOrderly, OrderlyCallKeepsIInv DEF badge_leds_send_data, Calls
<1>4. CASE badge_spi_send
  <2> DEFINE o == badge_eink_dev_claim_spi(vspi)
  <2>1. /\ o.v \in Vspi /\ o.ok = TRUE
        /\ BusOK(o.v)
        /\ BusRegistered(vspi) => BusRegistered(o.v)
    BY <1>0, EinkClaimIsOrderly
  <2>2. /\ vspi' = o.v /\ aborted' = ~o.ok
        /\ last' = [call |-> "eink_send", ok |-> o.ok]
        /\ UNCHANGED <<power, active>>
    BY <1>4 DEF badge_spi_send, Returned
  <2> HIDE DEF o
  <2>3. TypeOK'
    BY <2>1, <2>2 DEF IInv, TypeOK, Calls
  <2>4. aborted' = FALSE
    BY <2>1, <2>2
  <2>5. SentIsPowered'
    BY <2>2 DEF SentIsPowered
  <2> QED
    BY <2>1, <2>2, <2>3, <2>4, <2>5 DEF IInv, EinkGetsTheBus, RailOK
<1>5. ASSUME NEW u \in AppUsers, badge_power_enable(u)
      PROVE  IInv'
  <2>1. PICK o \in PowerEnable(power, u) :
          /\ power' = o.p
          /\ last' = [call |-> "power_enable", ok |-> o.ok]
          /\ UNCHANGED <<vspi, active, aborted>>
    BY <1>5 DEF badge_power_enable, Returned
  <2>2. /\ o.p \in Power /\ o.ok \in BOOLEAN
        /\ power.users \subseteq o.p.users
        /\ RailOK(power) => RailOK(o.p)
    BY <1>0, EnableIsShared DEF AppUsers
  <2>3. TypeOK'
    BY <2>1, <2>2 DEF IInv, TypeOK, Calls
  <2>4. SentIsPowered'
    BY <2>1 DEF SentIsPowered
  <2> QED
    BY <2>1, <2>2, <2>3, <2>4 DEF IInv, EinkGetsTheBus, BusOK, BusRegistered
<1>6. ASSUME NEW u \in AppUsers, badge_power_disable(u)
      PROVE  IInv'
  <2>1. PICK o \in PowerDisable(power, u) :
          /\ power' = o.p
          /\ last' = [call |-> "power_disable", ok |-> o.ok]
          /\ UNCHANGED <<vspi, active, aborted>>
    BY <1>6 DEF badge_power_disable, Returned
  <2>2. /\ o.p \in Power /\ o.ok \in BOOLEAN
        /\ power.users \ {u} \subseteq o.p.users
        /\ RailOK(power) => RailOK(o.p)
    BY <1>0, DisableIsShared DEF AppUsers
  <2>3. TypeOK'
    BY <2>1, <2>2 DEF IInv, TypeOK, Calls
  <2>4. SentIsPowered'
    BY <2>1 DEF SentIsPowered
  <2>5. ~AppPowerCalls => u = "sd"
    BY DEF AppUsers
  <2> QED
    BY <2>1, <2>2, <2>3, <2>4, <2>5 DEF IInv, EinkGetsTheBus, BusOK, BusRegistered
<1>7. CASE UNCHANGED vars
  BY <1>7 DEF vars, IInv, TypeOK, BusOK, BusRegistered, RailOK, EinkGetsTheBus, SentIsPowered
<1> QED
  BY <1>1, <1>2, <1>3, <1>4, <1>5, <1>6, <1>7 DEF Next

LEMMA InitImpliesIInv == Init => IInv
<1> SUFFICES ASSUME Init PROVE IInv
  OBVIOUS
<1>1. TypeOK
  BY DEF Init, TypeOK, Vspi, Power, Calls, Drivers, Users, Unknown
<1>2. BusOK(vspi) /\ BusRegistered(vspi)
  BY DEF Init, BusOK, BusRegistered
<1>3. RailOK(power)
  BY DEF Init, RailOK, RailKnown
<1>4. SentIsPowered /\ EinkGetsTheBus /\ active = FALSE
  BY DEF Init, SentIsPowered, EinkGetsTheBus
<1> QED
  BY <1>1, <1>2, <1>3, <1>4 DEF IInv

\* Every reachable state satisfies the invariant unless a led device can be lost.
THEOREM Invariance ==
  ASSUME "add_device" \notin SpiFaults
  PROVE  Spec => []IInv
<1>1. IInv /\ [Next]_vars => IInv'
  BY IInvIsInductive
<1> QED
  BY <1>1, InitImpliesIInv, PTL DEF Spec

\* A driver with a device handle is alone on a bus that is configured for it, even
\* if the led driver's spi_bus_initialize() fails (badge_leds.c:45).
THEOREM OneOwnerAtATime ==
  ASSUME "add_device" \notin SpiFaults
  PROVE  Spec => []OneOwner
<1>1. IInv => OneOwner
  BY DEF IInv, BusOK, OneOwner, TypeOK, Vspi, Drivers
<1> QED
  BY <1>1, Invariance, PTL

\* If the led driver's SPI calls do not fail, the driver with a device handle is the
\* one badge_vspi_release_and_claim() will ask to let go (badge_spi.c:36-58).
THEOREM OwnerIsRegistered ==
  ASSUME SpiFaults = {}
  PROVE  Spec => []OwnerRegistered
<1>1. IInv => OwnerRegistered
  BY DEF IInv, BusRegistered, BusOK, OwnerRegistered, TypeOK, Vspi, Drivers
<1>2. Spec => []IInv
  BY Invariance
<1> QED
  BY <1>1, <1>2, PTL

\* Whatever spi_bus_initialize() returns to the led driver, the e-ink driver's
\* asserts on the VSPI bus hold (badge_eink_dev.c:76-104).
THEOREM EinkAlwaysGetsTheBus ==
  ASSUME "add_device" \notin SpiFaults
  PROVE  Spec => []EinkGetsTheBus
<1>1. IInv => EinkGetsTheBus
  BY DEF IInv
<1> QED
  BY <1>1, Invariance, PTL

\* If the application leaves the led power to the led driver, led data only ever goes
\* to leds that have power, over a bus that is theirs (badge_leds.c:143-206).
THEOREM SendsArePowered ==
  ASSUME "add_device" \notin SpiFaults, ~AppPowerCalls
  PROVE  Spec => []SentIsPowered
<1>1. IInv => SentIsPowered
  BY DEF IInv
<1> QED
  BY <1>1, Invariance, PTL

-----------------------------------------------------------------------------
(* Types, and the rail, whatever fails: also a spi_bus_add_device() that leaves   *)
(* the bus configured without a device.                                           *)

(* badge_vspi_release_and_claim() for a driver, or to give the bus up. *)
LEMMA ClaimTypes ==
  ASSUME NEW v \in Vspi, NEW r \in Drivers \cup {"NULL"}
  PROVE  badge_vspi_release_and_claim(v, r).v \in Vspi
<1>1. CASE v.release = "NULL"
  BY <1>1 DEF badge_vspi_release_and_claim, Vspi
<1>2. CASE v.release # "NULL" /\ v.release \in v.dev
  <2>1. badge_vspi_release_and_claim(v, r).v =
          [release |-> r, bus |-> "free", dev |-> v.dev \ {v.release}]
    BY <1>2 DEF badge_vspi_release_and_claim, ReleaseSpi, Vspi
  <2> QED
    BY <2>1 DEF Vspi
<1>3. CASE v.release # "NULL" /\ v.release \notin v.dev
  <2>1. badge_vspi_release_and_claim(v, r).v = v
    BY <1>3 DEF badge_vspi_release_and_claim, ReleaseSpi
  <2> QED
    BY <2>1
<1> QED
  BY <1>1, <1>2, <1>3

(* badge_leds_claim_spi(), with each of its ways to fail. *)
LEMMA LedsClaimTypes ==
  ASSUME NEW v \in Vspi, NEW c \in badge_leds_claim_spi(v)
  PROVE  c.v \in Vspi /\ c.ok \in BOOLEAN
<1> DEFINE w == badge_vspi_release_and_claim(v, "leds").v
           attached == [w EXCEPT !.bus = "leds", !.dev = w.dev \cup {"leds"}]
           bare == [w EXCEPT !.bus = "leds"]
<1>1. w \in Vspi
  BY ClaimTypes DEF Drivers
<1>2. c \in {[v |-> v, ok |-> TRUE], [v |-> w, ok |-> FALSE],
            [v |-> attached, ok |-> TRUE], [v |-> bare, ok |-> FALSE]}
  BY DEF badge_leds_claim_spi
<1> HIDE DEF w
<1>3. attached \in Vspi /\ bare \in Vspi
  BY <1>1 DEF Vspi, Drivers
<1> HIDE DEF attached, bare
<1>4. c.ok = TRUE \/ c.ok = FALSE
  BY <1>2
<1>5. c.v \in {v, w, attached, bare}
  BY <1>2
<1> QED
  BY <1>1, <1>3, <1>4, <1>5

(* badge_eink_dev_claim_spi(), with an assert that holds or fails. *)
LEMMA EinkClaimTypes ==
  ASSUME NEW v \in Vspi
  PROVE  badge_eink_dev_claim_spi(v).v \in Vspi /\ badge_eink_dev_claim_spi(v).ok \in BOOLEAN
<1> DEFINE w == badge_vspi_release_and_claim(v, "eink").v
           o == badge_eink_dev_claim_spi(v)
           attached == [w EXCEPT !.bus = "eink", !.dev = w.dev \cup {"eink"}]
<1>1. w \in Vspi
  BY ClaimTypes DEF Drivers
<1>2. o \in {[v |-> v, ok |-> TRUE], [v |-> w, ok |-> FALSE], [v |-> attached, ok |-> TRUE]}
  BY DEF badge_eink_dev_claim_spi
<1> HIDE DEF w, o
<1>3. attached \in Vspi
  BY <1>1 DEF Vspi, Drivers
<1> HIDE DEF attached
<1>4. o.ok = TRUE \/ o.ok = FALSE
  BY <1>2
<1>5. o.v \in {v, w, attached}
  BY <1>2
<1> QED
  BY <1>1, <1>3, <1>4, <1>5 DEF o

\* What a call of the led driver leaves, whatever failed inside it.
Typed(p, o) ==
  /\ o.v \in Vspi /\ o.p \in Power /\ o.a \in BOOLEAN /\ o.ok \in BOOLEAN
  /\ RailOK(p) => RailOK(o.p)

(* badge_leds_enable(): the power first, and only then the bus. *)
LEMMA LedsEnableTypes ==
  ASSUME NEW v \in Vspi, NEW p \in Power, NEW a \in BOOLEAN, NEW o \in LedsEnable(v, p, a)
  PROVE  Typed(p, o)
<1>1. CASE a
  <2>1. o = [v |-> v, p |-> p, a |-> a, ok |-> TRUE]
    BY <1>1 DEF LedsEnable
  <2> QED
    BY <2>1 DEF Typed
<1>2. CASE ~a
  <2>1. PICK x \in PowerEnable(p, "leds") :
          o \in IF ~x.ok
               THEN {[v |-> v, p |-> x.p, a |-> a, ok |-> FALSE]}
               ELSE {[v |-> c.v, p |-> x.p, a |-> c.ok, ok |-> c.ok] : c \in badge_leds_claim_spi(v)}
    BY <1>2 DEF LedsEnable
  <2>2. x.p \in Power /\ x.ok \in BOOLEAN /\ (RailOK(p) => RailOK(x.p))
    BY EnableIsShared DEF Users
  <2>3. CASE ~x.ok
    <3>1. o = [v |-> v, p |-> x.p, a |-> a, ok |-> FALSE]
      BY <2>1, <2>3
    <3> QED
      BY <3>1, <2>2 DEF Typed
  <2>4. CASE x.ok
    <3>1. PICK c \in badge_leds_claim_spi(v) :
            o = [v |-> c.v, p |-> x.p, a |-> c.ok, ok |-> c.ok]
      BY <2>1, <2>4
    <3>2. c.v \in Vspi /\ c.ok \in BOOLEAN
      BY LedsClaimTypes
    <3> QED
      BY <3>1, <3>2, <2>2 DEF Typed
  <2> QED
    BY <2>2, <2>3, <2>4
<1> QED
  BY <1>1, <1>2

(* badge_leds_disable(): a bus that cannot be given up keeps the power on. *)
LEMMA LedsDisableTypes ==
  ASSUME NEW v \in Vspi, NEW p \in Power, NEW a \in BOOLEAN, NEW o \in LedsDisable(v, p, a)
  PROVE  Typed(p, o)
<1> DEFINE c == badge_vspi_release_and_claim(v, "NULL")
           w == IF "leds" \in v.dev THEN c.v ELSE v
<1>1. w \in Vspi
  BY ClaimTypes
<1>2. \/ o = [v |-> v, p |-> p, a |-> a, ok |-> TRUE]
      \/ o = [v |-> w, p |-> p, a |-> a, ok |-> FALSE]
      \/ \E x \in PowerDisable(p, "leds") : o = [v |-> w, p |-> x.p, a |-> FALSE, ok |-> x.ok]
  BY DEF LedsDisable
<1> HIDE DEF w
<1>3. CASE o = [v |-> v, p |-> p, a |-> a, ok |-> TRUE]
  BY <1>3 DEF Typed
<1>4. CASE o = [v |-> w, p |-> p, a |-> a, ok |-> FALSE]
  BY <1>1, <1>4 DEF Typed
<1>5. CASE \E x \in PowerDisable(p, "leds") : o = [v |-> w, p |-> x.p, a |-> FALSE, ok |-> x.ok]
  <2>1. PICK x \in PowerDisable(p, "leds") : o = [v |-> w, p |-> x.p, a |-> FALSE, ok |-> x.ok]
    BY <1>5
  <2>2. x.p \in Power /\ x.ok \in BOOLEAN /\ (RailOK(p) => RailOK(x.p))
    BY DisableIsShared DEF Users
  <2> QED
    BY <1>1, <2>1, <2>2 DEF Typed
<1> QED
  BY <1>2, <1>3, <1>4, <1>5

(* badge_leds_send_data(): an allocation, an enable and a second claim. *)
LEMMA LedsSendTypes ==
  ASSUME NEW v \in Vspi, NEW p \in Power, NEW a \in BOOLEAN, NEW o \in LedsSend(v, p, a)
  PROVE  Typed(p, o)
<1>1. CASE o = [v |-> v, p |-> p, a |-> a, ok |-> FALSE]
  BY <1>1 DEF Typed
<1>2. CASE o # [v |-> v, p |-> p, a |-> a, ok |-> FALSE]
  <2>1. PICK e \in LedsEnable(v, p, a) :
          o \in IF ~e.ok
               THEN {e}
               ELSE {[v |-> c.v, p |-> e.p, a |-> e.a, ok |-> c.ok] : c \in badge_leds_claim_spi(e.v)}
    BY <1>2 DEF LedsSend
  <2>2. Typed(p, e)
    BY LedsEnableTypes
  <2>3. CASE ~e.ok
    BY <2>1, <2>2, <2>3
  <2>4. CASE e.ok
    <3>1. PICK c \in badge_leds_claim_spi(e.v) :
            o = [v |-> c.v, p |-> e.p, a |-> e.a, ok |-> c.ok]
      BY <2>1, <2>4
    <3>2. c.v \in Vspi /\ c.ok \in BOOLEAN
      BY <2>2, LedsClaimTypes DEF Typed
    <3> QED
      BY <3>1, <3>2, <2>2 DEF Typed
  <2> QED
    BY <2>2, <2>3, <2>4 DEF Typed
<1> QED
  BY <1>1, <1>2

RailInv == TypeOK /\ RailOK(power)

(* Every call, in any order and with any of its failures, keeps types and rail. *)
LEMMA RailStep == ASSUME RailInv, [Next]_vars PROVE RailInv'
<1>0. vspi \in Vspi /\ power \in Power /\ active \in BOOLEAN
  BY DEF RailInv, TypeOK
<1>a. ASSUME NEW o, Typed(power, o), vspi' = o.v, power' = o.p, active' = o.a,
             UNCHANGED aborted, NEW c \in Calls, Returned(c, o.ok)
      PROVE  RailInv'
  BY <1>a DEF RailInv, TypeOK, Typed, Returned
<1>1. CASE badge_leds_enable
  BY <1>0, <1>1, <1>a, LedsEnableTypes DEF badge_leds_enable, Calls
<1>2. CASE badge_leds_disable
  BY <1>0, <1>2, <1>a, LedsDisableTypes DEF badge_leds_disable, Calls
<1>3. CASE badge_leds_send_data
  BY <1>0, <1>3, <1>a, LedsSendTypes DEF badge_leds_send_data, Calls
<1>4. CASE badge_spi_send
  <2> DEFINE o == badge_eink_dev_claim_spi(vspi)
  <2>1. o.v \in Vspi /\ o.ok \in BOOLEAN
    BY <1>0, EinkClaimTypes
  <2>2. /\ vspi' = o.v /\ aborted' = ~o.ok
        /\ last' = [call |-> "eink_send", ok |-> o.ok]
        /\ UNCHANGED <<power, active>>
    BY <1>4 DEF badge_spi_send, Returned
  <2> HIDE DEF o
  <2> QED
    BY <2>1, <2>2 DEF RailInv, TypeOK, Calls, RailOK
<1>5. ASSUME NEW u \in AppUsers, badge_power_enable(u)
      PROVE  RailInv'
  <2>1. PICK o \in PowerEnable(power, u) :
          /\ power' = o.p
          /\ last' = [call |-> "power_enable", ok |-> o.ok]
          /\ UNCHANGED <<vspi, active, aborted>>
    BY <1>5 DEF badge_power_enable, Returned
  <2>2. o.p \in Power /\ o.ok \in BOOLEAN /\ (RailOK(power) => RailOK(o.p))
    BY <1>0, EnableIsShared DEF AppUsers
  <2> QED
    BY <2>1, <2>2 DEF RailInv, TypeOK, Calls
<1>6. ASSUME NEW u \in AppUsers, badge_power_disable(u)
      PROVE  RailInv'
  <2>1. PICK o \in PowerDisable(power, u) :
          /\ power' = o.p
          /\ last' = [call |-> "power_disable", ok |-> o.ok]
          /\ UNCHANGED <<vspi, active, aborted>>
    BY <1>6 DEF badge_power_disable, Returned
  <2>2. o.p \in Power /\ o.ok \in BOOLEAN /\ (RailOK(power) => RailOK(o.p))
    BY <1>0, DisableIsShared DEF AppUsers
  <2> QED
    BY <2>1, <2>2 DEF RailInv, TypeOK, Calls
<1>7. CASE UNCHANGED vars
  BY <1>7 DEF vars, RailInv, TypeOK, RailOK
<1> QED
  BY <1>1, <1>2, <1>3, <1>4, <1>5, <1>6, <1>7 DEF Next

(***************************************************************************)
(* Types and rail for every set of failing SPI and I2C calls.               *)
(***************************************************************************)
THEOREM RailInvariance == Spec => []RailInv
<1>1. Init => RailInv
  BY InitImpliesIInv DEF IInv, RailInv
<1>2. RailInv /\ [Next]_vars => RailInv'
  BY RailStep
<1> QED
  BY <1>1, <1>2, PTL DEF Spec

\* The types of bus, rail and drivers, whatever fails: in particular the pin cache
\* holds a level or the mark for "unknown", never the register mask of the write
\* (badge_mpr121.c:516-533).
THEOREM VspiTypes == Spec => []TypeOK
<1>1. RailInv => TypeOK
  BY DEF RailInv
<1> QED
  BY <1>1, RailInvariance, PTL

\* Whatever the order of the calls and of the failing SPI calls and I2C writes, the
\* rail is on exactly while it has a user, unless the last write may have taken
\* effect although it failed (badge_power.c:141-219, badge_mpr121.c:516-533).
THEOREM RailIsShared == Spec => []RailFollowsUsers
<1>1. RailInv => RailFollowsUsers
  BY DEF RailInv, RailOK, RailFollowsUsers
<1> QED
  BY <1>1, RailInvariance, PTL
=============================================================================
