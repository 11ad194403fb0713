------------------------------ MODULE AppSession ------------------------------
(***************************************************************************)
(* From reset to a running app: app_main() (safe mode), boot.py (which app  *)
(* to load, and what to do when it fails), post_ota.py (settings written    *)
(* once after an update), system.py (start an app, reboot, sleep) and       *)
(* tasks/powermanagement.py (sleep when idle), on top of badge_nvs.c.       *)
(*                                                                          *)
(* An app is named by the string that boot.py gets: a module, or a module   *)
(* behind the prefix of a medium ('bpp ', 'remfs ', 'sdcard ').  Python     *)
(* callbacks (buttons, timers) run between two bytecodes, never inside a    *)
(* call of badge_nvs.c, which is one.  RTC memory is cleared by every reset *)
(* but a wake from deep sleep.                                              *)
(***************************************************************************)
EXTENDS BadgeNvs

CONSTANTS
  Apps,       \* the apps a user has, beside those of the firmware
  Stripped,   \* the name of each without the prefix of its medium
  MaxActs     \* bound on what user and apps do

Home     == "dashboard.home"
Launcher == "dashboard.launcher"
Shell    == "shell"
NoApp    == ""
Firmware == {Home, Launcher, Shell}
Names    == Apps \cup Firmware

ASSUME AppAssumption ==
  /\ Apps \cap (Firmware \cup {NoApp}) = {}
  /\ Stripped \in [Apps -> Apps]
  /\ MaxActs \in Nat
ASSUME KeyAssumption == Keys = {"splash", "fixlvl", "mixer_ctl_0", "mixer_ctl_1"}
ASSUME ValueAssumption == None \notin Names /\ None \notin {1, 3, 5}

Prefixed == {a \in Apps : Stripped[a] # a}
Bare(a) == IF a \in Apps THEN Stripped[a] ELSE a

VARIABLES
  pc,       \* where the badge is, from reset to app and back
  reset,    \* the cause of the last reset
  rtcstr,   \* the string in RTC memory: the app to load
  safe,     \* in_safe_mode
  splash,   \* boot.py: the app that is loaded, after "load" without its prefix
  todo,     \* post_ota.py: the settings it has yet to write
  pm,       \* powermanagement.py: disabled, enabled, timeout and its timer
  awake,    \* a task is due within 30 s, or USB power is to keep the badge awake
  loaded,   \* history: the app that boot.py is to load, under its full name
  asked,    \* history: the app system.start() was called for
  failed,   \* history: that app has raised, boot.py's handler could read and erase
            \* the splash, and nobody has touched it since
  torn,     \* history: a fault left one setting of the mixer without the other
  rawed,    \* history: the raw REPL was used since the last reset
  acts      \* actions of user and apps so far

nvsvars == <<store, call, acked, faults>>
pyvars  == <<splash, todo, pm, awake, loaded, failed, rawed>>
rtcvars == <<rtcstr, safe, asked>>
vars == <<nvsvars, pyvars, rtcvars, pc, reset, torn, acts>>

Resets == {"deepsleep", "rtcwdt", "other"}

\* powermanagement.py as it is imported, with the setting badge.sleep.
FreshPm(t) == [disabled |-> FALSE, enabled |-> FALSE, timer |-> FALSE, timeout |-> t]

Init ==
  /\ NvsInit
  /\ pc = "app_main" /\ reset \in Resets \ {"deepsleep"}
  /\ rtcstr = NoApp /\ safe = FALSE /\ asked = NoApp
  /\ splash = NoApp /\ todo = <<>> /\ pm = FreshPm(0) /\ awake = FALSE
  /\ loaded = NoApp /\ failed = FALSE /\ torn = FALSE /\ rawed = FALSE
  /\ acts = 0

Act == acts < MaxActs /\ acts' = acts + 1

-----------------------------------------------------------------------------
(* Resets. *)

HalfMixer == (store["mixer_ctl_0"] = None) # (store["mixer_ctl_1"] = None)

\* RAM is lost; RTC memory survives a wake from deep sleep only.
Restart(cause) ==
  /\ pc' = "app_main" /\ reset' = cause
  /\ splash' = NoApp /\ todo' = <<>> /\ call' = NoCall
  /\ pm' = FreshPm(0) /\ awake' = FALSE
  /\ loaded' = NoApp /\ failed' = FALSE /\ rawed' = FALSE

\* Power is lost or the chip panics, at any step.
PowerLoss ==
  /\ faults < MaxFaults /\ faults' = faults + 1
  /\ \E cause \in Resets \ {"deepsleep"} : Restart(cause)
  /\ rtcstr' = NoApp /\ safe' = FALSE /\ asked' = NoApp
  /\ torn' = (torn \/ HalfMixer)
  /\ UNCHANGED <<store, acked, acts>>

\* app_main(): safe mode if START is held, but not after a deep sleep.
app_main ==
  /\ pc = "app_main"
  /\ \E held \in BOOLEAN : safe' = (safe \/ (reset # "deepsleep" /\ held))
  /\ pc' = "boot"
  /\ UNCHANGED <<nvsvars, pyvars, rtcstr, asked, reset, torn, acts>>

\* badge_nvs_init(): an nvs partition without free pages is erased as a whole.
badge_nvs_init ==
  /\ pc = "app_main" /\ faults < MaxFaults
  /\ faults' = faults + 1
  /\ store' = [k \in Keys |-> None] /\ acked' = [k \in Keys |-> {None}]
  /\ torn' = FALSE
  /\ UNCHANGED <<call, pyvars, rtcvars, pc, reset, acts>>

-----------------------------------------------------------------------------
(* tasks/powermanagement.py: what its functions make of its variables. *)

kill(p)    == [p EXCEPT !.timer = FALSE, !.disabled = TRUE, !.enabled = FALSE]
disable(p) == kill([p EXCEPT !.disabled = TRUE, !.enabled = FALSE])
feed(p) ==
  IF p.timeout < 1 \/ p.timer THEN p ELSE [p EXCEPT !.enabled = TRUE, !.timer = TRUE]
enable(p) ==
  IF p.timeout < 1 THEN p ELSE feed([p EXCEPT !.disabled = FALSE, !.enabled = TRUE])
resume(p) == IF p.disabled /\ p.enabled THEN enable(p) ELSE p

\* The apps of the firmware that manage power feed it when they are imported.
Managed == loaded \in {Home, Launcher}

\* dashboard.launcher, and term.feedPm(), set a timeout of five minutes first.
feedPm(p) == feed([p EXCEPT !.timeout = 1])

ImportFeed == IF loaded = Home THEN feed(pm) ELSE feedPm(pm)

\* The import of such an app has not got to its feed() yet.
ToFeed == Managed /\ ~pm.enabled /\ ~pm.disabled /\ ImportFeed # pm

-----------------------------------------------------------------------------
(* boot.py. *)

\* The app to load if nobody asked for one: the splash, as far as it can be read.
Defaults ==
  IF safe THEN {[val |-> Launcher, failed |-> 0]} ELSE NvsReads("splash", Home)

\* Leaves the string in RTC memory.
boot_NoClear ==
  /\ pc = "boot"
  /\ \E default \in Defaults :
       /\ splash' = IF reset # "rtcwdt" /\ rtcstr # NoApp THEN rtcstr ELSE default.val
       /\ loaded' = IF asked # NoApp THEN asked ELSE default.val
       /\ Faults(default.failed)
  /\ pc' = IF reset = "rtcwdt" THEN "post_ota" ELSE "load"
  /\ asked' = NoApp
  /\ UNCHANGED <<store, call, acked, rtcstr, safe, todo, pm, awake, failed, rawed, reset, torn, acts>>

\* Choose the app: the one in RTC memory, which is cleared, or the splash.  A
\* reset by the RTC watchdog, (7, 0), runs post_ota.py instead of looking there.
boot ==
  /\ pc = "boot"
  /\ \E default \in Defaults :
       /\ splash' = IF reset # "rtcwdt" /\ rtcstr # NoApp THEN rtcstr ELSE default.val
       /\ loaded' = IF asked # NoApp THEN asked ELSE default.val
       /\ Faults(default.failed)
  /\ pc' = IF reset = "rtcwdt" THEN "post_ota" ELSE "load"
  /\ rtcstr' = IF reset = "rtcwdt" THEN rtcstr ELSE NoApp
  /\ asked' = NoApp
  /\ UNCHANGED <<store, call, acked, safe, todo, pm, awake, failed, rawed, reset, torn, acts>>

\* Raises the level before the settings it stands for are written.
Fixes_LevelFirst(lvl, mixer) ==
  IF lvl < 3
  THEN <<<<"fixlvl", 3>>>>
       \o (IF mixer = None THEN <<<<"mixer_ctl_0", 1>>, <<"mixer_ctl_1", 1>>>> ELSE <<>>)
  ELSE <<>>

\* The settings post_ota.py writes, in its order, for a badge of level lvl that has
\* that mixer_ctl_0.
Fixes(lvl, mixer) ==
  IF lvl < 3
  THEN (IF mixer = None THEN <<<<"mixer_ctl_0", 1>>, <<"mixer_ctl_1", 1>>>> ELSE <<>>)
       \o <<<<"fixlvl", 3>>>>
  ELSE <<>>

\* post_ota.py: read the level once, the mixer if the level is low, and go through
\* the fixes; the last one is reached only with WiFi (the apps it installs are files
\* and not modelled).
post_ota ==
  /\ pc = "post_ota"
  /\ \E lvl \in NvsReads("fixlvl", 0), mixer \in NvsReads("mixer_ctl_0", None), wifi \in BOOLEAN :
       /\ todo' = Fixes(lvl.val, mixer.val)
                   \o (IF lvl.val < 5 /\ wifi THEN <<<<"fixlvl", 5>>>> ELSE <<>>)
       /\ Faults(lvl.failed + IF lvl.val < 3 THEN mixer.failed ELSE 0)
  /\ pc' = "fix"
  /\ UNCHANGED <<store, call, acked, rtcvars, splash, pm, awake, loaded, failed, rawed, reset, torn, acts>>

fix_write ==
  /\ pc = "fix" /\ todo # <<>> /\ call.at = "idle"
  /\ call' = Call("set", {Head(todo)[1]}, Head(todo)[2])
  /\ UNCHANGED <<store, acked, faults, pyvars, rtcvars, pc, reset, torn, acts>>

\* A setter that fails raises; nothing catches it, and boot.py ends there.
fix_return ==
  /\ pc = "fix" /\ Returned
  /\ call' = NoCall
  /\ IF call.at = "ok"
     THEN todo' = Tail(todo) /\ UNCHANGED <<pc, torn, loaded>>
     ELSE todo' = <<>> /\ pc' = "repl" /\ torn' = (torn \/ HalfMixer) /\ loaded' = NoApp
  /\ UNCHANGED <<store, acked, faults, splash, pm, awake, failed, rawed, rtcvars, reset, acts>>

fix_done ==
  /\ pc = "fix" /\ todo = <<>> /\ call.at = "idle"
  /\ pc' = "load"
  /\ UNCHANGED <<nvsvars, pyvars, rtcvars, reset, torn, acts>>

\* 'shell' loads nothing; a prefix is cut off and its medium mounted, which may
\* raise.  The app meets some setting of badge.sleep and some reason to stay awake.
load ==
  /\ pc = "load"
  /\ splash' = Bare(splash)
  /\ \E t \in {0, 1} : pm' = FreshPm(t)
  /\ awake' \in BOOLEAN
  /\ \/ pc' = (IF splash = Shell THEN "repl" ELSE "import") /\ UNCHANGED loaded
     \/ splash \in Prefixed /\ pc' = "except" /\ loaded' = NoApp
  /\ UNCHANGED <<nvsvars, rtcvars, todo, failed, rawed, reset, torn, acts>>

\* __import__() returns; dashboard.home and dashboard.launcher have fed the power
\* management by then (import_feed).
import_returns ==
  /\ pc = "import" /\ call.at = "idle" /\ ~ToFeed /\ Act
  /\ pc' = "repl"
  /\ UNCHANGED <<nvsvars, pyvars, rtcvars, reset, torn>>

\* The import raises, or the user interrupts it with Ctrl-C.
import_raises ==
  /\ pc = "import" /\ call.at = "idle" /\ Act
  /\ pc' = "except" /\ failed' = TRUE
  /\ UNCHANGED <<nvsvars, rtcvars, splash, todo, pm, awake, loaded, rawed, reset, torn>>

\* Forgets the splash on a cold boot only.
except_call_Cold ==
  /\ pc = "except" /\ call.at = "idle"
  /\ \E default \in NvsReads("splash", Home) :
       /\ IF splash = default.val /\ splash # Home /\ reset # "deepsleep"
          THEN call' = Call("erase_key", {"splash"}, None) /\ UNCHANGED pc
          ELSE pc' = "repl" /\ UNCHANGED call
       /\ failed' = (failed /\ default.failed = 0)
       /\ Faults(default.failed)
  /\ UNCHANGED <<store, acked, rtcvars, splash, todo, pm, awake, loaded, rawed, reset, torn, acts>>

\* The handler of boot.py: forget a splash that has failed.  A splash that cannot
\* be read is taken for the default and stays.
except_call ==
  /\ pc = "except" /\ call.at = "idle"
  /\ \E default \in NvsReads("splash", Home) :
       /\ IF splash = default.val /\ splash # Home
          THEN call' = Call("erase_key", {"splash"}, None) /\ UNCHANGED pc
          ELSE pc' = "repl" /\ UNCHANGED call
       /\ failed' = (failed /\ default.failed = 0)
       /\ Faults(default.failed)
  /\ UNCHANGED <<store, acked, rtcvars, splash, todo, pm, awake, loaded, rawed, reset, torn, acts>>

\* The message, or the error of nvs_erase_key(): boot.py is at its end.
except_return ==
  /\ pc = "except" /\ Returned
  /\ call' = NoCall /\ pc' = "repl"
  /\ failed' = (failed /\ call.at = "ok")
  /\ UNCHANGED <<store, acked, faults, rtcvars, splash, todo, pm, awake, loaded, rawed, reset, torn, acts>>

-----------------------------------------------------------------------------
(* system.py, called by the app, by its callbacks or from the REPL. *)

Running == pc \in {"import", "repl"} /\ call.at = "idle"

\* system.start(), home(), launcher() and shell(): the string ...
start ==
  /\ Running /\ Act
  /\ \E a \in Names \cup {NoApp} : rtcstr' = a /\ asked' = a
  /\ pc' = "reboot"
  /\ UNCHANGED <<nvsvars, pyvars, safe, reset, torn>>

\* ... and reboot(): a deep sleep of 2 ms.
reboot ==
  /\ pc = "reboot"
  /\ Restart("deepsleep")
  /\ UNCHANGED <<store, acked, faults, rtcvars, torn, acts>>

\* back_button_default_action(): also while the app is on its way to start
\* another.  dashboard.home uses the button for something else.
back_button ==
  /\ Running \/ pc = "reboot"
  /\ loaded \notin {Shell, Home, NoApp} /\ Act
  /\ Restart("deepsleep")
  /\ rtcstr' = NoApp /\ asked' = NoApp
  /\ UNCHANGED <<store, acked, faults, safe, torn>>

\* sleep(): the string in RTC memory stays as it is.
wake ==
  /\ pc = "asleep"
  /\ Restart("deepsleep")
  /\ UNCHANGED <<store, acked, faults, rtcvars, torn, acts>>

\* An app or the user stores, erases or resets the splash.
app_setting ==
  /\ Running /\ Act
  /\ \/ \E a \in Apps : call' = Call("set", {"splash"}, a)
     \/ call' \in {Call(op, {"splash"}, None) : op \in {"erase_key", "erase_all"}}
  /\ failed' = FALSE
  /\ UNCHANGED <<store, acked, faults, rtcvars, splash, todo, pm, awake, loaded, rawed, pc, reset, torn>>

app_setting_done ==
  /\ pc \in {"import", "repl"} /\ Returned
  /\ call' = NoCall
  /\ UNCHANGED <<store, acked, faults, pyvars, rtcvars, pc, reset, torn, acts>>

-----------------------------------------------------------------------------
(* The power management at work. *)

SetPm(p) ==
  /\ pm' = p
  /\ UNCHANGED <<nvsvars, rtcvars, splash, todo, awake, loaded, failed, torn, reset>>

import_feed ==
  /\ pc = "import" /\ Running /\ ToFeed
  /\ SetPm(ImportFeed) /\ UNCHANGED <<pc, rawed, acts>>

\* term.menu() of dashboard.home: every key feeds; Ctrl-A goes to the raw REPL with
\* the power management disabled ...
term_key ==
  /\ pc = "import" /\ Running /\ loaded = Home /\ Act
  /\ \/ SetPm(feedPm(pm)) /\ UNCHANGED <<pc, rawed>>
     \/ SetPm(disable(feedPm(pm))) /\ pc' = "rawrepl" /\ rawed' = TRUE

\* ... where the user's code may use the module ...
rawrepl_code ==
  /\ pc = "rawrepl" /\ Act
  /\ \E p \in {feed(pm), enable(pm)} : SetPm(p)
  /\ UNCHANGED <<pc, rawed>>

\* ... and resumes it.
rawrepl_end ==
  /\ pc = "rawrepl"
  /\ pc' = "import"
  /\ SetPm(resume(pm)) /\ UNCHANGED <<rawed, acts>>

\* USB is unplugged, or the task that kept the badge awake has ended.
Unplug ==
  /\ awake /\ Act
  /\ awake' = FALSE
  /\ UNCHANGED <<nvsvars, rtcvars, splash, todo, pm, loaded, failed, rawed, pc, reset, torn>>

\* pm_task() can be called: by the timer callback, between two bytecodes.
Called == (Running \/ pc \in {"reboot", "rawrepl"}) /\ pm.timer

\* Returns nothing when the badge stays awake: virtualtimers drops the task.
pm_task_NoReturn ==
  /\ Called
  /\ IF ~pm.disabled /\ ~safe /\ ~awake
     THEN pc' = "asleep" /\ UNCHANGED pm
     ELSE pm' = [pm EXCEPT !.timer = FALSE] /\ UNCHANGED pc
  /\ UNCHANGED <<nvsvars, rtcvars, splash, todo, awake, loaded, failed, rawed, reset, torn, acts>>

\* pm_task(): sleep when nothing is due soon; otherwise its result keeps the task
\* in the list and nothing changes.  An error of onSleepCallback is caught.  The
\* callback of dashboard.launcher goes home instead.
pm_task ==
  /\ Called
  /\ ~pm.disabled /\ ~safe /\ ~awake
  /\ IF loaded = Launcher
     THEN pc' = "reboot" /\ rtcstr' = NoApp /\ asked' = NoApp
     ELSE pc' = "asleep" /\ UNCHANGED <<rtcstr, asked>>
  /\ UNCHANGED <<nvsvars, pyvars, safe, reset, torn, acts>>

-----------------------------------------------------------------------------
Nvs == (NvsStep \/ NvsFails) /\ UNCHANGED <<pyvars, rtcvars, pc, reset, torn, acts>>

BootStep == \/ app_main \/ boot \/ post_ota \/ fix_write \/ fix_return \/ fix_done
            \/ load \/ except_call \/ except_return

Next ==
  \/ Nvs \/ BootStep \/ PowerLoss \/ badge_nvs_init
  \/ import_returns \/ import_raises \/ import_feed
  \/ start \/ reboot \/ back_button \/ wake \/ app_setting \/ app_setting_done
  \/ term_key \/ rawrepl_code \/ rawrepl_end \/ Unplug \/ pm_task

\* The MicroPython task runs, a call of nvs_flash returns, and the hardware timer
\* calls the tasks; nothing is asked of user and apps.
Fairness ==
  /\ WF_vars(BootStep) /\ WF_vars(NvsStep /\ UNCHANGED <<pyvars, rtcvars, pc, reset, torn, acts>>)
  /\ WF_vars(app_setting_done) /\ WF_vars(import_feed)
  /\ WF_vars(reboot) /\ WF_vars(pm_task)

Spec == Init /\ [][Next]_vars /\ Fairness

-----------------------------------------------------------------------------
TypeOK ==
  /\ store["splash"] \in Apps \cup {None} /\ store["fixlvl"] \in {3, 5, None}
  /\ call.at \in {"idle", "open", "erase", "set", "commit", "ok", "failed"}
  /\ call.at # "idle" => pc \in {"fix", "except", "import", "repl"}
  /\ pc \in {"app_main", "boot", "post_ota", "fix", "load", "import", "except", "repl",
             "rawrepl", "reboot", "asleep"}
  /\ reset \in Resets /\ safe \in BOOLEAN /\ Len(todo) <= 4
  /\ rtcstr \in Names \cup {NoApp} /\ splash \in Names \cup {NoApp}
  /\ pm \in [disabled : BOOLEAN, enabled : BOOLEAN, timer : BOOLEAN, timeout : {0, 1}]
  /\ faults \in 0 .. MaxFaults /\ acts \in 0 .. MaxActs

\* boot.py loads the app of the last system.start() that was not revoked by the
\* back button or lost with the power, once, also if the badge went to sleep in
\* between; at every other wake it loads the splash, or dashboard.home if it cannot
\* read that (boot.py:23-33): an app that sleeps or reboots comes back only if it
\* asked for that.
StartsWhatWasAsked == pc = "import" => splash = Bare(loaded)

\* When boot.py has shown the error of an app, the next boot will not load that
\* app again as the splash (boot.py:59-60).  The exceptions are a splash that the
\* handler cannot read, which it takes for the default and leaves in place, the
\* error of nvs_erase_key(), and an app on another medium, whose prefix was cut off
\* before the names are compared.
BadSplashForgotten ==
  pc = "repl" /\ failed => NvsGet("splash", Home) # loaded \/ loaded \in Prefixed \cup {Home}

\* The setting of the mixer that post_ota.py is writing.
MixerCall == pc = "fix" /\ call.at # "idle" /\ call.keys \subseteq {"mixer_ctl_0", "mixer_ctl_1"}

\* A badge that counts as fixed has both settings of the mixer, unless power or
\* flash failed between them (post_ota.py:3-8); a badge whose level could not be read
\* is fixed once more, and lacks a setting only while that one is written.
MixerComplete ==
  store["fixlvl"] # None =>
    (store["mixer_ctl_0"] # None /\ store["mixer_ctl_1"] # None) \/ torn \/ MixerCall

\* A badge that shows dashboard.home, may sleep and has nothing to do goes to sleep
\* once it is left alone, unless the raw REPL was used (term.py:80-84): disable()
\* clears what resume() asks for.
IdleBadgeSleeps ==
  (pc = "import" /\ loaded = Home /\ pm.timeout > 0 /\ ~safe /\ ~awake)
    ~> (pc \notin {"import", "repl"} \/ rawed)
=============================================================================
