# Models of the badge firmware (HackerHotel 2019 / SHA2017 / Disobey 2019)

This directory holds TLA+ modules of the firmware's own control logic, TLC
configurations that check them on small instances, and TLAPS proofs of the
properties that matter most. `PROJECT.json` is the index: components, runs,
mutants, the map from definitions to source lines, findings, hazards, theorems.

To check a run: `tlc -config MCButtonInput.cfg MCButtonInput`.
To check the proofs of a module: `tlapm TouchInputProofs.tla`.

## 1. The system

The firmware is an ESP32 program: drivers in C (`components/badge`), an
over-the-air updater and a production test, a MicroPython port, and an
application layer in Python that is frozen into the image
(`components/micropython/modules/hackerhotel2019`). Several boards share the
code; which parts are compiled depends on the board. The default, HackerHotel
2019, has an e-ink panel, an MPR121 touch controller, one GPIO button (FLASH)
and a led bar.

Who runs concurrently:

* the MicroPython task, which makes all driver calls of an application (leds,
  power, display), one after the other;
* one FreeRTOS task of high priority per interrupting chip (MPR121, FXL6408,
  SAMD), which talks I2C because an interrupt handler cannot;
* interrupt handlers (GPIO edges), which preempt the tasks or run on the other
  core;
* the ugfx input thread, woken by the drivers;
* Python callbacks (timers, buttons), which the MicroPython scheduler runs
  between two bytecodes of the main program, one at a time, to completion;
* in updater mode, the WiFi event task and the updater's task.

### Inventory

| Component | State | Operations | Hard part | What makes it correct |
|---|---|---|---|---|
| FXL6408 expander (`badge_fxl6408.c`) | chip registers, RAM copy with an "unknown" bit, mutex | 7 setters, init, interrupt task | tasks sharing a register, failed I2C writes, ESP32 restart without chip reset | copy never hides a stale register; acknowledged pins keep their value |
| MPR121 touch (`badge_mpr121.c`) | chip status and mode, INT line, binary semaphore, previous status, gpio cache | interrupt handler, interrupt task, configure, status reads, gpio output | edges against level, retried reads, over-current path, reset during operation | no touch lost, events alternate, over-current is not the end |
| Button input (`badge_gpiobutton.c`, `badge_input.c`, `ginput_lld_toggle.c`) | remembered pin levels, bitmap, queue, pending wakeup | edge interrupt, add_event, get_event, getbits | unlocked read-modify-write from interrupt and task, full queue, notification order | consumer ends up with the buttons held |
| VSPI sharing, leds, power rail (`badge_spi.c`, `badge_leds.c`, `badge_eink_dev.c`, `badge_power.c`) | registered owner, bus, handles; rail users, cached level | enable, disable, send, panel transfer, power calls | early returns half way through a call | one device on the bus, panel always gets it, rail follows its users |
| OTA update and boot dispatch (`badge_ota.c`, `main.c`, `system.py`) | RTC bytes, event bit, HTTP buffer, lengths, partitions, boot selection | request, dispatch, connect, parse, download, switch | power loss anywhere, short reads, truncated bodies, reboot between two RTC writes | only complete images boot, only on request, always ends |
| Virtual timers (`virtualtimers.py`) | list of task dicts, hardware timer | new, update, delete, tick | ticks inside the main program's loops, callbacks that change the list being walked | no task lost, revived, doubled or overdue |
| E-ink (`badge_eink*.c`) | old and new frame, LUT, busy pin and semaphore, the panel's memories | display, greyscale, update, busy wait, LUT generation | stale edge in the semaphore, partial updates against a remembered image, greyscale in strips and shared layers, two panels | panel shows what was asked; remembered image is the shown one; no command to a busy panel; calls return |
| CPT112S (`badge_cpt112s.c`) and the expander's interrupt (`badge_fxl6408.c`) | event queue of the chip, latched status, INT, semaphore | event loop in task and in init | two readers of one queue, failed reads taken as data, interrupt enabled before init is done | each event once, in order, none left behind |
| SAMD touch (`badge_disobey_samd.c`) | touched buttons, previous state, semaphore | interrupt task | failed read taken as data | only touched buttons are pressed |
| NVS (`badge_nvs.c`) | stored settings | get, set, erase key, erase all | power loss or failure between erase, write and commit | acknowledged settings stay |
| Boot, app start, power management (`boot.py`, `post_ota.py`, `system.py`, `powermanagement.py`) | string in RTC memory, safe mode, splash, fix level; disabled, enabled, timeout, timer | boot, start, sleep, back button; enable, disable, resume, feed, kill, pm_task | memory that survives some resets, callbacks at any bytecode, flag combinations | the app asked for starts once; a failing splash is forgotten; an idle badge sleeps |
| I2C mutex | one mutex | read, write | – | taken and given inside one function; both outcomes of a transfer are in the device modules |
| Service and update-check tasks | timers, results of a web request | register, run | errors in a service | planned |
| Infrared, vibrator, redundancy codes | ring buffer, patterns | encode, decode | pure algorithms | see section 6 |
| MicroPython bindings, graphics, first-run test, sd-card | little of their own | argument conversion, I/O | none | not planned |
| Vendored libraries | – | – | – | third-party, out of scope |

Components interact by calls (leds to power to MPR121), callbacks (chip drivers
to `badge_input_add_event()`, bus owner to release function), semaphores and
queues (interrupt to task), and memory that survives a reset (RTC bytes, flash).

## 2. Modules

Each component has one module with its state, `Init`, one action per operation
or step and its properties; an `MC` module for TLC; and, where theorems are
proved, a `Proofs` module. Operators whose names carry a suffix
(`TaskRetry_GiveUp`) are deliberate defects: each property has one that breaks
it, listed under "mutants". None of them is part of a specification.

**Fxl6408Regs.** `hw` is the chip, `state`/`unknown` the RAM copy and its bit 8,
`mux` the mutex. All seven setters have the same body, so there is one setter,
in the steps Take, Compare, Write (ok or failed, with or without effect) and
Give, over the register and pin it is called for. `Restart` clears the RAM and
keeps the chip, as the commented-out software reset implies. `acked` is a
history variable: what callers were told.

**Mpr121Touch.** The chip asserts INT when a status bit changes; reading the
status releases it. Both edges latch (`intEdge`), the handler gives the semaphore
if it finds the line low. `pc` follows `badge_mpr121_intr_task()` through read,
retry, the loop over the pins and the two writes of the over-current path.
`badge_mpr121_configure()` and foreign status reads run beside it. History:
`reported` (what handlers were told), `hidden` (other code read or reset the
status first), `lost` (a write after the last over-current failed). Its definitions
`TouchInit`, `TouchNext`, `TouchSpec` and `TouchTypeOK` have names of their own
because TouchInput extends it together with ButtonInput.

**ButtonInput.** `badge_input_add_event()` is four steps (load, store, send,
notify) per writer, because `|=` and `&=` are a load and a store. The consumer
drains the queue and then reads the bitmap, rotated with the display. History:
`raced` (a store overwrote the other writer's), `unseen` (buttons already held
when `badge_gpiobutton_add()` took them for released). Any touch event that
differs from the last one for its button may come, at any time the touch task is
not inside a call (`TouchEvent`). The model starts at `ugfx.input_init()` (`boot.py:8`), which sets
`badge_input_notify`, so the test of it for NULL (`badge_input.c:87`) is left out.

**TouchInput** joins the two the way `badge.c` does for an MPR121: each touch
input has a button of its own (`ButtonOf`, `Wired`), and the step of the touch
task's loop that finds a changed pin is the call of `mpr121_event_handler()`; until
`badge_input_add_event()` has returned, the task takes no other step, while
interrupts, `badge_mpr121_configure()`, foreign reads and the input thread go on.
`TouchesAreSeen` is the promise of the whole path, from the chip's status to the
bits ginput reads.

**VspiLeds.** All calls come from one task ("We are assuming that all calls are
done from the same thread", `badge_spi.c:15`), so an action is a whole call.
The C functions are operators from a state to the set of outcomes
`[.., ok]`, composed as the C functions call each other; early returns leave the
remaining assignments undone. Constants say which calls can fail.

**OtaUpdate.** RTC bytes, dispatch, WiFi bit, and `badge_ota_task()` from the
request to the switch of the boot partition. The response is a sequence of
units (line tokens, "nl", body blocks), read in pieces of every size into a
buffer of `BufSize`; left-over data moves to the front as `memmove()` does.
Power loss, disconnects, flash errors and the back button (a deep sleep, which
keeps RTC memory) may come at any step, `MaxFaults` times. Access point and server
may answer late, wrongly, with more or less than announced, or never.

**VirtualTimers.** Task dicts are heap items, `sched` the list the global name
refers to. `timer_callback()` and everything in it is atomic for the main
program; the main program's loops in `update()` and `delete()` are not, so ticks
come between their steps. `delete()` walks the list object it found (`main.list`)
while a tick may rebind the name. `Apps` lists the kinds of applications by
their habits: tasks that end or raise, callbacks that return no number, callbacks
that delete, a main program that deletes. `Kept` is Python's `list(task for task in scheduler if ...)`, written
without recursion or operator arguments so that it can be reasoned about;
`KeptAssumption` in MCVirtualTimers lets TLC compare it with `SelectSeq` of the
standard library.

**UpdatePromise.** The abstract specification of an update: one image is
installed, a request is dropped or answered by the installation of a whole
image in one step. `OtaUpdate` instantiates it (`Promise`) with the image of the
boot partition as `installed` and a complete request as `pending`; the run checks
that every step of the detailed specification is a step of it or leaves it alone.

**EinkUpdate.** The drawing task goes through `badge_eink_update()` in five groups
of commands (LUT, new image, old image, registers, start), each behind the busy
wait in its steps: test the pin, block on the semaphore, wake up by an edge or by
the timeout. The panel is external: command 0x20 makes it busy, `RefreshDone`
applies the waveform to each pixel by its old and new bit. An image has one
pixel per line, because all operations treat the pixels of a line alike. The
waveform tables and `badge_eink_lut_conv()`/`_generate()` are operators, so that
what the driver computes decides what is shown. At the line time of normal
updates a drive of at least `Saturating` cycles, what the full and the normal
table give, saturates a pixel; a shorter one, that of the faster and fastest
tables ("needs 2 updates for full update", `badge_eink_lut.c:44`, `:52`), leaves
it `Darkened` or `Lightened`, somewhere short of black or white. At the short line
time of greyscale the drives to white add up, cycles times lines. `faint` is a
history variable: such an update was drawn since the last one that drove every
pixel to its end (LUT_FLAG_FIRST, or greyscale). `Reboot` comes
at any step; it interrupts a refresh and forgets the buffers.

**Cpt112sEvents.** The chip queues events and pulls its line low; the expander
latches the change into `status`, which is also its INT pin. The interrupt
handler gives the semaphore; `at` follows the expander's task and the task in
`badge_cpt112s_init()` through the same loop. A failed transfer may have taken
effect in the chip: a status read has cleared the status, an event read has
shifted the event out, which the driver then never sees (`dropped`). An event read
after the other task has emptied the queue is refused or gives the last event once
more. Events are numbers in the order they were made; `delivered` records who
delivered which; `deaf` records that a failed read left INT low.

**SamdTouch.** Interrupt, semaphore, status read and report of the Disobey badge,
for the run `samd_misread`.

**BadgeNvs** models the calls of `badge_nvs.c` in their steps (open, erase, write,
commit); any step may fail and leaves what was done. A read that fails gives the
default, as a missing item does (`NvsReads`, `modbadge.c:222-227`). `acked` records
what callers were told. **AppSession** extends it with everything that uses the settings and
the RTC string between a reset and a running app: `app_main()` (safe mode),
`boot.py`, `post_ota.py`, `system.py`, the power management with its callers and
the back button. An app is a name, possibly with the prefix of its medium, which
`load` cuts off. A call of `badge_nvs.c` is one bytecode, so Python callbacks come
between calls, and only power loss comes inside one. `PowerLoss` stands for any
reset that is no wake: it clears RTC memory. Histories: `asked`, `loaded` (who
is to be started), `failed`, `torn`, `rawed` name the exceptions of the
properties.

## 3. Runs

| Run | Shows |
|---|---|
| `fxl6408_regs` | ShadowCoherent, AckedPinsHold: with two tasks, two pins and failing writes the copy never hides a stale register and acknowledged pins hold, if the writes of init succeed. |
| `mpr121_touch` | NoTouchLost, EventsAlternate, TouchIsReported, OverCurrentEnds, with two pins, failing reads and writes, over-currents, resets and foreign reads. |
| `buttons` | TruthUnlessRaced, NoLostWakeup, HeldButtonsAreSeen on the HackerHotel board: FLASH beside a touch arrow button, a queue of two (so that it overflows), a display turned by three. |
| `buttons_race` (violation) | The FLASH interrupt inside the touch task's update of the bitmap is overwritten. |
| `vspi_leds` | OneOwner, EinkGetsTheBus, RailFollowsUsers, SentIsPowered with failing I2C writes (without and after effect) and a failing `spi_bus_initialize()`. |
| `ota_update` | The refinement UpdateIsAtomic (OtaUpdate implements UpdatePromise), OnlyIfAsked, OtaEnds for eleven kinds of answers, also longer or shorter than announced, and two faults. |
| `virtual_timers` | NoneOverdue and ListIsAlive (no live task lost, no dead one kept), each for the kinds of applications it holds for. |
| `virtual_timers_lost` (violation) | A task created during the main program's `delete()` disappears. |
| `eink_update` | ShownIsAsked, OldImageKnown, CommandsFindPanelReady, DrawReturns for both panels, full, partial and greyscale updates, flipped and not, with resets anywhere. |
| `cpt112s_events` | NoEventStranded, EachEventOnce, InOrderExceptInit, QueueIsEmptied with four events and three failing transfers. |
| `samd_misread` (violation) | One failed read reports every button as pressed. |
| `app_session` | AckedSettingStays, StartsWhatWasAsked, BadSplashForgotten, MixerComplete, IdleBadgeSleeps with three faults and three actions of user and apps. |

### Bounds

Two tasks and two pins are the least for one caller to disturb another's bit;
seven identical registers are reduced to those `UsedRegs` names (tasks and pins
are symmetric). Two touch pins separate "this pin" from "another pin". A queue
of two overflows with two buttons. A buffer of three units is shorter than
every good answer's head and than the longest body, so that lines straddle
reads, body data arrives with the headers and the body takes several writes; a partition of four blocks is exactly full or exceeded. Two
faults allow a failure in the recovery from another. Three timer tasks give a
task before and one behind the one whose callback changes the list, targets 0
and 2 one below and one above the period. `PosCap` stops a timer's `pos` beyond
every target, where only "greater" is ever asked.

Eight lines are the fewest for which the finest strips of greyscale (eight, at
16 initial strips and the lowest bit) are whole lines; the one image has different
bits on every line and meets every pair of an old and a new pixel with itself drawn
upside down, with the blank panel and with reset memories; the LUT
values 0, 1 and 3 of the flags stand for none given, the full table asked for (the
one case without PARTIAL) and the faster table. The normal and the fastest table
are like the full and the faster one in all that the model tells apart, which
WaveformAssumption evaluates; the proofs are for every value. Four and sixteen
layers are below and above the limits of both panels. Four touch events fill,
empty and refill the chip's queue while both readers run; three faults hit each
kind of read. An app in flash and one of the same name on the sd-card are the
least that tell a name from its stripped form; three actions let a user store a
splash, start it and see it fail, or use the raw REPL and come back; two failing
reads make `post_ota.py` write the mixer of a complete badge again, and the third
fault interrupts that.

### Fairness

Weak fairness of an interrupt handler, an interrupt task and the input thread:
interrupts preempt, the tasks have priority 10 and wait in FreeRTOS primitives.
Strong fairness of the MPR121 status read: the I2C bus may fail any number of
times, but not forever (the code retries without end). For the update: only
`app_main()` and what the updater's task does by itself (`Proceed`). Nothing is
assumed of the access point or the server, because the task waits for both without
a timeout (`badge_ota.c:333`, `:352-353`): `AwaitsNetwork` is the state of such a
wait, and OtaEnds says that an update ends unless it waits for ever in the end. A
badge whose server stalls stays in the updater until it is switched off. For the display: the
drawing task is scheduled and the panel ends every refresh (weak fairness; the
timeout of the busy wait needs none of its own). For the CPT112S: interrupt, task
and init are scheduled; faults are bounded, as the loops retry without end. For
a session: the MicroPython task runs, `nvs_flash` calls return, the hardware
timer calls the power management. The user, the apps, the chips and the server
owe nothing else; a badge at its prompt may wait for its user forever, so
`app_session` and `cpt112s_events` do not look for deadlocks.

### What the constants' boundaries stand for

`vspi_leds` leaves "add_device" out of `SpiFaults`: with it TLC refutes
EinkGetsTheBus, because a failed `spi_bus_add_device()` of the led driver
(`badge_leds.c:55`) leaves the bus initialised without a handle and the panel's
next transfer fails the assert in `badge_eink_dev.c:77`. With "initialize" the
panel takes the bus while the leds stay registered as its owner, so
OwnerRegistered, the stronger form of OneOwner, only holds without SPI faults.
With `AppPowerCalls` an application that switches the rail off behind the led
driver sends to dark leds. RailFollowsUsers is conditional on a known level: a
disable whose write reported an error after taking effect leaves the user
registered, and the next enable returns ESP_OK without a write
(`badge_power.c:144-151`).

In `virtual_timers`, NoneOverdue excludes callbacks that delete: the result is
then stored in the task that moved to the index (`virtualtimers.py:94-107`). If
tasks end and the main program deletes, a `delete()` that a tick interrupts puts
an ended task back, which is why NoneOverdue says nothing of ended tasks there.
ListIsAlive excludes a main program that deletes (`virtual_timers_lost`), and
callbacks that both end and delete tasks. That `scheduler[i]` stays inside the
list is not claimed: when tasks end or delete, a tick shortens the list under a
loop of the main program (`virtualtimers.py:58`, `:71`), or a callback under
`timer_callback()` itself, and an IndexError is raised outside the `try`. A
callback that returns None raises at the comparison (`virtualtimers.py:102`), also
outside the `try`: it is called again at every tick, and the tasks behind it in
the list get no time at all, which is why NoneOverdue excludes it.

In `cpt112s_events`, `deaf` is the exception of two properties: after a failed
status read that left INT low no edge can come any more, and the touch buttons
are dead until a restart (`badge_fxl6408.c:93`; nothing polls the pin).
InOrderExceptInit excludes the old events that init fetches: the interrupt task
can overtake it and deliver a release before its press. EachEventOnce states its
own two: an event that a failed read has shifted out is lost, because
`badge_cpt112s.c:56` reads the pin and not the event again; and an event that one
task fetched may be given once more to the other, whose read finds the queue empty.

In `app_session`, BadSplashForgotten excludes apps with a prefix: `boot.py:38-46`
cuts it off before `boot.py:59` compares, so a failing splash "sdcard app" stays,
and a failing "sdcard app" that somebody started erases a good splash "app". It
also excludes a splash that `boot.py:59` cannot read: the default is compared
instead and the failed splash stays, as it does if the erase itself fails.
MixerComplete excludes a fault between the two mixer settings (`torn`): the
next run finds the first one set and skips both (`post_ota.py:5`), for good.
AckedSettingStays ends where the next call for the key begins: between erase
and write a power loss loses the old and the new value (`badge_nvs.c:177`).
IdleBadgeSleeps excludes the raw REPL: `disable()` clears what `resume()` asks
for (`powermanagement.py:14`, `:27`), and `feed()` restarts the timer but not the
permission, so the badge stays awake until its next reset. Two more things the
model makes visible: an error in `post_ota.py` is outside the `try` of `boot.py`
and ends in a prompt without an app; and `term.feedPm()` sets a timeout of five
minutes also on a badge whose owner has switched sleeping off.

An answer of `ota_update` may announce more or less than it sends. Of a body
announced as a buffer or longer, exactly the announced blocks are written. Of a
shorter one the surplus that arrived in one buffer with the headers is written too
(`badge_ota.c:501-527` looks at the length only to decide how much more to read);
`Installed` says what an installed image can be. A real image is a thousand
buffers long.

In `eink_update` the driver never plays the second or fourth update that its
faster and fastest tables need, and a partial update drives no unchanged pixel
(`badge_eink.c:243`): a picture drawn with these tables stays faint until the next full
update, although `badge_eink_have_oldbuf` says that its image is the one shown.
ShownIsAsked and OldImageKnown are exact without such an update (`faint`); with one
they say that every pixel is right or was last driven in the right direction.

## 4. Proofs

| Module | Theorems | Inductive invariant |
|---|---|---|
| `Fxl6408Proofs` | TypeCorrect, ShadowIsCoherent, AckedPinsAreKept | Beside the two properties: a task inside a setter holds the mutex (MutexHeld), the RAM copy has every acknowledged bit even if the register is unknown (CopyHoldsAcked), and the value in flight is the copy with one bit changed (CallInFlight). Without these a writer could write back another caller's old bit. |
| `TouchInputProofs`, touch task | TouchTypes, TouchesAreNotLost, EventsDoAlternate | While the loop is at pin i, the pins below i are reported as in the new status and the others as in the old one (ReportOK); a low INT has an edge or a read ahead (LineOK); a high INT means the last status seen is the chip's, or a read is ahead (SeenOK). |
| `TouchInputProofs`, input path | InputTypes, BitmapIsTruthUnlessRaced, WakeupsAreNotLost, OneWriterIsTruth | InStep and LevelSeen say how far the bitmap and the remembered levels lag behind, by the step each writer has reached. OneWriterIsTruth adds that a loaded value is still current at the store (NoRace), which one writer guarantees. |
| `TouchInputProofs`, the board | BoardImplementsParts, TouchesReachTheUser | The invariants of both parts; that what the input path was told is what the touch task has reported (Linked); that a button held since before boot has had no interrupt (UnseenOK). |
| `VspiLedsProofs` | Invariance, OneOwnerAtATime, OwnerIsRegistered, EinkAlwaysGetsTheBus, SendsArePowered; RailInvariance, VspiTypes, RailIsShared | A bus in use has exactly its driver's handle, a led driver on the bus is the registered owner, and a registered e-ink driver is on the bus (BusOK); rail and cache agree where known (RailOK); active leds are users of the rail. Each C function has a lemma that all its outcomes keep these. Types and rail do not depend on the bus and have an invariant of their own (RailInv), which needs no assumption on what fails. |
| `OtaProofs` | UpdatesAreAskedFor, OtaTypes, AtomicUpdate | The two RTC bytes are a request somebody made or cannot be taken for one, at every restart (RtcOK). For the refinement: from the first byte on, what is in flash, in the buffer and still to be read are adjoining slices of what the server sends (StreamInv), so a full count of received blocks means the whole body, in order. |
| `Cpt112sProofs` | Invariance, TypeCorrect, EventsAreNotStranded; PlacesInvariance, EventsAreGivenOnce, EventsInOrder | The latched status is one token that is an unseen edge, the semaphore or the task before its read, never two of them (OneToken); once init is done the interrupt is unmasked, and an event that waits while the task sleeps has its status latched (Latched). Every event made is at exactly one place, the chip, a reader or the log, and fetching is in order: what waits in the chip is younger than all that was fetched, and what the interrupt task holds than all it has delivered (Places). |
| `AppSessionProofs` | SettingsStay, AskedIsStarted; SessionInvariance, SessionTypes, FailedSplashGoes, MixerIsComplete | From the erase on nothing is promised about a call's keys, and before the commit they hold its value (CallSoFar); no call survives a reset (NoCallAtReset). The RTC string is the app asked for, and empty after a watchdog reset, where `boot.py` does not look at it (AskedInv). What `post_ota.py` still has to write is one of the suffixes of its list (TodoOK), a call under way is the one its place in `boot.py` makes (CallOK), and the level is not raised before the second mixer setting is written (MixerOK). |
| `EinkProofs` | EinkInvariance, EinkTypes, PanelIsReady, OldImageIsShown, PicturesAreShown | By the command that is next, what the panel has already been sent of the update (SendOK for a drawing call, StripOK for a strip of a greyscale layer), and that a refresh goes on only where the next thing is a busy wait (WaitOK). A picture is judged by what will be visible when the refresh under way ends (Pending). During a greyscale picture a finished strip has every pixel as white as the bits of the layers drawn so far are worth, an unfinished one as the layers before (PicOK); LayerAdds, TwoLayersAdd and StripDrives are the arithmetic of one layer, of the two that are merged into one update, and of one strip. |

| `VirtualTimersProofs` | TimersInvariance, TimersTypes, TasksAreOnTime, LiveTasksAreListed | The list and the list object of an interrupted `delete()` have no task twice, and are one object only while it collects (ListOK). Unless callbacks delete, a tick in progress only sees the list grow, so its index is inside the list and on the task it has called (RangeOK), and only that task may be beyond its target (TimingOK). Ended tasks are behind the tick's index, or there because the main program deletes too (EndedOK). The live tasks are the listed ones that have not ended (AliveOK). KeptProperties says what the list comprehension keeps: the elements, their type and that none is twice. |

The theorems hold for every set of tasks, pins, buttons, apps and images, every
queue length, response, height of the panel and number of faults. Their
assumptions: Fxl6408 needs the writes of `badge_fxl6408_init()` to succeed;
OneOwnerAtATime and EinkAlwaysGetsTheBus need `spi_bus_add_device()` of the led
driver not to fail, SendsArePowered also an application that leaves the led
power to the led driver, OwnerIsRegistered no SPI fault at all; OneWriterIsTruth
a board with one kind of buttons. Each of these is the boundary at which TLC
shows the property to fail. RailIsShared, VspiTypes and the theorems about
OtaUpdate, Cpt112sEvents, AppSession and EinkUpdate have no hypothesis on what
may fail.

The two parts of the touch path rely on each other. ButtonInput was specified for
a touch writer that reports a change of a button and nothing else, and
Mpr121Touch for handlers that only listen. PartSteps proves that a step of the
board is a step, or none, of either: the call of `mpr121_event_handler()` is a
`TouchEvent` because the pin the loop is at differs from what was reported
(EventsAlternate, from ReportOK) and Linked carries that over to buttons. So
everything proved of a part holds on the board (BoardImplementsParts), and the
invariants of both, with Linked, give TouchesAreSeen, which no part can state
alone: LineOK and SeenOK bring the chip's status to `reported`, Linked to `said`,
InStep and LevelSeen to the bitmap, and NoLostWakeup to the bits ginput read. The
hypothesis `Wired` is what `badge.c:230-237` writes down.

The constants are assumed to be what the code makes of them. ConstantAssumption
(VirtualTimers) has a largest target among those that are asked for. SizeAssumption
(OtaUpdate) has a buffer no larger than the partition (1 kB and more than a
megabyte), and ResponseAssumption says what an answer of a server is: a head that
ends at its first empty line and a finite body, of any length. ValueAssumption
(AppSession) keeps the mark for "no value" apart from the values. Three
assumptions of EinkUpdate are facts about constant tables and arithmetic and not
restrictions of the code: which pixels the waveforms of both panels drive, and
which of them for how long (WaveformAssumption), which lines the loop of a layer covers and how long it
drives them (StripAssumption), and what the waveform of a grey level adds
(GreyLutAssumption). The definitions behind them are recursive functions, folds
and powers, which the provers do not evaluate; TLC evaluates all three in full at
the start of `eink_update`, over every waveform, layer, bit and count the code
can reach.

Only model-checked is all liveness (TouchIsReported, OverCurrentEnds,
HeldButtonsAreSeen, OtaEnds, DrawReturns, QueueIsEmptied, IdleBadgeSleeps), which
the provers do not handle. The other properties of the passing runs are all
theorems. Conversely TouchesAreSeen is proved and is not among the runs of section
3: the composition multiplies the states of its parts, which have runs of their
own. `MCTouchInput.cfg` checks it, with the invariants of both parts, for one
touch input without GPIO buttons (333438 states); with two touch inputs it holds
as well, in 7.7 million states.

## 5. Findings and known limits

`buttons_race`, `virtual_timers_lost` and `samd_misread` each end in a behaviour
of the code that a comment or message in the repository contradicts;
`PROJECT.json` quotes it.

Three further limits of the code show up when a constant is changed; the
properties above hold on the other side of them:

* `badge_fxl6408_init()` discards the results of its register writes
  (`badge_fxl6408.c:173-180`). With `InitMayFail = TRUE` TLC refutes
  ShadowCoherent: the copy is wrong and not marked unknown.
* The over-current path restarts the MPR121 with base-line tracking on
  (`badge_mpr121.c:169`), also if it was configured with hardcoded baselines
  (`tracking` in Mpr121Touch). OverCurrentEnds asks that the chip runs again, not how.
* `badge_leds_disable()` clears `badge_leds_active` before it asks for the power
  to be switched off (`badge_leds.c:118`): after a failure the second call
  returns ESP_OK and the leds stay powered.

## 6. Not modelled, and the plan

Data is left out where no property depends on it: colours and pixels, log
texts, TLS and certificates (success or failure), the contents of register
settings. Delays are left out; only the order of steps counts.

Not modelled because there is no control to model: the ERC12864 display and the
frame buffer, the vibrator (one loop of pin writes), graphics, the production
test's hardware checks. WiFi helpers and the package installer are sequential
scripts around network I/O. Vendored libraries (curl, libssh2, zlib, littlefs,
MicroPython itself) are third-party code and by far most of the repository's
lines; they are not this firmware's logic.

Possible next steps, in this order:

1. The composition of TouchInput for the other boards: Cpt112sEvents and
   SamdTouch as the touch writer of ButtonInput.
2. `badge_mpr121_configure_gpio()`, the service and update-check tasks on top of
   VirtualTimers, infrared decoder, redundancy codes over a small field.
