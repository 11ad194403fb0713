-------------------------- MODULE AppSessionProofs --------------------------
(***************************************************************************)
(* Proofs about AppSession and BadgeNvs, for every set of apps and media    *)
(* and every number of faults and of actions of the user.                   *)
(***************************************************************************)
EXTENDS AppSession, SequenceTheorems, TLAPS

(***************************************************************************)
(* What a call of badge_nvs.c has done so far: from the erase on nothing is *)
(* promised about its keys; before the commit they hold its value, which is *)
(* None for the two erasing calls.  Without this the commit could promise   *)
(* what is not there, and the erase could undo a promise.                   *)
(***************************************************************************)
CallShape == call = [at |-> call.at, op |-> call.op, keys |-> call.keys, val |-> call.val]

CallSoFar ==
  /\ call.at \in {"erase", "set", "commit"} => \A k \in call.keys \cap Keys : acked[k] = {}
  /\ call.at = "commit" => \A k \in call.keys \cap Keys : store[k] = call.val
  /\ call.op # "set" => call.val = None

\* No call survives a reset, so badge_nvs_init() erases under none.
NoCallAtReset == pc = "app_main" => call.at = "idle"

NvsInv == CallShape /\ CallSoFar /\ NoCallAtReset /\ AckedSettingStays

(***************************************************************************)
(* The app that is to be loaded, from the request to its import.  The string *)
(* in RTC memory is the app that was asked for, and empty after a reset by   *)
(* the RTC watchdog, where boot.py does not look at it.                      *)
(***************************************************************************)
AskedInv ==
  /\ rtcstr = asked
  /\ pc \in {"app_main", "boot"} /\ reset = "rtcwdt" => rtcstr = NoApp
  /\ pc \in {"post_ota", "fix", "load"} => splash = loaded
  /\ pc \in {"import", "rawrepl"} => splash = Bare(loaded)

(***************************************************************************)
(* post_ota.py: what is left to write, before the first setting of the      *)
(* mixer, between the two, and after them.                                  *)
(***************************************************************************)
Mixer0 == <<"mixer_ctl_0", 1>>
Mixer1 == <<"mixer_ctl_1", 1>>
Level3 == <<"fixlvl", 3>>
Level5 == <<"fixlvl", 5>>

BeforeMixer  == {<<Mixer0, Mixer1, Level3>>, <<Mixer0, Mixer1, Level3, Level5>>}
BetweenMixer == {<<Mixer1, Level3>>, <<Mixer1, Level3, Level5>>}
BehindMixer  == {<<Level3>>, <<Level3, Level5>>, <<Level5>>}

TodoOK ==
  /\ pc # "fix" => todo = <<>>
  /\ pc = "fix" => todo \in {<<>>} \cup BeforeMixer \cup BetweenMixer \cup BehindMixer

(***************************************************************************)
(* Which call of badge_nvs.c is under way, by the place boot.py is at.       *)
(***************************************************************************)
CallStates == {"idle", "open", "erase", "set", "commit", "ok", "failed"}
AtWork == call.at # "idle"

CallOK ==
  /\ call.at \in CallStates
  /\ AtWork => pc \in {"fix", "except", "import", "repl"}
  /\ AtWork /\ pc = "fix" =>
       todo # <<>> /\ call.keys = {Head(todo)[1]} /\ call.val = Head(todo)[2]
  /\ AtWork /\ pc # "fix" => call.keys = {"splash"} /\ call.val \in Apps \cup {None}
  /\ AtWork /\ pc = "except" => call.val = None
  /\ call.at \in {"commit", "ok"} => \A k \in call.keys : store[k] = call.val

(***************************************************************************)
(* The mixer: only post_ota.py itself, and what tore it, leave one setting  *)
(* without the other.  A badge that counts as fixed is written once more if *)
(* its level could not be read: each setting then gives way to its new      *)
(* value, the other one being there.                                        *)
(***************************************************************************)
Has0 == store["mixer_ctl_0"] # None
Has1 == store["mixer_ctl_1"] # None
Again == store["fixlvl"] # None /\ ~torn

MixerOK ==
  /\ Has0 # Has1 => torn \/ todo \in BeforeMixer \cup BetweenMixer
  /\ todo \in BeforeMixer /\ Again => Has1 /\ (Has0 \/ AtWork)
  /\ todo \in BetweenMixer => Has0
  /\ todo \in BetweenMixer /\ Again => Has1 \/ AtWork
  /\ todo \in BehindMixer => (Has0 /\ Has1) \/ torn
  /\ todo = <<>> /\ Again => Has0 /\ Has1

(***************************************************************************)
(* The splash after an app has raised.                                      *)
(***************************************************************************)
SplashOK ==
  /\ failed => pc \in {"except", "repl", "reboot", "asleep"}
  /\ failed /\ pc = "except" => splash = Bare(loaded)
  /\ failed /\ pc = "repl" => ~AtWork
  /\ BadSplashForgotten

SessionInv == TypeOK /\ CallShape /\ CallOK /\ TodoOK /\ MixerOK /\ SplashOK

-----------------------------------------------------------------------------
\* A call of badge_nvs.c begins.
Begins == \E op, keys, val : (op # "set" => val = None) /\ call' = Call(op, keys, val)

(***************************************************************************)
(* Every step outside badge_nvs.c leaves the flash alone and at most begins *)
(* or ends a call; badge_nvs_init() may erase all of it.                    *)
(***************************************************************************)
LEMMA StepCases ==
  ASSUME [Next]_vars
  PROVE  \/ (NvsStep \/ NvsFails) /\ UNCHANGED pc
         \/ badge_nvs_init
         \/ /\ UNCHANGED <<store, acked>>
            /\ \/ UNCHANGED call /\ (pc' = "app_main" => UNCHANGED pc)
               \/ call' = NoCall
               \/ Begins /\ pc' # "app_main"
<1>1. CASE Nvs
  BY <1>1 DEF Nvs
<1>2. CASE badge_nvs_init
  BY <1>2
<1>3. CASE PowerLoss \/ reboot \/ back_button \/ wake
  BY <1>3 DEF PowerLoss, reboot, back_button, wake, Restart
<1>4. CASE app_main \/ boot \/ post_ota \/ fix_done \/ load
  BY <1>4 DEF app_main, boot, post_ota, fix_done, load, nvsvars
<1>5. CASE fix_write
  <2>1. /\ UNCHANGED <<store, acked>> /\ pc' # "app_main"
        /\ call' = Call("set", {Head(todo)[1]}, Head(todo)[2])
    BY <1>5 DEF fix_write
  <2> QED
    BY <2>1 DEF Begins
<1>6. CASE fix_return \/ except_return \/ app_setting_done
  BY <1>6 DEF fix_return, except_return, app_setting_done
<1>7. CASE except_call
  <2>1. /\ UNCHANGED <<store, acked>> /\ pc' # "app_main"
        /\ UNCHANGED call \/ call' = Call("erase_key", {"splash"}, None)
    BY <1>7 DEF except_call
  <2> QED
    BY <2>1 DEF Begins
<1>8. CASE app_setting
  <2>1. /\ UNCHANGED <<store, acked>> /\ pc' # "app_main"
        /\ \/ \E a \in Apps : call' = Call("set", {"splash"}, a)
           \/ \E op \in {"erase_key", "erase_all"} : call' = Call(op, {"splash"}, None)
    BY <1>8 DEF app_setting, Running
  <2> QED
    BY <2>1 DEF Begins
<1>9. CASE import_returns \/ import_raises \/ start \/ Unplug \/ pm_task
  BY <1>9 DEF import_returns, import_raises, start, Unplug, pm_task, nvsvars
<1>10. CASE import_feed \/ term_key \/ rawrepl_code \/ rawrepl_end
  BY <1>10 DEF import_feed, term_key, rawrepl_code, rawrepl_end, SetPm, nvsvars
<1>11. CASE UNCHANGED vars
  BY <1>11 DEF vars, nvsvars
<1> QED
  BY <1>1, <1>2, <1>3, <1>4, <1>5, <1>6, <1>7, <1>8, <1>9, <1>10, <1>11 DEF Next, BootStep

LEMMA NvsInitInv == Init => NvsInv
  BY DEF Init, NvsInit, NoCall, NvsInv, CallShape, CallSoFar, NoCallAtReset, AckedSettingStays

(* The steps of badge_nvs.c and its callers keep the promise of every setter. *)
LEMMA NvsInvStep == ASSUME NvsInv, [Next]_vars PROVE NvsInv'
<1> USE DEF NvsInv, CallShape, CallSoFar, NoCallAtReset, AckedSettingStays
<1>1. CASE NvsOpen /\ UNCHANGED pc
  BY <1>1 DEF NvsOpen
<1>2. CASE NvsErase /\ UNCHANGED pc
  <2>1. /\ call'.at \in {"set", "commit", "failed"} /\ (call'.at = "commit" => call.op # "set")
        /\ call'.op = call.op /\ call'.keys = call.keys /\ call'.val = call.val
        /\ CallShape'
    BY <1>2 DEF NvsErase
  <2>2. \A k \in Keys : store'[k] = IF k \in call.keys THEN None ELSE store[k]
    BY <1>2 DEF NvsErase, Stored
  <2> QED
    BY <1>2, <2>1, <2>2 DEF NvsErase
<1>3. CASE NvsSet /\ UNCHANGED pc
  <2>1. \A k \in Keys : store'[k] = IF k \in call.keys THEN call.val ELSE store[k]
    BY <1>3 DEF NvsSet, Stored
  <2>2. /\ call'.at = "commit" /\ call'.op = call.op
        /\ call'.keys = call.keys /\ call'.val = call.val
        /\ CallShape'
    BY <1>3 DEF NvsSet
  <2>3. CallSoFar'
    BY <1>3, <2>1, <2>2 DEF NvsSet
  <2>4. AckedSettingStays'
    BY <1>3, <2>1 DEF NvsSet
  <2> QED
    BY <1>3, <2>2, <2>3, <2>4 DEF NvsSet
<1>4. CASE NvsCommit /\ UNCHANGED pc
  BY <1>4 DEF NvsCommit
<1>5. CASE NvsFails /\ UNCHANGED pc
  BY <1>5 DEF NvsFails
<1>6. CASE badge_nvs_init
  <2>1. \A k \in Keys : store'[k] = None /\ acked'[k] = {None}
    BY <1>6 DEF badge_nvs_init
  <2> QED
    BY <1>6, <2>1 DEF badge_nvs_init
<1>7. CASE UNCHANGED <<store, acked, call>> /\ (pc' = "app_main" => UNCHANGED pc)
  BY <1>7
<1>8. CASE UNCHANGED <<store, acked>> /\ call' = NoCall
  BY <1>8 DEF NoCall
<1>9. CASE UNCHANGED <<store, acked>> /\ Begins /\ pc' # "app_main"
  BY <1>9 DEF Begins, Call
<1> QED
  BY <1>1, <1>2, <1>3, <1>4, <1>5, <1>6, <1>7, <1>8, <1>9, StepCases DEF NvsStep

(***************************************************************************)
(* For every set of apps and number of faults, a setting keeps what the     *)
(* last successful call of badge_nvs.c stored in it until the next call for *)
(* it begins, over power losses and failures at any step.                   *)
(***************************************************************************)
THEOREM SettingsStay == Spec => []AckedSettingStays
<1>1. NvsInv /\ [Next]_vars => NvsInv'
  BY NvsInvStep
<1>2. NvsInv => AckedSettingStays
  BY DEF NvsInv
<1> QED
  BY NvsInitInv, <1>1, <1>2, PTL DEF Spec

-----------------------------------------------------------------------------
LEMMA AskedInit == Init => AskedInv
  BY DEF Init, AskedInv

(* From system.start() to the import in boot.py. *)
LEMMA AskedStep == ASSUME AskedInv, [Next]_vars PROVE AskedInv'
<1> USE DEF AskedInv
<1>1. CASE Nvs
  BY <1>1 DEF Nvs, rtcvars, pyvars
<1>2. CASE badge_nvs_init
  BY <1>2 DEF badge_nvs_init, rtcvars, pyvars
<1>3. CASE PowerLoss
  BY <1>3 DEF PowerLoss, Restart
<1>4. CASE reboot \/ wake
  BY <1>4 DEF reboot, wake, Restart, rtcvars
<1>5. CASE back_button
  BY <1>5 DEF back_button, Restart
<1>6. CASE app_main
  BY <1>6 DEF app_main, pyvars
<1>7. CASE boot
  BY <1>7 DEF boot
<1>8. CASE post_ota \/ fix_write \/ fix_return \/ fix_done
  BY <1>8 DEF post_ota, fix_write, fix_return, fix_done, rtcvars, pyvars
<1>9. CASE load
  BY <1>9 DEF load, rtcvars
<1>10. CASE except_call \/ except_return
  BY <1>10 DEF except_call, except_return, rtcvars, pyvars
<1>11. CASE import_returns \/ import_raises
  BY <1>11 DEF import_returns, import_raises, rtcvars, pyvars
<1>12. CASE start
  BY <1>12 DEF start
<1>13. CASE app_setting \/ app_setting_done
  BY <1>13 DEF app_setting, app_setting_done, rtcvars, pyvars
<1>14. CASE import_feed \/ term_key \/ rawrepl_code \/ rawrepl_end
  BY <1>14 DEF import_feed, term_key, rawrepl_code, rawrepl_end, SetPm, rtcvars
<1>15. CASE Unplug \/ pm_task
  BY <1>15 DEF Unplug, pm_task, rtcvars, pyvars
<1>16. CASE UNCHANGED vars
  BY <1>16 DEF vars, rtcvars, pyvars
<1> QED
  BY <1>1, <1>2, <1>3, <1>4, <1>5, <1>6, <1>7, <1>8, <1>9, <1>10, <1>11, <1>12, <1>13,
     <1>14, <1>15, <1>16 DEF Next, BootStep

(***************************************************************************)
(* For every set of apps and media: what boot.py imports is the app of the  *)
(* last system.start() that is still wanted, or else the splash, over every *)
(* order of resets, sleeps, back buttons and power losses.                  *)
(***************************************************************************)
THEOREM AskedIsStarted == Spec => []StartsWhatWasAsked
<1>1. AskedInv /\ [Next]_vars => AskedInv'
  BY AskedStep
<1>2. AskedInv => StartsWhatWasAsked
  BY DEF AskedInv, StartsWhatWasAsked
<1> QED
  BY AskedInit, <1>1, <1>2, PTL DEF Spec
-----------------------------------------------------------------------------
(* The settings of post_ota.py are written one after the other, in order. *)
LEMMA TodoParts ==
  /\ \A t \in BeforeMixer :
       t # <<>> /\ Len(t) <= 4 /\ Head(t) = Mixer0 /\ Tail(t) \in BetweenMixer
  /\ \A t \in BetweenMixer :
       t # <<>> /\ Len(t) <= 4 /\ Head(t) = Mixer1 /\ Tail(t) \in BehindMixer
  /\ \A t \in BehindMixer :
       /\ t # <<>> /\ Len(t) <= 4 /\ Head(t) \in {Level3, Level5}
       /\ Tail(t) \in {<<>>} \cup BehindMixer
<1>1. /\ BeforeMixer = {<<Mixer0, Mixer1, Level3>>, <<Mixer0, Mixer1, Level3, Level5>>}
      /\ BetweenMixer = {<<Mixer1, Level3>>, <<Mixer1, Level3, Level5>>}
      /\ BehindMixer = {<<Level3>>, <<Level3, Level5>>, <<Level5>>}
  BY DEF BeforeMixer, BetweenMixer, BehindMixer
<1> QED
  BY <1>1

(* The three stages are told apart by the next setting. *)
LEMMA TodoApart ==
  /\ \A t \in BeforeMixer \cup BetweenMixer \cup BehindMixer : t # <<>>
  /\ \A t \in BehindMixer : t \notin BeforeMixer \cup BetweenMixer
<1>1. Mixer0 \notin {Level3, Level5} /\ Mixer1 \notin {Level3, Level5}
  BY DEF Mixer0, Mixer1, Level3, Level5
<1> QED
  BY <1>1, TodoParts

(* One more setting behind those that are to be written (post_ota.py). *)
LEMMA OneMore ==
  ASSUME NEW S, NEW s \in Seq(S), NEW e \in S, NEW t \in Seq(S),
         Len(t) = Len(s) + 1, t[Len(s) + 1] = e, \A i \in 1 .. Len(s) : t[i] = s[i]
  PROVE  s \o <<e>> = t
<1>1. <<e>> \in Seq(S) /\ Len(<<e>>) = 1 /\ <<e>>[1] = e
  OBVIOUS
<1>2. /\ s \o <<e>> \in Seq(S)
      /\ Len(s \o <<e>>) = Len(s) + 1
      /\ \A i \in 1 .. Len(s) + 1 :
           (s \o <<e>>)[i] = IF i <= Len(s) THEN s[i] ELSE <<e>>[i - Len(s)]
  BY <1>1, ConcatProperties
<1>3. \A i \in 1 .. Len(s) + 1 : (s \o <<e>>)[i] = t[i]
  BY <1>1, <1>2
<1> QED
  BY <1>2, <1>3, SeqEqual

(* The concatenations of post_ota.py, on one and two settings. *)
LEMMA Joined ==
  ASSUME NEW a, NEW b, NEW c
  PROVE  <<a>> \o <<b>> = <<a, b>> /\ <<a, b>> \o <<c>> = <<a, b, c>>
<1>1. <<a>> \o <<b>> = <<a, b>>
  <2> DEFINE S == {a, b}
             s == <<a>>
             t == <<a, b>>
  <2>1. s \in Seq(S) /\ t \in Seq(S) /\ b \in S
    OBVIOUS
  <2>2. Len(s) = 1 /\ Len(t) = 2 /\ t[2] = b
    OBVIOUS
  <2>3. \A i \in 1 .. 1 : t[i] = s[i]
    OBVIOUS
  <2> HIDE DEF S, s, t
  <2>4. Len(t) = Len(s) + 1 /\ t[Len(s) + 1] = b /\ \A i \in 1 .. Len(s) : t[i] = s[i]
    BY <2>2, <2>3
  <2>5. s \o <<b>> = t
    BY <2>1, <2>4, OneMore
  <2> QED
    BY <2>5 DEF s, t
<1>2. <<a, b>> \o <<c>> = <<a, b, c>>
  <2> DEFINE S == {a, b, c}
             s == <<a, b>>
             t == <<a, b, c>>
  <2>1. s \in Seq(S) /\ t \in Seq(S) /\ c \in S
    OBVIOUS
  <2>2. Len(s) = 2 /\ Len(t) = 3 /\ t[3] = c
    OBVIOUS
  <2>3. \A i \in 1 .. 2 : t[i] = s[i]
    OBVIOUS
  <2> HIDE DEF S, s, t
  <2>4. Len(t) = Len(s) + 1 /\ t[Len(s) + 1] = c /\ \A i \in 1 .. Len(s) : t[i] = s[i]
    BY <2>2, <2>3
  <2>5. s \o <<c>> = t
    BY <2>1, <2>4, OneMore
  <2> QED
    BY <2>5 DEF s, t
<1> QED
  BY <1>1, <1>2

(* The same on three settings: the mixer, its level, and the level with WiFi. *)
LEMMA JoinedThree ==
  ASSUME NEW a, NEW b, NEW c, NEW d
  PROVE  <<a, b, c>> \o <<d>> = <<a, b, c, d>>
<1> DEFINE S == {a, b, c, d}
           s == <<a, b, c>>
           t == <<a, b, c, d>>
<1>1. s \in Seq(S) /\ t \in Seq(S) /\ d \in S
  OBVIOUS
<1>2. Len(s) = 3 /\ Len(t) = 4 /\ t[4] = d
  OBVIOUS
<1>3. \A i \in 1 .. 3 : t[i] = s[i]
  OBVIOUS
<1> HIDE DEF S, s, t
<1>4. Len(t) = Len(s) + 1 /\ t[Len(s) + 1] = d /\ \A i \in 1 .. Len(s) : t[i] = s[i]
  BY <1>2, <1>3
<1>5. s \o <<d>> = t
  BY <1>1, <1>4, OneMore
<1> QED
  BY <1>5 DEF s, t

(* What post_ota.py goes through, with the settings as it could read them. *)
LEMMA TodoRead ==
  ASSUME store["fixlvl"] \in {3, 5, None}, post_ota
  PROVE  \/ todo' \in BeforeMixer
         \/ Has0 /\ todo' \in BehindMixer
         \/ store["fixlvl"] # None /\ todo' \in {<<>>} \cup BehindMixer
<1>1. PICK lvl \in NvsReads("fixlvl", 0), mixer \in NvsReads("mixer_ctl_0", None), wifi \in BOOLEAN :
        todo' = Fixes(lvl.val, mixer.val)
                \o (IF lvl.val < 5 /\ wifi THEN <<<<"fixlvl", 5>>>> ELSE <<>>)
  BY DEF post_ota
<1>2. lvl.val \in {0, 3, 5} /\ (lvl.val # 0 => store["fixlvl"] # None)
  BY DEF NvsReads, NvsGet
<1>3. mixer.val # None => Has0
  BY DEF NvsReads, NvsGet, Has0
<1> DEFINE S == {Mixer0, Mixer1, Level3, Level5}
           Found == Fixes(lvl.val, mixer.val)
           Last == IF lvl.val < 5 /\ wifi THEN <<Level5>> ELSE <<>>
<1>4. /\ <<>> \in Seq(S) /\ <<Mixer0, Mixer1>> \in Seq(S)
      /\ <<Level3>> \in Seq(S) /\ <<Level5>> \in Seq(S) /\ <<Level3, Level5>> \in Seq(S)
      /\ <<Mixer0, Mixer1, Level3>> \in Seq(S) /\ <<Mixer0, Mixer1, Level3, Level5>> \in Seq(S)
      /\ Level3 \in S /\ Level5 \in S
  OBVIOUS
<1>5. <<Mixer0, Mixer1>> \o <<Level3>> = <<Mixer0, Mixer1, Level3>>
  BY Joined
<1>6. <<Mixer0, Mixer1, Level3>> \o <<Level5>> = <<Mixer0, Mixer1, Level3, Level5>>
  BY JoinedThree
<1>7. <<Level3>> \o <<Level5>> = <<Level3, Level5>>
  BY Joined
<1>8. \A s \in Seq(S) : s \o <<>> = s /\ <<>> \o s = s
  BY ConcatEmptySeq
<1>9. todo' = Found \o Last
  BY <1>1 DEF Level5
<1>10. Found = IF lvl.val < 3
               THEN (IF mixer.val = None THEN <<Mixer0, Mixer1>> ELSE <<>>) \o <<Level3>>
               ELSE <<>>
  BY DEF Fixes, Mixer0, Mixer1, Level3
<1>11. Last \in {<<>>, <<Level5>>}
  OBVIOUS
<1> HIDE DEF Found, Last, S
<1>12. CASE lvl.val = 0 /\ mixer.val = None
  <2>1. Found = <<Mixer0, Mixer1, Level3>>
    BY <1>12, <1>10, <1>5
  <2> QED
    BY <2>1, <1>9, <1>11, <1>6, <1>8, <1>4 DEF BeforeMixer
<1>13. CASE lvl.val = 0 /\ mixer.val # None
  <2>1. Found = <<Level3>>
    BY <1>13, <1>10, <1>8, <1>4
  <2> QED
    BY <1>13, <2>1, <1>3, <1>9, <1>11, <1>7, <1>8, <1>4 DEF BehindMixer
<1>14. CASE lvl.val # 0
  <2>1. Found = <<>>
    BY <1>2, <1>14, <1>10
  <2> QED
    BY <1>14, <2>1, <1>2, <1>9, <1>11, <1>8, <1>4 DEF BehindMixer
<1> QED
  BY <1>12, <1>13, <1>14
-----------------------------------------------------------------------------
(* What one call of nvs_flash inside badge_nvs.c does to the settings. *)
LEMMA FlashMoves ==
  ASSUME CallShape, CallSoFar, CallOK, NvsStep \/ NvsFails
  PROVE  /\ AtWork /\ AtWork' /\ CallShape' /\ call'.at \in CallStates
         /\ call'.keys = call.keys /\ call'.val = call.val
         /\ \A k \in Keys \ call.keys : store'[k] = store[k]
         /\ \A k \in Keys \cap call.keys : store'[k] \in {store[k], None, call.val}
         /\ call'.at \in {"commit", "ok"} =>
              \A k \in Keys \cap call.keys : store'[k] = call.val
<1> USE DEF CallShape, CallSoFar, CallOK, AtWork, CallStates
<1>1. CASE NvsOpen
  BY <1>1 DEF NvsOpen
<1>2. CASE NvsErase
  <2>1. /\ call'.at \in {"set", "commit", "failed"} /\ (call'.at = "commit" => call.op # "set")
        /\ call'.keys = call.keys /\ call'.val = call.val /\ CallShape'
    BY <1>2 DEF NvsErase
  <2>2. \A k \in Keys : store'[k] = IF k \in call.keys THEN None ELSE store[k]
    BY <1>2 DEF NvsErase, Stored
  <2> QED
    BY <1>2, <2>1, <2>2 DEF NvsErase
<1>3. CASE NvsSet
  <2>1. \A k \in Keys : store'[k] = IF k \in call.keys THEN call.val ELSE store[k]
    BY <1>3 DEF NvsSet, Stored
  <2>2. /\ call'.at = "commit" /\ call'.keys = call.keys /\ call'.val = call.val
        /\ CallShape'
    BY <1>3 DEF NvsSet
  <2> QED
    BY <1>3, <2>1, <2>2 DEF NvsSet
<1>4. CASE NvsCommit
  BY <1>4 DEF NvsCommit
<1>5. CASE NvsFails
  BY <1>5 DEF NvsFails
<1> QED
  BY <1>1, <1>2, <1>3, <1>4, <1>5 DEF NvsStep

(* The keys a call is about are settings, and it is about one of them. *)
LEMMA CallKeys ==
  ASSUME CallOK, TodoOK, AtWork
  PROVE  /\ call.keys \subseteq Keys
         /\ pc # "fix" => call.keys = {"splash"} /\ call.val \in Apps \cup {None}
         /\ pc = "fix" /\ todo \in BeforeMixer => call.keys = {"mixer_ctl_0"} /\ call.val = 1
         /\ pc = "fix" /\ todo \in BetweenMixer => call.keys = {"mixer_ctl_1"} /\ call.val = 1
         /\ pc = "fix" /\ todo \in BehindMixer => call.keys = {"fixlvl"} /\ call.val \in {3, 5}
<1>1. Mixer0[1] = "mixer_ctl_0" /\ Mixer0[2] = 1 /\ Mixer1[1] = "mixer_ctl_1" /\ Mixer1[2] = 1
  BY DEF Mixer0, Mixer1
<1>2. Level3[1] = "fixlvl" /\ Level3[2] = 3 /\ Level5[1] = "fixlvl" /\ Level5[2] = 5
  BY DEF Level3, Level5
<1>3. CASE pc # "fix"
  BY <1>3, KeyAssumption DEF CallOK
<1>4. CASE pc = "fix" /\ todo \in BeforeMixer
  <2>1. Head(todo) = Mixer0 /\ todo \notin BetweenMixer /\ todo \notin BehindMixer
    BY <1>4, <1>1, <1>2, TodoParts
  <2> QED
    BY <1>4, <2>1, <1>1, KeyAssumption DEF CallOK
<1>5. CASE pc = "fix" /\ todo \in BetweenMixer
  <2>1. Head(todo) = Mixer1 /\ todo \notin BeforeMixer /\ todo \notin BehindMixer
    BY <1>5, <1>1, <1>2, TodoParts
  <2> QED
    BY <1>5, <2>1, <1>1, KeyAssumption DEF CallOK
<1>6. CASE pc = "fix" /\ todo \in BehindMixer
  <2>1. Head(todo) \in {Level3, Level5} /\ todo \notin BeforeMixer /\ todo \notin BetweenMixer
    BY <1>6, <1>1, <1>2, TodoParts
  <2> QED
    BY <1>6, <2>1, <1>2, KeyAssumption DEF CallOK
<1> QED
  BY <1>3, <1>4, <1>5, <1>6 DEF TodoOK, CallOK

(* Which call of badge_nvs.c the badge is in, and what post_ota.py has left. *)
LEMMA CallTodoStep ==
  ASSUME SessionInv, CallSoFar, [Next]_vars
  PROVE  CallShape' /\ CallOK' /\ TodoOK'
<1> USE DEF SessionInv
<1> DEFINE Goal == CallShape' /\ CallOK' /\ TodoOK'
           Quiet == UNCHANGED <<call, todo, store>>
<1>a. CASE call' = NoCall /\ todo' = <<>> /\ pc' # "fix"
  BY <1>a DEF CallShape, CallOK, TodoOK, AtWork, CallStates, NoCall
<1>b. CASE Quiet /\ pc # "fix" /\ pc' # "fix" /\ ~AtWork
  BY <1>b DEF CallShape, CallOK, TodoOK, AtWork, CallStates
<1>c. CASE Quiet /\ UNCHANGED pc
  BY <1>c DEF CallShape, CallOK, TodoOK, AtWork, CallStates
<1>1. CASE Nvs
  <2>1. UNCHANGED <<pc, todo>>
    BY <1>1 DEF Nvs, pyvars
  <2>2. NvsStep \/ NvsFails
    BY <1>1 DEF Nvs
  <2> QED
    BY <2>1, <2>2, FlashMoves, CallKeys DEF CallOK, TodoOK, AtWork
<1>2. CASE badge_nvs_init
  BY <1>2 DEF badge_nvs_init, pyvars, CallShape, CallOK, TodoOK, AtWork, CallStates
<1>3. CASE PowerLoss \/ reboot \/ back_button \/ wake
  BY <1>3, <1>a DEF PowerLoss, reboot, back_button, wake, Restart
<1>4. CASE app_main \/ boot
  BY <1>4, <1>b DEF app_main, boot, nvsvars, pyvars, CallOK, AtWork
<1>5. CASE load
  BY <1>5, <1>b DEF load, nvsvars, CallOK, AtWork
<1>6. CASE post_ota
  <2>1. todo' \in {<<>>} \cup BeforeMixer \cup BehindMixer
    BY <1>6, TodoRead DEF TypeOK
  <2> QED
    BY <1>6, <2>1 DEF post_ota, CallShape, CallOK, TodoOK, AtWork, CallStates
<1>7. CASE fix_write
  BY <1>7 DEF fix_write, pyvars, Call, CallShape, CallOK, TodoOK, AtWork, CallStates
<1>8. CASE fix_return
  <2>1. CASE call.at = "ok"
    <3>1. todo' = Tail(todo) /\ call' = NoCall /\ pc' = "fix" /\ pc = "fix"
      BY <1>8, <2>1 DEF fix_return
    <3>2. todo # <<>>
      BY <2>1, <3>1 DEF CallOK, AtWork
    <3>3. todo' \in {<<>>} \cup BeforeMixer \cup BetweenMixer \cup BehindMixer
      BY <3>1, <3>2, TodoParts DEF TodoOK
    <3> QED
      BY <3>1, <3>3 DEF NoCall, CallShape, CallOK, TodoOK, AtWork, CallStates
  <2>2. CASE call.at # "ok"
    BY <1>8, <2>2, <1>a DEF fix_return
  <2> QED
    BY <2>1, <2>2
<1>9. CASE fix_done
  BY <1>9 DEF fix_done, nvsvars, pyvars, CallShape, CallOK, TodoOK, AtWork, CallStates
<1>10. CASE except_call
  BY <1>10 DEF except_call, pyvars, Call, CallShape, CallOK, TodoOK, AtWork, CallStates
<1>11. CASE except_return \/ app_setting_done
  <2>1. call' = NoCall /\ UNCHANGED todo /\ pc # "fix" /\ pc' # "fix"
    BY <1>11 DEF except_return, app_setting_done, pyvars
  <2> QED
    BY <2>1, <1>a DEF TodoOK
<1>12. CASE import_returns \/ import_raises \/ start
  BY <1>12, <1>b DEF import_returns, import_raises, start, Running, nvsvars, pyvars, AtWork
<1>13. CASE app_setting
  <2>1. /\ UNCHANGED <<pc, todo, store>> /\ pc \in {"import", "repl"}
        /\ \E op, a : a \in Apps \cup {None} /\ call' = Call(op, {"splash"}, a)
    BY <1>13 DEF app_setting, Running
  <2> QED
    BY <2>1 DEF Call, CallShape, CallOK, TodoOK, AtWork, CallStates
<1>14. CASE import_feed \/ rawrepl_code
  BY <1>14, <1>c DEF import_feed, rawrepl_code, SetPm, nvsvars
<1>15. CASE term_key \/ rawrepl_end
  BY <1>15, <1>b DEF term_key, rawrepl_end, Running, SetPm, nvsvars, CallOK, AtWork
<1>16. CASE Unplug
  BY <1>16, <1>c DEF Unplug, nvsvars
<1>17. CASE pm_task
  BY <1>17, <1>b DEF pm_task, Called, Running, nvsvars, pyvars, CallOK, AtWork
<1>18. CASE UNCHANGED vars
  BY <1>18, <1>c DEF vars, nvsvars, pyvars
<1> QED
  BY <1>1, <1>2, <1>3, <1>4, <1>5, <1>6, <1>7, <1>8, <1>9, <1>10, <1>11, <1>12, <1>13,
     <1>14, <1>15, <1>16, <1>17, <1>18 DEF Next, BootStep

(* A setting of the mixer is missing only where it is being written. *)
LEMMA CompleteMixer == ASSUME CallOK, TodoOK, MixerOK PROVE MixerComplete
<1> SUFFICES ASSUME Again, ~(Has0 /\ Has1) PROVE MixerCall
  BY DEF MixerComplete, Again, Has0, Has1
<1>1. todo \in BeforeMixer \cup BetweenMixer /\ AtWork /\ pc = "fix"
  BY DEF MixerOK, TodoOK, Again
<1>2. call.keys \subseteq {"mixer_ctl_0", "mixer_ctl_1"}
  BY <1>1, CallKeys
<1> QED
  BY <1>1, <1>2 DEF MixerCall, AtWork

(***************************************************************************)
(* post_ota.py raises the level behind both settings of the mixer, and a    *)
(* badge is left between them only by a fault.                              *)
(***************************************************************************)
LEMMA MixerStep ==
  ASSUME SessionInv, CallSoFar, [Next]_vars
  PROVE  MixerOK'
<1> USE DEF SessionInv
<1>a. CASE UNCHANGED <<store, torn, todo>> /\ (AtWork => AtWork')
  BY <1>a DEF MixerOK, Has0, Has1, Again
<1>b. CASE UNCHANGED <<store, torn, todo>> /\ todo = <<>>
  BY <1>b, TodoApart DEF MixerOK, Has0, Has1, Again
<1>c. CASE UNCHANGED store /\ todo' = <<>> /\ torn' = (torn \/ HalfMixer) /\ TodoOK
  <2>1. Has0 # Has1 => torn'
    BY <1>c DEF HalfMixer, Has0, Has1
  <2>2. UNCHANGED <<Has0, Has1>> /\ (Again' => Again)
    BY <1>c DEF Has0, Has1, Again
  <2>3. todo \in {<<>>} \cup BeforeMixer \cup BetweenMixer \cup BehindMixer
    BY DEF TodoOK
  <2>4. Again' => Has0 /\ Has1
    BY <2>1, <2>2, <2>3 DEF MixerOK, Again
  <2> QED
    BY <1>c, <2>1, <2>2, <2>4, TodoApart DEF MixerOK
<1>1. CASE Nvs
  <2>1. UNCHANGED <<pc, todo, torn>> /\ (NvsStep \/ NvsFails)
    BY <1>1 DEF Nvs, pyvars
  <2>2. /\ AtWork /\ AtWork'
        /\ \A k \in Keys \ call.keys : store'[k] = store[k]
        /\ \A k \in Keys \cap call.keys : store'[k] \in {store[k], None, call.val}
    BY <2>1, FlashMoves
  <2>3. CASE pc # "fix"
    <3>1. \A k \in Keys \ {"splash"} : store'[k] = store[k]
      BY <2>2, <2>3, CallKeys
    <3> QED
      BY <2>1, <2>2, <3>1, KeyAssumption DEF MixerOK, Has0, Has1, Again
  <2>4. CASE pc = "fix" /\ todo \in BeforeMixer
    <3>1. \A k \in Keys \ {"mixer_ctl_0"} : store'[k] = store[k]
      BY <2>2, <2>4, CallKeys
    <3>2. todo \notin BehindMixer /\ todo \notin BetweenMixer /\ todo # <<>>
      BY <2>4, TodoApart, TodoParts, CallKeys DEF Mixer0, Mixer1
    <3> QED
      BY <2>1, <2>2, <2>4, <3>1, <3>2, KeyAssumption DEF MixerOK, Has0, Has1, Again
  <2>5. CASE pc = "fix" /\ todo \in BetweenMixer
    <3>1. \A k \in Keys \ {"mixer_ctl_1"} : store'[k] = store[k]
      BY <2>2, <2>5, CallKeys
    <3>2. todo \notin BehindMixer /\ todo \notin BeforeMixer /\ todo # <<>>
      BY <2>5, TodoApart, TodoParts DEF Mixer0, Mixer1
    <3> QED
      BY <2>1, <2>2, <2>5, <3>1, <3>2, KeyAssumption DEF MixerOK, Has0, Has1, Again
  <2>6. CASE pc = "fix" /\ todo \in BehindMixer
    <3>1. \A k \in Keys \ {"fixlvl"} : store'[k] = store[k]
      BY <2>2, <2>6, CallKeys
    <3>2. todo \notin BeforeMixer \cup BetweenMixer /\ todo # <<>>
      BY <2>6, TodoApart
    <3> QED
      BY <2>1, <2>6, <3>1, <3>2, KeyAssumption DEF MixerOK, Has0, Has1, Again
  <2> QED
    BY <2>2, <2>3, <2>4, <2>5, <2>6 DEF CallOK, TodoOK
<1>2. CASE badge_nvs_init
  <2>1. /\ \A k \in Keys : store'[k] = None
        /\ todo' = <<>>
    BY <1>2 DEF badge_nvs_init, pyvars, TodoOK
  <2> QED
    BY <2>1, TodoApart, KeyAssumption DEF MixerOK, Has0, Has1, Again
<1>3. CASE PowerLoss
  BY <1>3, <1>c DEF PowerLoss, Restart
<1>4. CASE reboot \/ back_button \/ wake
  BY <1>4, <1>b DEF reboot, back_button, wake, Restart, Running, TodoOK
<1>5. CASE post_ota
  <2>1. UNCHANGED <<store, torn>> /\ todo = <<>>
    BY <1>5 DEF post_ota, TodoOK
  <2>2. UNCHANGED <<Has0, Has1, Again>> /\ (Has0 # Has1 => torn) /\ (Again => Has0 /\ Has1)
    BY <2>1, TodoApart DEF MixerOK, Has0, Has1, Again
  <2>3. \/ todo' \in BeforeMixer
        \/ Has0 /\ todo' \in BehindMixer
        \/ store["fixlvl"] # None /\ todo' \in {<<>>} \cup BehindMixer
    BY <1>5, TodoRead DEF TypeOK
  <2>4. CASE todo' \in BeforeMixer
    <3>1. todo' \notin BehindMixer /\ todo' \notin BetweenMixer /\ todo' # <<>>
      BY <2>4, TodoApart, TodoParts DEF Mixer0, Mixer1
    <3> QED
      BY <2>2, <2>4, <3>1 DEF MixerOK
  <2>5. CASE todo' \in BehindMixer /\ (Has0 \/ store["fixlvl"] # None)
    <3>1. todo' \notin BeforeMixer \cup BetweenMixer /\ todo' # <<>>
      BY <2>5, TodoApart
    <3> QED
      BY <2>1, <2>2, <2>5, <3>1 DEF MixerOK, Again
  <2>6. CASE todo' = <<>>
    BY <2>1, <2>6, <1>b
  <2> QED
    BY <2>3, <2>4, <2>5, <2>6
<1>6. CASE fix_return
  <2>1. CASE call.at = "ok"
    <3>1. todo' = Tail(todo) /\ UNCHANGED <<store, torn>> /\ pc = "fix" /\ AtWork
      BY <1>6, <2>1 DEF fix_return, AtWork
    <3>2. UNCHANGED <<Has0, Has1, Again>> /\ \A k \in call.keys : store[k] = call.val
      BY <2>1, <3>1 DEF CallOK, Has0, Has1, Again
    <3>3. CASE todo \in BeforeMixer
      <4>1. call.keys = {"mixer_ctl_0"} /\ call.val = 1
        BY <3>1, <3>3, CallKeys
      <4>2. Has0
        BY <3>2, <4>1, ValueAssumption DEF Has0
      <4>3. todo' \in BetweenMixer /\ todo' \notin BeforeMixer /\ todo' \notin BehindMixer
        BY <3>1, <3>3, TodoParts DEF Mixer0, Mixer1, Level3, Level5
      <4>4. Again => Has1
        BY <3>3 DEF MixerOK
      <4> QED
        BY <3>2, <4>2, <4>3, <4>4, TodoApart DEF MixerOK
    <3>4. CASE todo \in BetweenMixer
      <4>1. call.keys = {"mixer_ctl_1"} /\ call.val = 1
        BY <3>1, <3>4, CallKeys
      <4>2. Has0 /\ Has1
        BY <3>2, <3>4, <4>1, ValueAssumption DEF Has1, MixerOK
      <4>3. todo' \in BehindMixer /\ todo' \notin BeforeMixer \cup BetweenMixer
        BY <3>1, <3>4, TodoParts, TodoApart
      <4> QED
        BY <3>2, <4>2, <4>3 DEF MixerOK
    <3>5. CASE todo \in BehindMixer
      <4>1. /\ todo \notin BeforeMixer \cup BetweenMixer
            /\ todo' \in {<<>>} \cup BehindMixer /\ todo' \notin BeforeMixer \cup BetweenMixer
        BY <3>1, <3>5, TodoParts, TodoApart
      <4>2. UNCHANGED torn /\ (Has0 # Has1 => torn) /\ ((Has0 /\ Has1) \/ torn)
        BY <3>1, <3>5, <4>1 DEF MixerOK
      <4> QED
        BY <3>2, <4>1, <4>2 DEF MixerOK, Again
    <3> QED
      BY <3>1, <3>3, <3>4, <3>5 DEF CallOK, TodoOK
  <2>2. CASE call.at # "ok"
    BY <1>6, <2>2, <1>c DEF fix_return
  <2> QED
    BY <2>1, <2>2
<1>7. CASE app_main \/ boot \/ load \/ except_call \/ except_return
  <2>1. UNCHANGED <<store, torn, todo>> /\ pc # "fix"
    BY <1>7 DEF app_main, boot, load, except_call, except_return, nvsvars, pyvars
  <2> QED
    BY <2>1, <1>b DEF TodoOK
<1>8. CASE fix_write \/ fix_done
  <2>1. UNCHANGED <<store, torn, todo>> /\ ~AtWork
    BY <1>8 DEF fix_write, fix_done, nvsvars, pyvars, AtWork
  <2> QED
    BY <2>1, <1>a
<1>9. CASE import_returns \/ import_raises \/ start \/ app_setting \/ app_setting_done
  <2>1. UNCHANGED <<store, torn, todo>> /\ pc # "fix"
    BY <1>9 DEF import_returns, import_raises, start, app_setting, app_setting_done, Running,
                nvsvars, pyvars
  <2> QED
    BY <2>1, <1>b DEF TodoOK
<1>10. CASE import_feed \/ term_key \/ rawrepl_code \/ rawrepl_end \/ Unplug \/ pm_task
  <2>1. UNCHANGED <<store, torn, todo, call>>
    BY <1>10
       DEF import_feed, term_key, rawrepl_code, rawrepl_end, Unplug, pm_task, SetPm, nvsvars, pyvars
  <2> QED
    BY <2>1, <1>a DEF AtWork
<1>11. CASE UNCHANGED vars
  BY <1>11, <1>a DEF vars, nvsvars, pyvars, AtWork
<1> QED
  BY <1>1, <1>2, <1>3, <1>4, <1>5, <1>6, <1>7, <1>8, <1>9, <1>10, <1>11 DEF Next, BootStep

(* The name boot.py compares is that of the app, but for a prefix it has cut off. *)
LEMMA BareName == \A a : a \notin Prefixed => Bare(a) = a
  BY DEF Bare, Prefixed

(***************************************************************************)
(* From the error of an app to the REPL (boot.py:50-60): the splash is left *)
(* alone only if it is not the app that failed.                             *)
(***************************************************************************)
LEMMA SplashStep ==
  ASSUME SessionInv, AskedInv, CallSoFar, [Next]_vars
  PROVE  SplashOK'
<1> USE DEF SessionInv
<1>a. CASE ~failed'
  BY <1>a DEF SplashOK, BadSplashForgotten
<1>1. CASE Nvs
  <2>1. UNCHANGED <<pc, failed, splash, loaded>> /\ (NvsStep \/ NvsFails)
    BY <1>1 DEF Nvs, pyvars
  <2>2. AtWork
    BY <2>1, FlashMoves
  <2> QED
    BY <2>1, <2>2 DEF SplashOK, BadSplashForgotten, CallOK
<1>2. CASE badge_nvs_init
  BY <1>2 DEF badge_nvs_init, pyvars, SplashOK, BadSplashForgotten
<1>3. CASE PowerLoss \/ reboot \/ back_button \/ wake
  BY <1>3, <1>a DEF PowerLoss, reboot, back_button, wake, Restart
<1>4. CASE app_main \/ boot \/ load \/ post_ota \/ fix_write \/ fix_return \/ fix_done
  <2>1. pc \notin {"except", "repl", "reboot", "asleep"} /\ UNCHANGED failed
    BY <1>4 DEF app_main, boot, load, post_ota, fix_write, fix_return, fix_done, pyvars
  <2> QED
    BY <2>1, <1>a DEF SplashOK
<1>5. CASE import_returns \/ import_feed \/ term_key \/ rawrepl_code \/ rawrepl_end
  <2>1. pc \notin {"except", "repl", "reboot", "asleep"} /\ UNCHANGED failed
    BY <1>5 DEF import_returns, import_feed, term_key, rawrepl_code, rawrepl_end, SetPm, pyvars
  <2> QED
    BY <2>1, <1>a DEF SplashOK
<1>6. CASE import_raises
  BY <1>6 DEF import_raises, AskedInv, SplashOK, BadSplashForgotten
<1>7. CASE except_call
  <2>1. PICK default \in NvsReads("splash", Home) :
          /\ IF splash = default.val /\ splash # Home
             THEN call' = Call("erase_key", {"splash"}, None) /\ UNCHANGED pc
             ELSE pc' = "repl" /\ UNCHANGED call
          /\ failed' = (failed /\ default.failed = 0)
    BY <1>7 DEF except_call
  <2>2. /\ UNCHANGED <<store, splash, loaded>> /\ pc = "except" /\ ~AtWork
        /\ (failed' => failed) /\ (failed' => default.val = NvsGet("splash", Home))
    <3>1. default.failed = 0 => default.val = NvsGet("splash", Home)
      BY DEF NvsReads
    <3>2. (failed' => failed) /\ (failed' => default.failed = 0)
      BY <2>1
    <3>3. UNCHANGED <<store, splash, loaded>> /\ pc = "except" /\ ~AtWork
      BY <1>7 DEF except_call, AtWork
    <3> QED
      BY <3>1, <3>2, <3>3
  <2>3. CASE pc' = "except"
    BY <2>2, <2>3 DEF SplashOK, BadSplashForgotten
  <2>4. CASE pc' # "except"
    <3>1. pc' = "repl" /\ ~AtWork' /\ (splash # default.val \/ splash = Home)
      BY <2>1, <2>2, <2>4 DEF AtWork
    <3>2. failed => loaded \in Prefixed \/ splash = loaded
      BY <2>2, BareName DEF SplashOK
    <3> QED
      BY <2>2, <3>1, <3>2 DEF SplashOK, BadSplashForgotten, NvsGet
  <2> QED
    BY <2>3, <2>4
<1>8. CASE except_return
  <2>1. CASE call.at = "ok"
    <3>1. store["splash"] = None
      BY <1>8, <2>1 DEF except_return, CallOK, AtWork
    <3>2. pc' = "repl" /\ UNCHANGED <<store, loaded>> /\ call' = NoCall
      BY <1>8, <2>1 DEF except_return
    <3> QED
      BY <3>1, <3>2 DEF SplashOK, BadSplashForgotten, NvsGet, AtWork, NoCall
  <2>2. CASE call.at # "ok"
    BY <1>8, <2>2, <1>a DEF except_return
  <2> QED
    BY <2>1, <2>2
<1>9. CASE start \/ pm_task
  BY <1>9 DEF start, pm_task, Running, Called, pyvars, SplashOK, BadSplashForgotten
<1>10. CASE app_setting
  BY <1>10, <1>a DEF app_setting
<1>11. CASE app_setting_done
  <2>1. ~failed
    BY <1>11 DEF app_setting_done, Returned, SplashOK, AtWork
  <2> QED
    BY <1>11, <2>1, <1>a DEF app_setting_done, pyvars
<1>12. CASE Unplug \/ UNCHANGED vars
  <2>1. UNCHANGED <<pc, failed, splash, loaded, store, call>>
    BY <1>12 DEF Unplug, vars, nvsvars, pyvars
  <2> QED
    BY <2>1 DEF SplashOK, BadSplashForgotten, NvsGet, AtWork
<1> QED
  BY <1>1, <1>2, <1>3, <1>4, <1>5, <1>6, <1>7, <1>8, <1>9, <1>10, <1>11, <1>12
     DEF Next, BootStep

-----------------------------------------------------------------------------
PmType == [disabled : BOOLEAN, enabled : BOOLEAN, timer : BOOLEAN, timeout : {0, 1}]

(* The functions of powermanagement.py keep its variables within their types. *)
LEMMA PmTypes ==
  /\ \A t \in {0, 1} : FreshPm(t) \in PmType
  /\ \A p \in PmType :
       /\ feed(p) \in PmType /\ feedPm(p) \in PmType /\ enable(p) \in PmType
       /\ disable(p) \in PmType /\ resume(p) \in PmType
<1>1. \A t \in {0, 1} : FreshPm(t) \in PmType
  BY DEF FreshPm, PmType
<1>2. \A p \in PmType : feed(p) \in PmType
  BY DEF feed, PmType
<1>3. \A p \in PmType : [p EXCEPT !.timeout = 1] \in PmType
  BY DEF PmType
<1>4. \A p \in PmType : [p EXCEPT !.disabled = FALSE, !.enabled = TRUE] \in PmType
  BY DEF PmType
<1>5. \A p \in PmType : disable(p) \in PmType
  BY DEF disable, kill, PmType
<1>6. \A p \in PmType : feedPm(p) \in PmType
  BY <1>2, <1>3 DEF feedPm
<1>7. \A p \in PmType : enable(p) \in PmType
  BY <1>2, <1>4 DEF enable
<1>8. \A p \in PmType : resume(p) \in PmType
  BY <1>7 DEF resume
<1> QED
  BY <1>1, <1>2, <1>5, <1>6, <1>7, <1>8

(* The faults and the actions of the user are counted up to their bounds. *)
LEMMA SessionCounts ==
  ASSUME faults \in 0 .. MaxFaults, acts \in 0 .. MaxActs, [Next]_vars
  PROVE  faults' \in 0 .. MaxFaults /\ acts' \in 0 .. MaxActs
<1> USE FaultAssumption, AppAssumption
<1>1. /\ \E n \in 0 .. 2 : faults + n <= MaxFaults /\ faults' = faults + n
      /\ acts' = acts \/ Act
  <2>1. CASE Nvs
    BY <2>1 DEF Nvs, NvsStep, NvsOpen, NvsErase, NvsSet, NvsCommit, NvsFails
  <2>2. CASE PowerLoss \/ badge_nvs_init \/ reboot \/ back_button \/ wake
    BY <2>2 DEF PowerLoss, badge_nvs_init, reboot, back_button, wake
  <2>3. CASE boot \/ post_ota \/ except_call
    <3>1. \E n \in 0 .. 2 : Faults(n)
      BY <2>3 DEF boot, post_ota, except_call, Defaults, NvsReads
    <3> QED
      BY <2>3, <3>1 DEF boot, post_ota, except_call, Faults
  <2>7. CASE app_main \/ fix_write \/ fix_return \/ fix_done \/ load \/ except_return
    BY <2>7 DEF app_main, fix_write, fix_return, fix_done, load, except_return, nvsvars
  <2>4. CASE import_returns \/ import_raises \/ start \/ app_setting \/ app_setting_done
    BY <2>4 DEF import_returns, import_raises, start, app_setting, app_setting_done, nvsvars
  <2>5. CASE import_feed \/ term_key \/ rawrepl_code \/ rawrepl_end \/ Unplug \/ pm_task
    BY <2>5 DEF import_feed, term_key, rawrepl_code, rawrepl_end, Unplug, pm_task, SetPm, nvsvars
  <2>6. CASE UNCHANGED vars
    BY <2>6 DEF vars, nvsvars
  <2> QED
    BY <2>1, <2>2, <2>3, <2>4, <2>5, <2>6, <2>7 DEF Next, BootStep
<1>2. faults' \in 0 .. MaxFaults
  BY <1>1
<1>3. acts' \in 0 .. MaxActs
  BY <1>1 DEF Act
<1> QED
  BY <1>2, <1>3

(* What the settings and the variables of boot.py and of the RTC memory hold. *)
SettingTypes == store["splash"] \in Apps \cup {None} /\ store["fixlvl"] \in {3, 5, None}
BootTypes ==
  /\ pc \in {"app_main", "boot", "post_ota", "fix", "load", "import", "except", "repl",
             "rawrepl", "reboot", "asleep"}
  /\ reset \in Resets /\ safe \in BOOLEAN
  /\ rtcstr \in Names \cup {NoApp} /\ splash \in Names \cup {NoApp}
  /\ pm \in PmType

(* Only the calls of badge_nvs.c write settings, each its own kind of value. *)
LEMMA SettingTypesStep ==
  ASSUME SessionInv, CallSoFar, [Next]_vars
  PROVE  SettingTypes'
<1> USE DEF SessionInv
<1>1. CASE (NvsStep \/ NvsFails) /\ UNCHANGED pc
  <2>1. /\ AtWork
        /\ \A k \in Keys \ call.keys : store'[k] = store[k]
        /\ \A k \in Keys \cap call.keys : store'[k] \in {store[k], None, call.val}
    BY <1>1, FlashMoves
  <2>2. \/ call.keys = {"splash"} /\ call.val \in Apps \cup {None}
        \/ call.keys \in {{"mixer_ctl_0"}, {"mixer_ctl_1"}}
        \/ call.keys = {"fixlvl"} /\ call.val \in {3, 5}
    BY <2>1, CallKeys DEF CallOK, TodoOK
  <2> QED
    BY <2>1, <2>2, KeyAssumption DEF SettingTypes, TypeOK
<1>2. CASE badge_nvs_init
  <2>1. \A k \in Keys : store'[k] = None
    BY <1>2 DEF badge_nvs_init
  <2> QED
    BY <2>1, KeyAssumption DEF SettingTypes
<1>3. CASE UNCHANGED store
  BY <1>3 DEF SettingTypes, TypeOK
<1> QED
  BY <1>1, <1>2, <1>3, StepCases

(* The names boot.py and system.py hand on are names of apps. *)
LEMMA BootTypesStep ==
  ASSUME SessionInv, [Next]_vars
  PROVE  BootTypes'
<1>0. BootTypes /\ SettingTypes
  BY DEF SessionInv, TypeOK, BootTypes, SettingTypes, PmType
<1> USE <1>0 DEF BootTypes
<1>1. CASE Nvs \/ badge_nvs_init
  BY <1>1 DEF Nvs, badge_nvs_init, pyvars, rtcvars
<1>2. CASE PowerLoss \/ reboot \/ back_button \/ wake
  <2>1. /\ pc' = "app_main" /\ reset' \in Resets /\ splash' = NoApp /\ pm' = FreshPm(0)
    BY <1>2 DEF PowerLoss, reboot, back_button, wake, Restart, Resets
  <2>2. safe' \in BOOLEAN /\ rtcstr' \in Names \cup {NoApp}
    BY <1>2 DEF PowerLoss, reboot, back_button, wake, rtcvars
  <2> QED
    BY <2>1, <2>2, PmTypes
<1>3. CASE app_main
  BY <1>3 DEF app_main, pyvars
<1>4. CASE boot
  <2>1. \A default \in Defaults : default.val \in Names
    BY DEF Defaults, NvsReads, NvsGet, Names, Firmware, SettingTypes
  <2> QED
    BY <1>4, <2>1 DEF boot
<1>5. CASE post_ota \/ fix_write \/ fix_done \/ except_call \/ except_return
  BY <1>5 DEF post_ota, fix_write, fix_done, except_call, except_return, rtcvars, pyvars
<1>6. CASE fix_return
  BY <1>6 DEF fix_return, rtcvars
<1>7. CASE load
  <2>1. Bare(splash) \in Names \cup {NoApp}
    BY AppAssumption DEF Bare, Names
  <2>2. pm' \in PmType
    BY <1>7, PmTypes DEF load
  <2> QED
    BY <1>7, <2>1, <2>2 DEF load, rtcvars
<1>8. CASE import_returns \/ import_raises \/ start \/ app_setting \/ app_setting_done
  BY <1>8 DEF import_returns, import_raises, start, app_setting, app_setting_done,
              rtcvars, pyvars
<1>9. CASE import_feed \/ term_key \/ rawrepl_code \/ rawrepl_end
  <2>1. pm' \in PmType
    <3>1. ImportFeed \in PmType
      BY PmTypes DEF ImportFeed
    <3> QED
      BY <1>9, <3>1, PmTypes DEF import_feed, term_key, rawrepl_code, rawrepl_end, SetPm
  <2> QED
    BY <1>9, <2>1 DEF import_feed, term_key, rawrepl_code, rawrepl_end, SetPm, rtcvars
<1>10. CASE Unplug \/ pm_task
  BY <1>10 DEF Unplug, pm_task, rtcvars, pyvars
<1>11. CASE UNCHANGED vars
  BY <1>11 DEF vars, rtcvars, pyvars
<1> QED
  BY <1>1, <1>2, <1>3, <1>4, <1>5, <1>6, <1>7, <1>8, <1>9, <1>10, <1>11 DEF Next, BootStep

(* A badge that is switched on for the first time, with empty settings. *)
LEMMA SessionInit == Init => SessionInv
<1> SUFFICES ASSUME Init PROVE SessionInv
  OBVIOUS
<1>1. store["splash"] = None /\ store["fixlvl"] = None /\ store["mixer_ctl_0"] = None
  BY KeyAssumption DEF Init, NvsInit
<1>2. pm \in PmType
  BY PmTypes DEF Init
<1>3. TypeOK
  <2>1. Len(todo) <= 4
    BY DEF Init
  <2>2. faults \in 0 .. MaxFaults /\ acts \in 0 .. MaxActs
    BY FaultAssumption, AppAssumption DEF Init, NvsInit
  <2>3. reset \in Resets /\ safe \in BOOLEAN /\ pc = "app_main" /\ call.at = "idle"
    BY DEF Init, NvsInit, NoCall
  <2>4. rtcstr \in Names \cup {NoApp} /\ splash \in Names \cup {NoApp}
    BY DEF Init
  <2> QED
    BY <1>1, <1>2, <2>1, <2>2, <2>3, <2>4 DEF TypeOK, PmType
<1>4. CallShape /\ CallOK /\ TodoOK
  BY DEF Init, NvsInit, NoCall, CallShape, CallOK, TodoOK, AtWork, CallStates
<1>5. MixerOK
  BY <1>1, KeyAssumption, TodoParts DEF Init, NvsInit, MixerOK, Has0, Has1, Again
<1>6. SplashOK
  BY DEF Init, SplashOK, BadSplashForgotten
<1> QED
  BY <1>3, <1>4, <1>5, <1>6 DEF SessionInv

(* Every step of boot.py, of the apps and of badge_nvs.c keeps the invariant. *)
LEMMA SessionStep ==
  ASSUME SessionInv, AskedInv, NvsInv, [Next]_vars
  PROVE  SessionInv'
<1>1. CallSoFar
  BY DEF NvsInv
<1>2. CallShape' /\ CallOK' /\ TodoOK'
  BY <1>1, CallTodoStep
<1>3. Len(todo') <= 4
  <2>1. Len(<<>>) <= 4
    OBVIOUS
  <2> QED
    BY <1>2, <2>1, TodoParts DEF TodoOK
<1>4. faults' \in 0 .. MaxFaults /\ acts' \in 0 .. MaxActs
  BY SessionCounts DEF SessionInv, TypeOK
<1>5. TypeOK'
  BY <1>1, <1>2, <1>3, <1>4, SettingTypesStep, BootTypesStep
     DEF TypeOK, SettingTypes, BootTypes, PmType, CallOK, AtWork, CallStates
<1> QED
  BY <1>1, <1>2, <1>5, MixerStep, SplashStep DEF SessionInv

(***************************************************************************)
(* The inductive invariant of the session: the call under way, what         *)
(* post_ota.py has left, the mixer, the splash and the app that was asked   *)
(* for, over every order of boots, sleeps, faults and actions of the user.  *)
(***************************************************************************)
THEOREM SessionInvariance == Spec => [](SessionInv /\ AskedInv /\ NvsInv)
<1>1. Init => SessionInv /\ AskedInv /\ NvsInv
  BY SessionInit, AskedInit, NvsInitInv
<1>2. SessionInv /\ AskedInv /\ NvsInv /\ [Next]_vars => (SessionInv /\ AskedInv /\ NvsInv)'
  BY SessionStep, AskedStep, NvsInvStep
<1> QED
  BY <1>1, <1>2, PTL DEF Spec

(***************************************************************************)
(* The types of the session's state for every set of apps and media: every  *)
(* name handed from system.start() through RTC memory, or from the settings,*)
(* to boot.py is that of an app, and no call of badge_nvs.c is under way    *)
(* while the badge sleeps or reboots.                                       *)
(***************************************************************************)
THEOREM SessionTypes == Spec => []TypeOK
<1>1. SessionInv => TypeOK
  BY DEF SessionInv
<1> QED
  BY SessionInvariance, <1>1, PTL

(***************************************************************************)
(* An app that has failed is not the splash of the next boot (boot.py:59-60)*)
(* however the badge got to it, unless the handler could not read or erase  *)
(* the splash or the app is on another medium.                              *)
(***************************************************************************)
THEOREM FailedSplashGoes == Spec => []BadSplashForgotten
<1>1. SessionInv => BadSplashForgotten
  BY DEF SessionInv, SplashOK
<1> QED
  BY SessionInvariance, <1>1, PTL

(***************************************************************************)
(* post_ota.py (lines 3-8) never counts a badge as fixed that lacks a       *)
(* setting of the mixer it is not just writing, unless a fault came between *)
(* the two, over any number of updates, power losses, failing reads and     *)
(* failing writes.                                                          *)
(***************************************************************************)
THEOREM MixerIsComplete == Spec => []MixerComplete
<1>1. SessionInv => MixerComplete
  BY CompleteMixer DEF SessionInv
<1> QED
  BY SessionInvariance, <1>1, PTL
=============================================================================
