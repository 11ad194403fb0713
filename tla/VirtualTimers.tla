---------------------------- MODULE VirtualTimers ----------------------------
(***************************************************************************)
(* virtualtimers.py: one hardware timer drives a Python list of tasks.       *)
(*                                                                           *)
(* The hardware timer only schedules timer_callback(); MicroPython runs it,  *)
(* to completion, between two bytecodes of the main program.  Scheduled      *)
(* callbacks do not nest.  So timer_callback() and the task callbacks inside *)
(* it are atomic for the main program, but the main program's own loops over *)
(* the list, in update() and delete(), are not atomic for timer_callback().  *)
(*                                                                           *)
(* A task is a dict shared by reference: an item of the heap `item'.  The    *)
(* list itself is an object too: delete() iterates over the list it found    *)
(* while timer_callback() may rebind the name `scheduler' to a new one.      *)
(***************************************************************************)
EXTENDS Integers, Sequences, SequencesExt, FiniteSets

CONSTANTS
  Callbacks,   \* the callback functions of the tasks
  Items,       \* names for the dicts; bounds the number of tasks alive at once
  Targets,     \* the targets tasks ask for, in ticks (the period is one tick)
  Apps         \* kinds of applications: the subset of Habits that each has

\* What an application may do beside creating and re-arming tasks: "end", its
\* callbacks return a target < 1 or raise an exception; "none", they return None, or
\* something else that is no number; "delete", they call delete(); "main", its main
\* program calls delete().
Habits == {"end", "none", "delete", "main"}

ASSUME ConstantAssumption ==
  /\ Targets \subseteq Nat /\ Targets \ {0} # {}
  /\ \E t \in Targets : \A u \in Targets : u <= t
  /\ Apps \subseteq SUBSET Habits

period == 1

MaxTarget == CHOOSE t \in Targets : \A u \in Targets : u <= t

\* Bound: a pos beyond every target is only ever compared with a target.
PosCap == MaxTarget + 2 * period

VARIABLES
  app,     \* the habits of the application that runs
  item,    \* the dicts: callback, pos and target
  sched,   \* the list `scheduler' names
  tick,    \* timer_callback(): where it is, loop variable, length of its range,
           \*   the task it has called
  main,    \* the main program: where it is, its argument, loop variable, range,
           \*   the list object it iterates over and what it has collected
  alive    \* history: the tasks created and since then neither deleted nor ended

vars == <<app, item, sched, tick, main, alive>>

NoItem   == [cb |-> "none", pos |-> 0, target |-> 0]
IdleTick == [at |-> "idle", i |-> 0, n |-> 0, task |-> {}]
IdleMain == [at |-> "idle", cb |-> "none", i |-> 0, n |-> 0, list |-> <<>>, same |-> FALSE]

\* The tasks of the list s that are in S, in their order: list(task for task in s if ...).
Kept(s, S) ==
  LET I      == {k \in DOMAIN s : s[k] \in S}
      Nth(k) == CHOOSE j \in I : Cardinality({h \in I : h <= j}) = k
  IN  [k \in 1..Cardinality(I) |-> s[Nth(k)]]

Used == ToSet(sched) \cup ToSet(main.list)
Free == Items \ Used

Init ==
  /\ app \in Apps
  /\ item = [d \in Items |-> NoItem]
  /\ sched = <<>>
  /\ tick = IdleTick
  /\ main = IdleMain
  /\ alive = {}

-----------------------------------------------------------------------------
(* The operations on the list. *)

\* new(): append a dict with pos 0.  The list delete() iterates over grows too
\* as long as it is the same object.
New(c, t) ==
  /\ Free # {}
  /\ LET d == CHOOSE x \in Free : TRUE
     IN /\ item' = [item EXCEPT ![d] = [cb |-> c, pos |-> 0, target |-> t]]
        /\ sched' = Append(sched, d)
        /\ main' = IF main.same THEN [main EXCEPT !.list = Append(@, d)] ELSE main
        /\ alive' = (alive \cap Used) \cup {d}

\* update() run to completion: every task of that callback starts over, one that
\* ended in this very tick and is still in the list included.
Update(c, t) ==
  /\ item' = [d \in Items |-> IF d \in ToSet(sched) /\ item[d].cb = c
                              THEN [cb |-> c, pos |-> 0, target |-> t] ELSE item[d]]
  /\ alive' = alive \cup {d \in ToSet(sched) : item[d].cb = c}
  /\ UNCHANGED <<sched, main>>

\* delete() run to completion: the name is bound to a new list.
Delete(c) ==
  /\ sched' = Kept(sched, {d \in Items : item[d].cb # c})
  /\ main' = [main EXCEPT !.same = FALSE]
  /\ alive' = {d \in alive : item[d].cb # c}
  /\ UNCHANGED item

-----------------------------------------------------------------------------
(* timer_callback(). *)

TickStart ==
  /\ tick.at = "idle" /\ sched # <<>>
  /\ tick' = [at |-> "loop", i |-> 1, n |-> Len(sched), task |-> {}]
  /\ UNCHANGED <<item, sched, main, alive>>

\* scheduler[i] of a list that has become shorter: the exception leaves
\* timer_callback(), the rest of the loop and the clean-up are skipped.
TickIndexError ==
  /\ tick.at \in {"loop", "called"} /\ tick.i <= tick.n
  /\ tick.i > Len(sched)
  /\ tick' = IdleTick
  /\ UNCHANGED <<item, sched, main, alive>>

\* Compares for equality, which a target of 0 steps over.
Due_Equal(pos, target) == pos = target

\* The test of timer_callback().
Due(pos, target) == pos > target

TickAdvance ==
  /\ tick.at = "loop" /\ tick.i <= tick.n /\ tick.i <= Len(sched)
  /\ LET d == sched[tick.i]
         p == IF item[d].pos < PosCap THEN item[d].pos + period ELSE PosCap
     IN /\ item' = [item EXCEPT ![d].pos = p]
        /\ tick' = IF Due(p, item[d].target)
                   THEN [tick EXCEPT !.at = "cb", !.task = {d}]
                   ELSE [tick EXCEPT !.i = @ + 1]
  /\ UNCHANGED <<sched, main, alive>>

\* The task's callback may create, re-arm or ("delete") delete tasks.
TaskBody ==
  /\ tick.at = "cb"
  /\ tick' = [tick EXCEPT !.at = "called"]
  /\ \/ UNCHANGED <<item, sched, main, alive>>
     \/ \E c \in Callbacks, t \in Targets : New(c, t)
     \/ \E c \in Callbacks, t \in Targets : Update(c, t)
     \/ "delete" \in app /\ \E c \in Callbacks : Delete(c)

\* Applies the result without setting pos back.
TaskReturns_KeepPos ==
  /\ tick.at = "called" /\ tick.i <= Len(sched)
  /\ \E t \in Targets \ {0} : item' = [item EXCEPT ![sched[tick.i]].target = t]
  /\ tick' = [tick EXCEPT !.at = "loop", !.i = @ + 1, !.task = {}]
  /\ UNCHANGED <<sched, main, alive>>

\* The callback returned a new target.
TaskReturns ==
  /\ tick.at = "called" /\ tick.i <= Len(sched)
  /\ \E t \in Targets \ {0} :
       item' = [item EXCEPT ![sched[tick.i]].pos = 0, ![sched[tick.i]].target = t]
  /\ tick' = [tick EXCEPT !.at = "loop", !.i = @ + 1, !.task = {}]
  /\ UNCHANGED <<sched, main, alive>>

\* The callback returned less than 1, or raised: the task is disabled.
TaskEnds ==
  /\ "end" \in app
  /\ tick.at = "called" /\ tick.i <= Len(sched)
  /\ item' = [item EXCEPT ![sched[tick.i]].pos = -1, ![sched[tick.i]].target = -1]
  /\ alive' = alive \ tick.task
  /\ tick' = [tick EXCEPT !.at = "loop", !.i = @ + 1, !.task = {}]
  /\ UNCHANGED <<sched, main>>

\* The callback returned no number: the comparison raises outside the try, and the
\* exception leaves timer_callback() with the task as it is.
TaskReturnsNone ==
  /\ "none" \in app
  /\ tick.at = "called"
  /\ tick' = IdleTick
  /\ UNCHANGED <<item, sched, main, alive>>

\* Takes a task that has just started over for one that ended.
Cleaned_Positive == Kept(sched, {d \in Items : item[d].pos > 0})

\* Keeps the tasks that ended.
Cleaned_All == sched

\* The list without the tasks that ended.
Cleaned == Kept(sched, {d \in Items : item[d].pos >= 0})

TickEnd ==
  /\ tick.at = "loop" /\ tick.i > tick.n
  /\ sched' = Cleaned
  /\ main' = [main EXCEPT !.same = FALSE]
  /\ tick' = IdleTick
  /\ UNCHANGED <<item, alive>>

-----------------------------------------------------------------------------
(* The main program, and button callbacks, between two ticks. *)

Idle == tick.at = "idle" /\ main.at = "idle"

main_new ==
  /\ Idle
  /\ \E c \in Callbacks, t \in Targets : New(c, t)
  /\ UNCHANGED tick

\* feed() from a button callback, which is atomic like a task's callback: update(),
\* and new() if that found no task.
button_feed ==
  /\ tick.at = "idle"
  /\ \E c \in Callbacks, t \in Targets \ {0} :
       IF \E d \in ToSet(sched) : item[d].cb = c THEN Update(c, t) ELSE New(c, t)
  /\ UNCHANGED tick

\* delete() of the main program: search, then collect, then rebind.  n is the
\* length of the range of the search; list the object the collection runs over.
delete_start ==
  /\ Idle /\ "main" \in app
  /\ \E c \in Callbacks :
       main' = [IdleMain EXCEPT !.at = "search", !.cb = c, !.i = 1, !.n = Len(sched)]
  /\ UNCHANGED <<item, sched, tick, alive>>

delete_search ==
  /\ tick.at = "idle" /\ main.at = "search" /\ main.i <= main.n
  /\ main.i <= Len(sched)
  /\ main' = IF item[sched[main.i]].cb = main.cb
             THEN [main EXCEPT !.i = main.n + 1]
             ELSE [main EXCEPT !.i = @ + 1]
  /\ UNCHANGED <<item, sched, tick, alive>>

delete_collect ==
  /\ tick.at = "idle" /\ main.at = "search" /\ main.i > main.n
  /\ main' = [main EXCEPT !.at = "collect", !.list = sched, !.same = TRUE]
  /\ UNCHANGED <<item, sched, tick, alive>>

delete_rebind ==
  /\ tick.at = "idle" /\ main.at = "collect"
  /\ sched' = Kept(main.list, {d \in Items : item[d].cb # main.cb})
  /\ main' = IdleMain
  /\ alive' = {d \in alive : item[d].cb # main.cb}
  /\ UNCHANGED <<item, tick>>

\* update() of the main program, one iteration at a time.
update_start ==
  /\ Idle
  /\ \E c \in Callbacks :
       main' = [IdleMain EXCEPT !.at = "update", !.cb = c, !.i = 1, !.n = Len(sched)]
  /\ UNCHANGED <<item, sched, tick, alive>>

update_step ==
  /\ tick.at = "idle" /\ main.at = "update" /\ main.i <= main.n
  /\ main.i <= Len(sched)
  /\ LET d == sched[main.i]
     IN IF item[d].cb = main.cb
        THEN /\ \E t \in Targets : item' = [item EXCEPT ![d].pos = 0, ![d].target = t]
             /\ alive' = alive \cup {d}
        ELSE UNCHANGED <<item, alive>>
  /\ main' = [main EXCEPT !.i = @ + 1]
  /\ UNCHANGED <<sched, tick>>

\* scheduler[i] in a loop of update() or delete() that a tick has made too long.
main_index_error ==
  /\ tick.at = "idle" /\ main.at \in {"search", "update"} /\ main.i <= main.n
  /\ main.i > Len(sched)
  /\ main' = IdleMain
  /\ UNCHANGED <<item, sched, tick, alive>>

update_end ==
  /\ tick.at = "idle" /\ main.at = "update" /\ main.i > main.n
  /\ main' = IdleMain
  /\ UNCHANGED <<item, sched, tick, alive>>

Step ==
  \/ TickStart \/ TickIndexError \/ TickAdvance \/ TaskBody
  \/ TaskReturns \/ TaskEnds \/ TaskReturnsNone \/ TickEnd
  \/ main_new \/ button_feed
  \/ delete_start \/ delete_search \/ delete_collect \/ delete_rebind
  \/ update_start \/ update_step \/ update_end \/ main_index_error

Next == Step /\ UNCHANGED app

Spec == Init /\ [][Next]_vars

-----------------------------------------------------------------------------
(* Properties. *)

TypeOK ==
  /\ app \in Apps
  /\ \A d \in Items : /\ item[d].cb \in Callbacks \cup {"none"}
                      /\ item[d].pos \in -1 .. PosCap
                      /\ app \cap {"delete", "none"} = {} => item[d].pos < PosCap
                      /\ item[d].target \in -1 .. MaxTarget
  /\ sched \in Seq(Items)
  /\ tick.at \in {"idle", "loop", "cb", "called"}
  /\ main.at \in {"idle", "search", "collect", "update"}
  /\ alive \subseteq Items

\* The tasks have at most one of the habits that shorten the list in a tick or end
\* the tick early.
Orderly == \E habit \in {"end", "none", "delete"} : app \subseteq {habit}

(* A task that was created, and since then neither deleted nor ended by its  *)
(* own result, is still in the list: new() promises "time until callback is  *)
(* called" (virtualtimers.py:19).                                            *)
TasksAreKept == Idle => alive \subseteq ToSet(sched)

(* For applications that do not call delete() in the main program and whose  *)
(* callbacks either end or delete tasks or return no number, the list is     *)
(* exactly the live tasks: no rebinding of `scheduler' loses a task, no      *)
(* other task's result disables it, and no task that was deleted, or         *)
(* disabled because its callback raised or returned less than 1, stays to be *)
(* called again (virtualtimers.py:89-109).                                   *)
ListIsAlive == Orderly /\ Idle => ToSet(sched) = alive

(* Between ticks, outside the loops of the main program, no task is twice in *)
(* the list and none has missed its time: the next tick that takes it beyond *)
(* its target calls it.  Nor is a task in the list that has ended, unless    *)
(* the main program deletes as well.  A callback that deletes shifts the     *)
(* list under the index of timer_callback() and breaks this; one that        *)
(* returns no number is called at every tick from then on, and keeps those   *)
(* behind it from getting on (virtualtimers.py:94-104).                      *)
NoneOverdue ==
  app \cap {"delete", "none"} = {} /\ Idle =>
    /\ \A i, j \in DOMAIN sched : sched[i] = sched[j] => i = j
    /\ \A d \in ToSet(sched) :
         /\ item[d].pos <= item[d].target
         /\ {"end", "main"} \subseteq app \/ 0 <= item[d].pos

=============================================================================
