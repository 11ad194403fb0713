---------------------------- MODULE Cpt112sProofs ----------------------------
(***************************************************************************)
(* Proofs about Cpt112sEvents, for every number of events and of failing    *)
(* transfers.                                                               *)
(***************************************************************************)
EXTENDS Cpt112sEvents, Integers, SequenceTheorems, FiniteSetTheorems, TLAPS

(***************************************************************************)
(* The inductive invariant.  A reader that is about to deliver holds an     *)
(* event, and one that goes for an event has seen the line low.  The        *)
(* latched status travels to the interrupt task as one token: an edge the   *)
(* handler has not seen, then the semaphore, then the task in front of its  *)
(* status read, never two of them, until a failed status read leaves INT    *)
(* low.  So an event that waits while the task sleeps has its status        *)
(* latched, once the interrupt is unmasked and badge_cpt112s_init() is      *)
(* done.                                                                    *)
(***************************************************************************)
HoldsEvent ==
  /\ Len(queue) <= made
  /\ \A r \in Readers : at[r] = "deliver" => ev[r] \in 1..MaxEvents
  /\ \A r \in Readers : at[r] = "event" => made > 0

OneToken ==
  ~deaf => /\ status <=> (edge \/ trigger \/ at["task"] = "status")
           /\ edge => ~trigger /\ at["task"] # "status"
           /\ trigger => at["task"] # "status"

Unmasked == at["main"] \in {"input", "event", "deliver", "done"} => unmasked

Latched ==
  ~deaf /\ queue # <<>> /\ at["task"] = "take" /\ at["main"] = "done" => status

IInv == TypeOK /\ HoldsEvent /\ OneToken /\ Unmasked /\ Latched

-----------------------------------------------------------------------------
(* Every step is one of these. *)
LEMMA NextCases ==
  ASSUME [Next]_vars
  PROVE  \/ Touch \/ IntrHandler \/ Take \/ ReadStatus \/ ReadStatusFails
         \/ SetDefault \/ SetEnable \/ UNCHANGED vars
         \/ \E r \in Readers : \/ GetInput(r) \/ GetInputFails(r) \/ ReadEvent(r)
                               \/ ReadNoEvent(r) \/ ReadEventFails(r) \/ Deliver(r)
  BY DEF Next, TaskStep, MainStep, LoopStep, Readers

(* badge_cpt112s_init() has not run, and everything is at rest. *)
LEMMA InitIInv == Init => IInv
<1> SUFFICES ASSUME Init PROVE IInv
  OBVIOUS
<1>1. at \in [Readers -> Stages] /\ ev \in [Readers -> 0..MaxEvents]
  BY BoundAssumption DEF Init, Readers, Stages
<1>2. queue \in Seq(1..MaxEvents) /\ delivered \in Seq([event : 1..MaxEvents, by : Readers])
  BY DEF Init
<1>3. made \in 0..MaxEvents /\ faults \in 0..MaxFaults /\ dropped \subseteq 1..MaxEvents
  BY BoundAssumption DEF Init
<1>4. /\ deaf \in BOOLEAN /\ unmasked \in BOOLEAN /\ status \in BOOLEAN
      /\ edge \in BOOLEAN /\ trigger \in BOOLEAN
  BY DEF Init
<1>5. TypeOK
  BY <1>1, <1>2, <1>3, <1>4 DEF TypeOK
<1>6. HoldsEvent /\ OneToken /\ Unmasked /\ Latched
  BY <1>2 DEF Init, HoldsEvent, OneToken, Unmasked, Latched, Readers
<1> QED
  BY <1>5, <1>6 DEF IInv

(* A failing transfer is counted. *)
LEMMA FaultType == ASSUME TypeOK, Fault PROVE faults' \in 0..MaxFaults
  BY BoundAssumption DEF TypeOK, Fault

(* What is left of the chip's queue when its first event has been shifted out. *)
LEMMA TailFacts ==
  ASSUME queue \in Seq(1..MaxEvents), queue # <<>>
  PROVE  /\ Head(queue) \in 1..MaxEvents /\ Tail(queue) \in Seq(1..MaxEvents)
         /\ Len(Tail(queue)) <= Len(queue)
<1>1. /\ Head(queue) \in 1..MaxEvents /\ Tail(queue) \in Seq(1..MaxEvents)
      /\ Len(Tail(queue)) = Len(queue) - 1
  BY HeadTailProperties
<1>2. Len(queue) \in Nat
  BY LenProperties
<1> QED
  BY <1>1, <1>2

(***************************************************************************)
(* The types of Cpt112sEvents are kept by the chips, the handler, the task  *)
(* and the initialisation; only real events reach the handler of badge.c.   *)
(***************************************************************************)
LEMMA TypeStep ==
  ASSUME TypeOK, HoldsEvent, [Next]_vars PROVE TypeOK' /\ HoldsEvent'
<1> USE DEF TypeOK, HoldsEvent, Readers, Stages
<1>1. CASE Touch
  <2>1. /\ made' = made + 1 /\ queue' = Append(queue, made + 1) /\ made' \in 1..MaxEvents
        /\ UNCHANGED <<at, ev, history, faults, unmasked, trigger>>
    BY <1>1, BoundAssumption DEF Touch
  <2>2. Len(queue') = Len(queue) + 1 /\ queue' \in Seq(1..MaxEvents) /\ Len(queue) \in Nat
    BY <2>1, AppendProperties, LenProperties
  <2>3. status' \in BOOLEAN /\ edge' \in BOOLEAN
    BY <1>1 DEF Touch
  <2> QED
    BY <2>1, <2>2, <2>3 DEF history
<1>2. CASE IntrHandler
  BY <1>2 DEF IntrHandler, history
<1>3. CASE Take
  BY <1>3 DEF Take, history
<1>4. CASE ReadStatus
  BY <1>4 DEF ReadStatus, AfterStatus, history
<1>5. CASE ReadStatusFails
  BY <1>5, FaultType DEF ReadStatusFails, AfterStatus
<1>6. CASE SetDefault
  BY <1>6, FaultType DEF SetDefault, chip, history
<1>7. CASE SetEnable
  <2>1. status' \in BOOLEAN /\ edge' \in BOOLEAN /\ unmasked' \in BOOLEAN
    BY <1>7 DEF SetEnable
  <2>2. faults' \in 0..MaxFaults
    BY <1>7, FaultType DEF SetEnable
  <2>3. at' \in [Readers -> Stages] /\ HoldsEvent'
    BY <1>7 DEF SetEnable
  <2> QED
    BY <1>7, <2>1, <2>2, <2>3 DEF SetEnable, history
<1>8. CASE UNCHANGED vars
  BY <1>8 DEF vars, chip, history
<1>9. ASSUME NEW r \in Readers, GetInput(r) PROVE TypeOK' /\ HoldsEvent'
  <2>1. queue # <<>> => made > 0
    <3>1. queue # <<>> => Len(queue) > 0
      BY EmptySeq, LenProperties
    <3> QED
      BY <3>1, LenProperties, BoundAssumption
  <2>2. at' \in [Readers -> Stages] /\ UNCHANGED <<queue, made, ev>>
    BY <1>9 DEF GetInput, Home, chip
  <2>3. TypeOK'
    BY <1>9, <2>2 DEF GetInput, chip, history
  <2>4. HoldsEvent'
    BY <1>9, <2>1, <2>2 DEF GetInput, Home
  <2> QED
    BY <2>3, <2>4
<1>10. ASSUME NEW r \in Readers, GetInputFails(r) PROVE TypeOK' /\ HoldsEvent'
  BY <1>10, FaultType DEF GetInputFails, AfterInputError, chip, history
<1>11. ASSUME NEW r \in Readers, ReadEvent(r) PROVE TypeOK' /\ HoldsEvent'
  <2>1. /\ Head(queue) \in 1..MaxEvents /\ Tail(queue) \in Seq(1..MaxEvents)
        /\ Len(Tail(queue)) <= Len(queue)
    BY <1>11, TailFacts DEF ReadEvent
  <2> QED
    BY <1>11, <2>1, LenProperties, BoundAssumption DEF ReadEvent, history
<1>14. ASSUME NEW r \in Readers, ReadNoEvent(r) PROVE TypeOK' /\ HoldsEvent'
  <2>1. fetched \in 1..MaxEvents
    <3>1. Len(queue) = 0 /\ made > 0
      BY <1>14 DEF ReadNoEvent
    <3> QED
      BY <3>1, BoundAssumption DEF fetched
  <2> QED
    BY <1>14, <2>1, BoundAssumption DEF ReadNoEvent, AfterEventError, chip, history
<1>12. ASSUME NEW r \in Readers, ReadEventFails(r) PROVE TypeOK' /\ HoldsEvent'
  <2>1. /\ at' = [at EXCEPT ![r] = "input"] /\ faults' \in 0..MaxFaults
        /\ UNCHANGED <<made, unmasked, status, edge, trigger, ev, delivered, deaf>>
    BY <1>12, FaultType DEF ReadEventFails, AfterEventError
  <2>2. queue' \in Seq(1..MaxEvents) /\ Len(queue') <= Len(queue) /\ dropped' \subseteq 1..MaxEvents
    <3>1. CASE UNCHANGED <<queue, dropped>>
      BY <3>1, LenProperties
    <3>2. CASE queue # <<>> /\ queue' = Tail(queue) /\ dropped' = dropped \cup {Head(queue)}
      BY <3>2, TailFacts
    <3> QED
      BY <1>12, <3>1, <3>2 DEF ReadEventFails
  <2>3. Len(queue') <= made
    BY <2>2, LenProperties, BoundAssumption
  <2> QED
    BY <2>1, <2>2, <2>3
<1>13. ASSUME NEW r \in Readers, Deliver(r) PROVE TypeOK' /\ HoldsEvent'
  <2>1. [event |-> ev[r], by |-> r] \in [event : 1..MaxEvents, by : Readers]
    BY <1>13 DEF Deliver
  <2>2. delivered' \in Seq([event : 1..MaxEvents, by : Readers])
    BY <1>13, <2>1 DEF Deliver, Handled
  <2> QED
    BY <1>13, <2>2, BoundAssumption DEF Deliver, chip
<1> QED
  BY <1>1, <1>2, <1>3, <1>4, <1>5, <1>6, <1>7, <1>8, <1>9, <1>10, <1>11, <1>12, <1>13, <1>14,
     NextCases

(***************************************************************************)
(* The token and what waits for it: the steps of the two readers in their   *)
(* loop neither make nor take a status, an edge or the semaphore, and a     *)
(* reader goes to sleep only when it finds the chip's queue empty.          *)
(***************************************************************************)
LEMMA TokenStep ==
  ASSUME IInv, [Next]_vars PROVE OneToken' /\ Unmasked' /\ Latched'
<1> USE DEF IInv, TypeOK, OneToken, Unmasked, Latched, Readers, Stages
<1>1. CASE Touch
  BY <1>1 DEF Touch, history
<1>2. CASE IntrHandler
  BY <1>2 DEF IntrHandler, history
<1>3. CASE Take
  BY <1>3 DEF Take, history
<1>4. CASE ReadStatus
  BY <1>4 DEF ReadStatus, AfterStatus, history
<1>5. CASE ReadStatusFails
  BY <1>5 DEF ReadStatusFails, AfterStatus
<1>6. CASE SetDefault
  BY <1>6 DEF SetDefault, chip, history
<1>7. CASE SetEnable
  BY <1>7 DEF SetEnable, history
<1>8. CASE UNCHANGED vars
  BY <1>8 DEF vars, chip, history
<1>9. ASSUME NEW r \in Readers, GetInput(r) PROVE OneToken' /\ Unmasked' /\ Latched'
  BY <1>9 DEF GetInput, Home, chip, history
<1>10. ASSUME NEW r \in Readers, GetInputFails(r) PROVE OneToken' /\ Unmasked' /\ Latched'
  BY <1>10 DEF GetInputFails, AfterInputError, chip, history
<1>11. ASSUME NEW r \in Readers, ReadEvent(r) PROVE OneToken' /\ Unmasked' /\ Latched'
  BY <1>11 DEF ReadEvent, history
<1>12. ASSUME NEW r \in Readers, ReadEventFails(r) PROVE OneToken' /\ Unmasked' /\ Latched'
  <2>1. queue = <<>> => queue' = <<>>
    BY <1>12 DEF ReadEventFails
  <2> QED
    BY <1>12, <2>1 DEF ReadEventFails, AfterEventError
<1>14. ASSUME NEW r \in Readers, ReadNoEvent(r) PROVE OneToken' /\ Unmasked' /\ Latched'
  BY <1>14 DEF ReadNoEvent, AfterEventError, chip, history
<1>13. ASSUME NEW r \in Readers, Deliver(r) PROVE OneToken' /\ Unmasked' /\ Latched'
  BY <1>13 DEF Deliver, chip
<1> QED
  BY <1>1, <1>2, <1>3, <1>4, <1>5, <1>6, <1>7, <1>8, <1>9, <1>10, <1>11, <1>12, <1>13, <1>14,
     NextCases

(* The invariant holds in every reachable state of the driver. *)
THEOREM Invariance == Spec => []IInv
<1>1. IInv /\ [Next]_vars => IInv'
  BY TypeStep, TokenStep DEF IInv
<1> QED
  BY InitIInv, <1>1, PTL DEF Spec

(***************************************************************************)
(* For every number of events and failing transfers, the driver's state     *)
(* keeps its type; what badge_cpt112s_read_event() returns on an error is   *)
(* never given to the event handler.                                        *)
(***************************************************************************)
THEOREM TypeCorrect == Spec => []TypeOK
<1>1. IInv => TypeOK
  BY DEF IInv
<1> QED
  BY <1>1, Invariance, PTL

(***************************************************************************)
(* For every number of events and failing transfers: while an event waits   *)
(* in the chip and the interrupt task of badge_fxl6408.c sleeps, an         *)
(* interrupt or the semaphore is on its way, unless badge_cpt112s_init() is *)
(* not done or a failed status read has left INT low.                       *)
(***************************************************************************)
THEOREM EventsAreNotStranded == Spec => []NoEventStranded
<1>1. IInv => NoEventStranded
  BY DEF IInv, OneToken, Latched, NoEventStranded
<1> QED
  BY <1>1, Invariance, PTL

-----------------------------------------------------------------------------
(***************************************************************************)
(* Where each event is.  The chip holds the last events that were made, in  *)
(* order; the earlier ones have left it, and each is in the hands of a      *)
(* reader, delivered, or shifted out for a read that failed.  Events        *)
(* leave the chip in order, and what it gives once more was fetched by the  *)
(* other reader: so what the interrupt task holds is later than all it has  *)
(* delivered.                                                               *)
(***************************************************************************)
InChip == \A i \in 1 .. Len(queue) : queue[i] = fetched + i

InHands ==
  /\ \A r \in Readers : at[r] # "deliver" => ev[r] = 0
  /\ \A r \in Readers : ev[r] <= fetched

GivenOnce ==
  /\ \A i \in 1 .. Len(delivered) : delivered[i].event <= fetched
  /\ \A i \in 1 .. Len(delivered) : delivered[i].event # ev[delivered[i].by]
  /\ \A i, j \in 1 .. Len(delivered) :
       delivered[i].event = delivered[j].event /\ delivered[i].by = delivered[j].by => i = j

NotTheLast ==
  \A r \in Readers : at[r] = "event" /\ Len(queue) = 0 =>
    \A i \in 1 .. Len(delivered) : delivered[i].by = r => delivered[i].event # fetched

NoneLost ==
  \A e \in 1 .. MaxEvents : e <= fetched =>
    \/ \E r \in Readers : ev[r] = e
    \/ \E i \in 1 .. Len(delivered) : delivered[i].event = e
    \/ e \in dropped

TaskInOrder ==
  /\ \A i \in 1 .. Len(delivered) :
       delivered[i].by = "task" /\ ev["task"] # 0 => delivered[i].event < ev["task"]
  /\ \A i, j \in 1 .. Len(delivered) :
       i < j /\ delivered[i].by = "task" /\ delivered[j].by = "task" =>
         delivered[i].event < delivered[j].event

Places == InChip /\ InHands /\ GivenOnce /\ NotTheLast /\ NoneLost /\ TaskInOrder

(* What the steps of the invariant need of the types. *)
LEMMA PlaceTypes ==
  ASSUME TypeOK
  PROVE  /\ MaxEvents \in Nat /\ made \in Nat /\ Len(queue) \in Nat /\ fetched \in Int
         /\ Len(delivered) \in Nat
         /\ \A r \in Readers : ev[r] \in Nat
         /\ \A i \in 1 .. Len(delivered) : /\ delivered[i].event \in 1 .. MaxEvents
                                           /\ delivered[i].by \in Readers
<1>1. /\ queue \in Seq(1 .. MaxEvents) /\ delivered \in Seq([event : 1 .. MaxEvents, by : Readers])
      /\ made \in 0 .. MaxEvents /\ MaxEvents \in Nat /\ ev \in [Readers -> 0 .. MaxEvents]
  BY BoundAssumption DEF TypeOK
<1>2. Len(queue) \in Nat /\ Len(delivered) \in Nat /\ made \in Nat
  <2>1. made \in Nat
    BY <1>1
  <2> QED BY <1>1, <2>1, LenProperties
<1>3. \A i \in 1 .. Len(delivered) : delivered[i] \in [event : 1 .. MaxEvents, by : Readers]
  BY <1>1, ElementOfSeq
<1>4. \A r \in Readers : ev[r] \in Nat
  BY <1>1
<1> QED BY <1>1, <1>2, <1>3, <1>4 DEF fetched

LEMMA PlacesInit == Init => Places
<1> SUFFICES ASSUME Init PROVE Places
  OBVIOUS
<1>1. /\ Len(queue) = 0 /\ made = 0 /\ Len(delivered) = 0 /\ fetched = 0
      /\ \A r \in Readers : ev[r] = 0
  <2>1. queue = <<>> /\ delivered = <<>> /\ made = 0 /\ ev = [r \in Readers |-> 0]
    BY DEF Init
  <2>2. Len(queue) = 0 /\ Len(delivered) = 0
    BY <2>1
  <2>3. fetched = 0 - 0
    BY <2>1, <2>2, Zenon DEF fetched
  <2> QED BY <2>1, <2>2, <2>3
<1>2. ev["task"] = 0 /\ ev["main"] = 0
  BY <1>1 DEF Readers
<1>3. MaxEvents \in Nat
  BY BoundAssumption
<1> QED BY <1>1, <1>2, <1>3 DEF Places, InChip, InHands, GivenOnce, NotTheLast, NoneLost, TaskInOrder

(* Steps that move no event; a reader only leaves "deliver" by delivering. *)
LEMMA NothingMoves ==
  ASSUME TypeOK, Places, UNCHANGED <<queue, made, ev, delivered, dropped>>,
         \A r \in Readers : /\ at[r] = "deliver" => at'[r] = "deliver"
                            /\ at'[r] = "event" => at[r] = "event" \/ Len(queue) # 0
  PROVE  Places'
<1>1. fetched' = fetched
  BY DEF fetched
<1>2. InHands'
  BY <1>1 DEF Places, InHands
<1>3. NotTheLast'
  BY <1>1 DEF Places, NotTheLast
<1> QED BY <1>1, <1>2, <1>3 DEF Places, InChip, GivenOnce, NoneLost, TaskInOrder

(* A touch puts its event behind those the chip holds. *)
LEMMA TouchPlaces == ASSUME TypeOK, HoldsEvent, Places, Touch PROVE Places'
<1>1. /\ made' = made + 1 /\ queue' = Append(queue, made + 1)
      /\ at' = at /\ ev' = ev /\ delivered' = delivered /\ dropped' = dropped /\ made < MaxEvents
  BY DEF Touch, history
<1>2. /\ queue \in Seq(1 .. MaxEvents) /\ made \in Nat /\ MaxEvents \in Nat
      /\ made + 1 \in 1 .. MaxEvents
  BY <1>1, BoundAssumption DEF TypeOK
<1>3. /\ Len(queue') = Len(queue) + 1
      /\ \A i \in 1 .. Len(queue) : queue'[i] = queue[i]
      /\ queue'[Len(queue) + 1] = made + 1
  BY <1>1, <1>2, AppendProperties
<1>4. Len(queue) \in Nat
  BY <1>2
<1>5. fetched' = fetched
  BY <1>1, <1>2, <1>3, <1>4 DEF fetched
<1>6. fetched + (Len(queue) + 1) = made + 1 /\ Len(queue) <= made
  BY <1>2, <1>4 DEF fetched, HoldsEvent
<1>7. \A i \in 1 .. Len(queue) + 1 : queue'[i] = fetched + i
  <2> SUFFICES ASSUME NEW i \in 1 .. Len(queue) + 1 PROVE queue'[i] = fetched + i
    OBVIOUS
  <2>1. CASE i = Len(queue) + 1
    BY <1>3, <1>6, <2>1
  <2>2. CASE i # Len(queue) + 1
    <3>1. i \in 1 .. Len(queue)
      BY <1>4, <2>2
    <3> QED BY <1>3, <3>1 DEF Places, InChip
  <2> QED BY <2>1, <2>2
<1>8. InChip'
  BY <1>1, <1>2, <1>3, <1>4, <1>5, <1>6, <1>7 DEF InChip
<1>9. NotTheLast'
  BY <1>3, <1>4 DEF NotTheLast
<1> QED BY <1>1, <1>5, <1>8, <1>9 DEF Places, InHands, GivenOnce, NoneLost, TaskInOrder

(* The earliest event leaves the chip. *)
LEMMA ShiftPlaces ==
  ASSUME TypeOK, Places, queue # <<>>, queue' = Tail(queue), made' = made
  PROVE  fetched' = fetched + 1 /\ Head(queue) = fetched + 1 /\ InChip'
<1>1. queue \in Seq(1 .. MaxEvents)
  BY DEF TypeOK
<1>2. made \in Nat /\ Len(queue) \in Nat /\ fetched \in Int
  BY PlaceTypes
<1>3. /\ Len(queue') = Len(queue) - 1 /\ Len(queue) > 0
      /\ \A i \in 1 .. Len(queue') : queue'[i] = queue[i + 1]
  BY <1>1, <1>2, HeadTailProperties, EmptySeq
<1>4. Head(queue) = queue[1]
  BY <1>1
<1>5. fetched' = fetched + 1
  BY <1>2, <1>3 DEF fetched
<1>6. \A i \in 1 .. Len(queue) : queue[i] = fetched + i
  BY DEF Places, InChip
<1>7. Head(queue) = fetched + 1
  BY <1>2, <1>3, <1>4, <1>6
<1>8. ASSUME NEW i \in 1 .. Len(queue') PROVE queue'[i] = fetched' + i
  <2>1. i + 1 \in 1 .. Len(queue) /\ i \in Nat
    BY <1>2, <1>3
  <2>2. queue'[i] = fetched + (i + 1)
    BY <1>3, <1>6, <2>1
  <2> QED BY <1>2, <1>5, <2>1, <2>2
<1> QED BY <1>5, <1>7, <1>8 DEF InChip

(* Fetching takes the earliest event of the chip. *)
LEMMA FetchPlaces ==
  ASSUME TypeOK, Places, NEW r \in Readers, ReadEvent(r) PROVE Places'
<1>1. /\ queue # <<>> /\ queue' = Tail(queue) /\ ev' = [ev EXCEPT ![r] = Head(queue)]
      /\ at[r] = "event" /\ at' = [at EXCEPT ![r] = "deliver"]
      /\ made' = made /\ delivered' = delivered /\ dropped' = dropped
  BY DEF ReadEvent, history
<1>2. ev \in [Readers -> 0 .. MaxEvents] /\ at \in [Readers -> Stages]
  BY DEF TypeOK
<1>3. /\ MaxEvents \in Nat /\ fetched \in Int /\ Len(delivered) \in Nat
      /\ \A s \in Readers : ev[s] \in Nat
      /\ \A i \in 1 .. Len(delivered) : /\ delivered[i].event \in 1 .. MaxEvents
                                         /\ delivered[i].by \in Readers
  BY PlaceTypes
<1>4. fetched' = fetched + 1 /\ Head(queue) = fetched + 1 /\ InChip'
  BY <1>1, ShiftPlaces
<1>5. /\ ev[r] = 0 /\ ev'[r] = fetched + 1
      /\ \A s \in Readers : s # r => ev'[s] = ev[s] /\ at'[s] = at[s]
      /\ at'[r] = "deliver"
  BY <1>1, <1>2, <1>4 DEF Places, InHands
<1>6. InHands'
  <2>1. \A s \in Readers : at'[s] # "deliver" => ev'[s] = 0
    BY <1>5 DEF Places, InHands
  <2>2. \A s \in Readers : ev'[s] <= fetched'
    BY <1>3, <1>4, <1>5 DEF Places, InHands
  <2> QED BY <2>1, <2>2 DEF InHands
<1>7. \A i \in 1 .. Len(delivered) : delivered[i].event < fetched + 1
  BY <1>3 DEF Places, GivenOnce
<1>8. GivenOnce'
  <2>1. \A i \in 1 .. Len(delivered) : delivered[i].event <= fetched'
    BY <1>3, <1>4, <1>7
  <2>2. \A i \in 1 .. Len(delivered) : delivered[i].event # ev'[delivered[i].by]
    BY <1>3, <1>5, <1>7 DEF Places, GivenOnce
  <2> QED BY <1>1, <2>1, <2>2 DEF Places, GivenOnce
<1>9. NotTheLast'
  BY <1>1, <1>3, <1>4, <1>7 DEF NotTheLast
<1>10. NoneLost'
  <2> SUFFICES ASSUME NEW e \in 1 .. MaxEvents, e <= fetched'
               PROVE  \/ \E s \in Readers : ev'[s] = e
                      \/ \E i \in 1 .. Len(delivered) : delivered[i].event = e
                      \/ e \in dropped
    BY <1>1 DEF NoneLost
  <2>1. CASE e = fetched + 1
    BY <1>5, <2>1
  <2>2. CASE e # fetched + 1
    <3>1. e <= fetched /\ e # 0
      BY <1>3, <1>4, <2>2
    <3> QED BY <1>5, <3>1 DEF Places, NoneLost
  <2> QED BY <2>1, <2>2
<1>11. TaskInOrder'
  <2>1. ev'["task"] = fetched + 1 \/ ev'["task"] = ev["task"]
    BY <1>5 DEF Readers
  <2> QED BY <1>1, <1>7, <2>1 DEF Places, TaskInOrder
<1> QED BY <1>4, <1>6, <1>8, <1>9, <1>10, <1>11 DEF Places

(* A read that failed after the chip had shifted the event out. *)
LEMMA DropPlaces ==
  ASSUME TypeOK, Places, NEW r \in Readers, ReadEventFails(r),
         queue # <<>>, queue' = Tail(queue), dropped' = dropped \cup {Head(queue)}
  PROVE  Places'
<1>1. /\ at[r] = "event" /\ at' = [at EXCEPT ![r] = "input"]
      /\ made' = made /\ ev' = ev /\ delivered' = delivered
  BY DEF ReadEventFails, AfterEventError
<1>2. at \in [Readers -> Stages]
  BY DEF TypeOK
<1>3. /\ MaxEvents \in Nat /\ fetched \in Int /\ Len(delivered) \in Nat
      /\ \A s \in Readers : ev[s] \in Nat
      /\ \A i \in 1 .. Len(delivered) : /\ delivered[i].event \in 1 .. MaxEvents
                                         /\ delivered[i].by \in Readers
  BY PlaceTypes
<1>4. fetched' = fetched + 1 /\ Head(queue) = fetched + 1 /\ InChip'
  BY <1>1, ShiftPlaces
<1>5. InHands'
  BY <1>1, <1>2, <1>3, <1>4 DEF Places, InHands
<1>6. GivenOnce'
  <2>1. \A i \in 1 .. Len(delivered) : delivered[i].event <= fetched'
    BY <1>3, <1>4 DEF Places, GivenOnce
  <2> QED BY <1>1, <2>1 DEF Places, GivenOnce
<1>7. NotTheLast'
  <2>1. \A i \in 1 .. Len(delivered) : delivered[i].event < fetched + 1
    BY <1>3 DEF Places, GivenOnce
  <2> QED BY <1>1, <1>3, <1>4, <2>1 DEF NotTheLast
<1>8. NoneLost'
  <2> SUFFICES ASSUME NEW e \in 1 .. MaxEvents, e <= fetched'
               PROVE  \/ \E s \in Readers : ev[s] = e
                      \/ \E i \in 1 .. Len(delivered) : delivered[i].event = e
                      \/ e \in dropped'
    BY <1>1 DEF NoneLost
  <2>1. CASE e = fetched + 1
    BY <1>4, <2>1
  <2>2. CASE e # fetched + 1
    <3>1. e <= fetched
      BY <1>3, <1>4, <2>2
    <3> QED BY <3>1 DEF Places, NoneLost
  <2> QED BY <2>1, <2>2
<1>9. TaskInOrder'
  BY <1>1 DEF Places, TaskInOrder
<1> QED BY <1>4, <1>5, <1>6, <1>7, <1>8, <1>9 DEF Places

(* An empty chip gives its last event once more: the other reader has fetched it. *)
LEMMA AgainPlaces ==
  ASSUME TypeOK, Places, NEW r \in Readers, ReadNoEvent(r), at' = [at EXCEPT ![r] = "deliver"],
         ev' = [ev EXCEPT ![r] = fetched]
  PROVE  Places'
<1>1. at[r] = "event" /\ Len(queue) = 0 /\ UNCHANGED <<queue, made, delivered, dropped>>
  BY DEF ReadNoEvent, chip, history
<1>2. ev \in [Readers -> 0 .. MaxEvents] /\ at \in [Readers -> Stages]
  BY DEF TypeOK
<1>3. /\ MaxEvents \in Nat /\ fetched \in Int /\ Len(delivered) \in Nat
      /\ \A s \in Readers : ev[s] \in Nat
      /\ \A i \in 1 .. Len(delivered) : /\ delivered[i].event \in 1 .. MaxEvents
                                         /\ delivered[i].by \in Readers
  BY PlaceTypes
<1>4. fetched' = fetched
  BY <1>1 DEF fetched
<1>5. /\ ev[r] = 0 /\ ev'[r] = fetched /\ at'[r] = "deliver"
      /\ \A s \in Readers : s # r => ev'[s] = ev[s] /\ at'[s] = at[s]
  BY <1>1, <1>2 DEF Places, InHands
<1>6. InChip'
  BY <1>1, <1>4 DEF Places, InChip
<1>7. InHands'
  <2>1. \A s \in Readers : ev'[s] <= fetched'
    BY <1>3, <1>4, <1>5 DEF Places, InHands
  <2>2. \A s \in Readers : at'[s] # "deliver" => ev'[s] = 0
    BY <1>5 DEF Places, InHands
  <2> QED BY <2>1, <2>2 DEF InHands
<1>8. \A i \in 1 .. Len(delivered) : delivered[i].by = r => delivered[i].event # fetched
  BY <1>1 DEF Places, NotTheLast
<1>9. GivenOnce'
  <2>1. \A i \in 1 .. Len(delivered) : delivered[i].event # ev'[delivered[i].by]
    BY <1>3, <1>5, <1>8 DEF Places, GivenOnce
  <2> QED BY <1>1, <1>4, <2>1 DEF Places, GivenOnce
<1>10. NotTheLast'
  BY <1>1, <1>4, <1>5 DEF Places, NotTheLast
<1>11. NoneLost'
  <2>1. \A e \in 1 .. MaxEvents, s \in Readers : ev[s] = e => ev'[s] = e
    BY <1>5
  <2> QED BY <1>1, <1>4, <2>1 DEF Places, NoneLost
<1>12. TaskInOrder'
  <2>1. \A i \in 1 .. Len(delivered) :
          delivered[i].by = "task" /\ ev'["task"] # 0 => delivered[i].event < ev'["task"]
    <3>1. CASE r = "task"
      BY <1>3, <1>5, <1>8, <3>1 DEF Places, GivenOnce
    <3>2. CASE r # "task"
      BY <1>5, <3>2 DEF Places, TaskInOrder, Readers
    <3> QED BY <3>1, <3>2
  <2> QED BY <1>1, <2>1 DEF Places, TaskInOrder
<1> QED BY <1>6, <1>7, <1>9, <1>10, <1>11, <1>12 DEF Places

(* Delivering moves an event from a reader's hands behind what was given. *)
LEMMA DeliverPlaces ==
  ASSUME TypeOK, HoldsEvent, Places, NEW r \in Readers, Deliver(r) PROVE Places'
<1> DEFINE it == [event |-> ev[r], by |-> r]
           n == Len(delivered)
<1>1. /\ delivered' = Append(delivered, it) /\ ev' = [ev EXCEPT ![r] = 0]
      /\ at[r] = "deliver" /\ at' = [at EXCEPT ![r] = "input"]
      /\ made' = made /\ queue' = queue /\ dropped' = dropped
  BY DEF Deliver, Handled, chip
<1>2. /\ ev \in [Readers -> 0 .. MaxEvents] /\ at \in [Readers -> Stages]
      /\ delivered \in Seq([event : 1 .. MaxEvents, by : Readers])
  BY DEF TypeOK
<1>3. /\ MaxEvents \in Nat /\ fetched \in Int /\ n \in Nat
      /\ \A s \in Readers : ev[s] \in Nat
      /\ \A i \in 1 .. n : delivered[i].event \in 1 .. MaxEvents /\ delivered[i].by \in Readers
  BY PlaceTypes
<1>4. ev[r] \in 1 .. MaxEvents /\ ev[r] # 0
  BY <1>1, BoundAssumption DEF HoldsEvent
<1>5. it \in [event : 1 .. MaxEvents, by : Readers] /\ it.event = ev[r] /\ it.by = r
  BY <1>4
<1>6. /\ Len(delivered') = n + 1
      /\ \A i \in 1 .. n : delivered'[i] = delivered[i]
      /\ delivered'[n + 1] = it
  BY <1>1, <1>2, <1>5, AppendProperties
<1> HIDE DEF it, n
<1>7. \A i \in 1 .. n + 1 : \/ i \in 1 .. n /\ delivered'[i] = delivered[i]
                            \/ i = n + 1 /\ delivered'[i].event = ev[r] /\ delivered'[i].by = r
  BY <1>3, <1>5, <1>6
<1>8. fetched' = fetched
  BY <1>1 DEF fetched
<1>9. /\ ev'[r] = 0 /\ at'[r] = "input"
      /\ \A s \in Readers : s # r => ev'[s] = ev[s] /\ at'[s] = at[s]
  BY <1>1, <1>2
<1>11. InChip'
  BY <1>1, <1>8 DEF Places, InChip
<1>12. 0 <= fetched /\ \A s \in Readers : ev[s] <= fetched
  BY <1>3, <1>4 DEF Places, InHands
<1>13. InHands'
  <2>1. \A s \in Readers : at'[s] # "deliver" => ev'[s] = 0
    BY <1>9 DEF Places, InHands
  <2>2. \A s \in Readers : ev'[s] <= fetched'
    BY <1>8, <1>9, <1>12
  <2> QED BY <2>1, <2>2 DEF InHands
<1>14. /\ \A i \in 1 .. n : delivered[i].event <= fetched
       /\ \A i \in 1 .. n : delivered[i].event # ev[delivered[i].by]
       /\ \A i, j \in 1 .. n :
            delivered[i].event = delivered[j].event /\ delivered[i].by = delivered[j].by => i = j
  BY DEF Places, GivenOnce, n
<1>15. GivenOnce'
  <2>1. \A i \in 1 .. n + 1 : delivered'[i].event <= fetched
    BY <1>7, <1>12, <1>14
  <2>2. \A i \in 1 .. n + 1 : delivered'[i].event # ev'[delivered'[i].by]
    <3> SUFFICES ASSUME NEW i \in 1 .. n + 1
                 PROVE  delivered'[i].event # ev'[delivered'[i].by]
      OBVIOUS
    <3>1. delivered'[i].event # 0
      BY <1>3, <1>4, <1>7
    <3>2. CASE delivered'[i].by = r
      BY <1>9, <3>1, <3>2
    <3>3. CASE delivered'[i].by # r
      <4>1. i \in 1 .. n /\ delivered'[i] = delivered[i]
        BY <1>7, <3>3
      <4>2. ev'[delivered[i].by] = ev[delivered[i].by]
        BY <1>3, <1>9, <3>3, <4>1
      <4> QED BY <1>14, <4>1, <4>2
    <3> QED BY <3>2, <3>3
  <2>3. ASSUME NEW i \in 1 .. n + 1, NEW j \in 1 .. n + 1,
               delivered'[i].event = delivered'[j].event, delivered'[i].by = delivered'[j].by
        PROVE  i = j
    <3>1. CASE i \in 1 .. n /\ j \in 1 .. n
      BY <1>6, <1>14, <2>3, <3>1
    <3>2. CASE i = n + 1 /\ j \in 1 .. n
      BY <1>5, <1>6, <1>14, <2>3, <3>2
    <3>3. CASE j = n + 1 /\ i \in 1 .. n
      BY <1>5, <1>6, <1>14, <2>3, <3>3
    <3> QED BY <1>3, <3>1, <3>2, <3>3
  <2> QED BY <1>6, <1>8, <2>1, <2>2, <2>3 DEF GivenOnce, n
<1>18. NotTheLast'
  <2> SUFFICES ASSUME NEW s \in Readers, at'[s] = "event", Len(queue) = 0,
                      NEW i \in 1 .. n + 1, delivered'[i].by = s
               PROVE  delivered'[i].event # fetched
    BY <1>1, <1>6, <1>8 DEF NotTheLast
  <2>1. s # r /\ at[s] = "event"
    BY <1>9
  <2>2. i \in 1 .. n /\ delivered'[i] = delivered[i]
    BY <1>7, <2>1
  <2> QED BY <2>1, <2>2 DEF Places, NotTheLast, n
<1>16. NoneLost'
  <2> SUFFICES ASSUME NEW e \in 1 .. MaxEvents, e <= fetched
               PROVE  \/ \E s \in Readers : ev'[s] = e
                      \/ \E i \in 1 .. n + 1 : delivered'[i].event = e
                      \/ e \in dropped
    BY <1>1, <1>6, <1>8 DEF NoneLost, n
  <2>1. CASE ev[r] = e
    <3>1. n + 1 \in 1 .. n + 1 /\ delivered'[n + 1].event = e
      BY <1>3, <1>5, <1>6, <2>1
    <3> QED BY <3>1
  <2>2. CASE \E s \in Readers : s # r /\ ev[s] = e
    BY <1>9, <2>2
  <2>3. CASE \E i \in 1 .. n : delivered[i].event = e
    <3>1. PICK i \in 1 .. n : delivered[i].event = e
      BY <2>3
    <3>2. i \in 1 .. n + 1 /\ delivered'[i].event = e
      BY <1>3, <1>6, <3>1
    <3> QED BY <3>2
  <2> QED BY <2>1, <2>2, <2>3 DEF Places, NoneLost, n
<1>17. TaskInOrder'
  <2>1. \A i \in 1 .. n : delivered[i].by = "task" /\ ev["task"] # 0 => delivered[i].event < ev["task"]
    BY DEF Places, TaskInOrder, n
  <2>2. \A i, j \in 1 .. n : i < j /\ delivered[i].by = "task" /\ delivered[j].by = "task" =>
                               delivered[i].event < delivered[j].event
    BY DEF Places, TaskInOrder, n
  <2>3. \A i \in 1 .. n + 1 : delivered'[i].by = "task" /\ ev'["task"] # 0 =>
                                delivered'[i].event < ev'["task"]
    BY <1>7, <1>9, <2>1 DEF Readers
  <2>4. ASSUME NEW i \in 1 .. n + 1, NEW j \in 1 .. n + 1, i < j,
               delivered'[i].by = "task", delivered'[j].by = "task"
        PROVE  delivered'[i].event < delivered'[j].event
    <3>1. i \in 1 .. n /\ delivered'[i] = delivered[i]
      BY <1>3, <1>6, <2>4
    <3>2. CASE j \in 1 .. n
      <4>1. delivered'[j] = delivered[j]
        BY <1>6, <3>2
      <4> QED BY <2>2, <2>4, <3>1, <3>2, <4>1
    <3>3. CASE j = n + 1
      <4>1. r = "task" /\ delivered'[j].event = ev["task"]
        BY <1>5, <1>6, <2>4, <3>3
      <4> QED BY <1>4, <2>1, <2>4, <3>1, <4>1
    <3> QED BY <1>3, <3>2, <3>3
  <2> QED BY <1>6, <2>3, <2>4 DEF TaskInOrder, n
<1> QED BY <1>11, <1>13, <1>15, <1>16, <1>17, <1>18 DEF Places

LEMMA PlacesStep ==
  ASSUME IInv, Places, [Next]_vars PROVE Places'
<1>0. TypeOK /\ HoldsEvent /\ at \in [Readers -> Stages]
  BY DEF IInv, TypeOK
<1>1. CASE Touch
  BY <1>0, <1>1, TouchPlaces
<1>2. CASE IntrHandler \/ UNCHANGED vars
  BY <1>0, <1>2, NothingMoves DEF IntrHandler, vars, chip, history
<1>3. CASE Take \/ ReadStatus \/ ReadStatusFails \/ SetDefault \/ SetEnable
  <2>1. UNCHANGED <<queue, made, ev, delivered, dropped>>
    BY <1>3 DEF Take, ReadStatus, ReadStatusFails, SetDefault, SetEnable, chip, history
  <2>2. \A r \in Readers : /\ at[r] = "deliver" => at'[r] = "deliver"
                           /\ at'[r] = "event" => at[r] = "event"
    BY <1>0, <1>3 DEF Take, ReadStatus, ReadStatusFails, SetDefault, SetEnable, Readers,
                      AfterStatus
  <2> QED BY <1>0, <2>1, <2>2, NothingMoves
<1>4. ASSUME NEW r \in Readers, GetInput(r) \/ GetInputFails(r) PROVE Places'
  <2>1. UNCHANGED <<queue, made, ev, delivered, dropped>>
    BY <1>4 DEF GetInput, GetInputFails, chip, history
  <2>2. queue # <<>> => Len(queue) # 0
    BY EmptySeq DEF IInv, TypeOK
  <2>3. \A s \in Readers : /\ at[s] = "deliver" => at'[s] = "deliver"
                           /\ at'[s] = "event" => at[s] = "event" \/ Len(queue) # 0
    BY <1>0, <1>4, <2>2 DEF GetInput, GetInputFails, AfterInputError, Home
  <2> QED BY <1>0, <2>1, <2>3, NothingMoves
<1>5. ASSUME NEW r \in Readers, ReadEvent(r) PROVE Places'
  BY <1>0, <1>5, FetchPlaces
<1>6. ASSUME NEW r \in Readers, Deliver(r) PROVE Places'
  BY <1>0, <1>6, DeliverPlaces
<1>7. ASSUME NEW r \in Readers, ReadNoEvent(r) \/ ReadEventFails(r),
             UNCHANGED <<queue, ev, dropped>>, at' = [at EXCEPT ![r] = "input"]
      PROVE  Places'
  <2>1. at[r] = "event" /\ UNCHANGED <<queue, made, ev, delivered, dropped>>
    BY <1>7 DEF ReadNoEvent, ReadEventFails, chip, history
  <2>2. \A s \in Readers : /\ at[s] = "deliver" => at'[s] = "deliver"
                           /\ at'[s] = "event" => at[s] = "event"
    BY <1>0, <1>7, <2>1
  <2> QED BY <1>0, <2>1, <2>2, NothingMoves
<1>8. ASSUME NEW r \in Readers, ReadNoEvent(r) PROVE Places'
  <2>1. UNCHANGED <<queue, dropped>>
    BY <1>8 DEF ReadNoEvent, chip, history
  <2>2. \/ at' = [at EXCEPT ![r] = "input"] /\ UNCHANGED ev
        \/ at' = [at EXCEPT ![r] = "deliver"] /\ ev' = [ev EXCEPT ![r] = fetched]
    BY <1>8 DEF ReadNoEvent, AfterEventError
  <2> QED BY <1>0, <1>7, <1>8, <2>1, <2>2, AgainPlaces
<1>9. ASSUME NEW r \in Readers, ReadEventFails(r) PROVE Places'
  <2>1. at' = [at EXCEPT ![r] = "input"] /\ UNCHANGED ev
    BY <1>9 DEF ReadEventFails, AfterEventError
  <2>2. \/ UNCHANGED <<queue, dropped>>
        \/ queue # <<>> /\ queue' = Tail(queue) /\ dropped' = dropped \cup {Head(queue)}
    BY <1>9 DEF ReadEventFails
  <2> QED BY <1>0, <1>7, <1>9, <2>1, <2>2, DropPlaces
<1> QED BY <1>1, <1>2, <1>3, <1>4, <1>5, <1>6, <1>8, <1>9, NextCases

(* The places hold in every reachable state. *)
THEOREM PlacesInvariance == Spec => [](IInv /\ Places)
<1>1. IInv /\ [Next]_vars => IInv'
  BY TypeStep, TokenStep DEF IInv
<1> QED BY InitIInv, PlacesInit, <1>1, PlacesStep, PTL DEF Spec


(* How often an event was given by a reader that delivered it at S, and holds it if h. *)
LEMMA Counted ==
  ASSUME NEW S, NEW h \in BOOLEAN
  PROVE  LET given == Cardinality(S) + (IF h THEN 1 ELSE 0)
         IN  /\ S = {} /\ ~h => given = 0
             /\ S = {} /\ h => given = 1
             /\ (\E x : S = {x}) /\ ~h => given = 1
<1>1. Cardinality({}) = 0 /\ \A x : Cardinality({x}) = 1
  BY FS_EmptySet, FS_Singleton, Zenon
<1>2. 0 + 0 = 0 /\ 0 + 1 = 1 /\ 1 + 0 = 1
  OBVIOUS
<1> QED BY <1>1, <1>2, Zenon

(***************************************************************************)
(* The two tasks that fetch events (badge_cpt112s.c:40-62, 88): for every   *)
(* number of events and failing transfers, each event is still in the chip, *)
(* or is held or delivered, by each of the two at most once, unless a read  *)
(* that failed had shifted it out of the chip.                              *)
(***************************************************************************)
THEOREM EventsAreGivenOnce == Spec => []EachEventOnce
<1>1. ASSUME IInv, Places PROVE EachEventOnce
  <2> DEFINE D(e, r) == {i \in DOMAIN delivered : delivered[i] = [event |-> e, by |-> r]}
             given(e, r) == Cardinality(D(e, r)) + (IF ev[r] = e THEN 1 ELSE 0)
  <2>1. /\ MaxEvents \in Nat /\ made \in Nat /\ Len(queue) \in Nat /\ fetched \in Int
        /\ Len(delivered) \in Nat
        /\ \A r \in Readers : ev[r] \in Nat
    BY <1>1, PlaceTypes DEF IInv
  <2>2. /\ DOMAIN queue = 1 .. Len(queue) /\ DOMAIN delivered = 1 .. Len(delivered)
        /\ made <= MaxEvents
    BY <1>1, <2>1, LenProperties DEF IInv, TypeOK
  <2>3. /\ \A r \in Readers : ev[r] <= fetched
        /\ \A i \in 1 .. Len(delivered) : delivered[i].event <= fetched
        /\ \A i \in 1 .. Len(delivered) : delivered[i].event # ev[delivered[i].by]
        /\ \A i, j \in 1 .. Len(delivered) :
             delivered[i].event = delivered[j].event /\ delivered[i].by = delivered[j].by => i = j
    BY <1>1 DEF Places, InHands, GivenOnce
  <2>4. fetched = made - Len(queue) /\ \A i \in 1 .. Len(queue) : queue[i] = fetched + i
    BY <1>1 DEF Places, InChip, fetched
  <2>5. \A i \in 1 .. Len(delivered) :
          /\ delivered[i].event \in 1 .. MaxEvents /\ delivered[i].by \in Readers
          /\ delivered[i] = [event |-> delivered[i].event, by |-> delivered[i].by]
    <3>1. \A i \in 1 .. Len(delivered) : delivered[i] \in [event : 1 .. MaxEvents, by : Readers]
      BY <1>1, <2>2, ElementOfSeq DEF IInv, TypeOK
    <3> QED BY <3>1
  <2>6. ASSUME NEW e, NEW r
        PROVE  /\ D(e, r) = {} /\ ev[r] # e => given(e, r) = 0
               /\ D(e, r) = {} /\ ev[r] = e => given(e, r) = 1
               /\ (\E x : D(e, r) = {x}) /\ ev[r] # e => given(e, r) = 1
    <3> HIDE DEF D
    <3>1. (ev[r] = e) \in BOOLEAN
      OBVIOUS
    <3> QED BY <3>1, Counted, Zenon
  <2> SUFFICES ASSUME NEW e \in 1 .. made
               PROVE  IF \E i \in DOMAIN queue : queue[i] = e
                      THEN \A r \in Readers : given(e, r) = 0
                      ELSE /\ \A r \in Readers : given(e, r) <= 1
                           /\ e \in dropped \/ \E r \in Readers : given(e, r) = 1
    BY DEF EachEventOnce
  <2>7. e \in Nat /\ e # 0 /\ e \in 1 .. MaxEvents
    BY <2>1, <2>2
  <2>8. CASE e > fetched
    <3>1. e - fetched \in DOMAIN queue /\ queue[e - fetched] = e
      BY <2>1, <2>2, <2>4, <2>7, <2>8
    <3>2. ASSUME NEW r \in Readers PROVE given(e, r) = 0
      <4>1. D(e, r) = {}
        BY <2>1, <2>2, <2>3, <2>5, <2>7, <2>8
      <4>2. ev[r] # e
        BY <2>1, <2>3, <2>7, <2>8
      <4> HIDE DEF D, given
      <4> QED BY <2>6, <4>1, <4>2, Zenon
    <3> QED BY <3>1, <3>2
  <2>9. CASE e <= fetched
    <3>1. ~ \E i \in DOMAIN queue : queue[i] = e
      BY <2>1, <2>2, <2>4, <2>7, <2>9
    <3>2. ASSUME NEW r \in Readers, ev[r] = e PROVE given(e, r) = 1
      <4>1. D(e, r) = {}
        BY <2>2, <2>3, <3>2
      <4> HIDE DEF D, given
      <4> QED BY <2>6, <3>2, <4>1, Zenon
    <3>3. ASSUME NEW r \in Readers, NEW i \in D(e, r) PROVE given(e, r) = 1
      <4>1. D(e, r) = {i}
        BY <2>2, <2>3, <3>3
      <4>2. ev[r] # e
        BY <2>2, <2>3, <3>3
      <4> HIDE DEF D, given
      <4> QED BY <2>6, <4>1, <4>2, Zenon
    <3>4. \A r \in Readers : given(e, r) \in {0, 1}
      <4> SUFFICES ASSUME NEW r \in Readers PROVE given(e, r) \in {0, 1}
        OBVIOUS
      <4>1. CASE ev[r] = e
        BY <3>2, <4>1
      <4>2. CASE ev[r] # e /\ D(e, r) = {}
        BY <2>6, <4>2
      <4>3. CASE \E i : i \in D(e, r)
        BY <3>3, <4>3
      <4> QED BY <4>1, <4>2, <4>3
    <3>5. \A r \in Readers : given(e, r) <= 1
      <4> HIDE DEF given
      <4> QED BY <3>4
    <3>6. e \in dropped \/ \E r \in Readers : given(e, r) = 1
      <4>1. \/ \E r \in Readers : ev[r] = e
            \/ \E i \in 1 .. Len(delivered) : delivered[i].event = e
            \/ e \in dropped
        BY <1>1, <2>7, <2>9 DEF Places, NoneLost
      <4>2. ASSUME NEW i \in 1 .. Len(delivered), delivered[i].event = e
            PROVE  i \in D(e, delivered[i].by) /\ delivered[i].by \in Readers
        BY <2>2, <2>5, <4>2
      <4> HIDE DEF given, D
      <4> QED BY <3>2, <3>3, <4>1, <4>2
    <3> QED BY <3>1, <3>5, <3>6
  <2> HIDE DEF D, given
  <2> QED BY <2>1, <2>7, <2>8, <2>9
<1> QED BY <1>1, PlacesInvariance, PTL

(***************************************************************************)
(* Presses and releases reach badge_input_add_event() in the order in which *)
(* they were made, unless badge_cpt112s_init() fetched one of the two       *)
(* beside the interrupt task (badge.c:213-214), for every number of events. *)
(***************************************************************************)
THEOREM EventsInOrder == Spec => []InOrderExceptInit
<1>1. ASSUME IInv, Places PROVE InOrderExceptInit
  <2>1. DOMAIN delivered = 1 .. Len(delivered)
    BY <1>1, LenProperties DEF IInv, TypeOK
  <2>2. \A i \in 1 .. Len(delivered) : /\ delivered[i].event \in 1 .. MaxEvents
                                       /\ delivered[i].by \in {"task", "main"}
    BY <1>1, PlaceTypes DEF IInv, Readers
  <2> SUFFICES ASSUME NEW i \in 1 .. Len(delivered), NEW j \in 1 .. Len(delivered), i < j,
                      delivered[i].event > delivered[j].event
               PROVE  "main" \in {delivered[i].by, delivered[j].by}
    BY <2>1 DEF InOrderExceptInit
  <2>3. ~(delivered[i].event < delivered[j].event)
    BY <2>2, BoundAssumption
  <2>4. ~(delivered[i].by = "task" /\ delivered[j].by = "task")
    BY <1>1, <2>3 DEF Places, TaskInOrder
  <2> QED BY <2>2, <2>4
<1> QED BY <1>1, PlacesInvariance, PTL

=============================================================================
