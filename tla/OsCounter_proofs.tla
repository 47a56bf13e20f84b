-------------------------- MODULE OsCounter_proofs --------------------------
(***************************************************************************)
(* Theorems about OsCounter and AlarmObjectives, for every counter range,  *)
(* list of alarms and nesting of walks.                                    *)
(***************************************************************************)
EXTENDS AlarmObjectives, SequenceTheorems, TLAPS

-----------------------------------------------------------------------------
(* The arithmetic of os_counter_i.h.                                       *)

\* Os_CounterAdd adds modulo the counter's range.
LEMMA CounterAddModulo ==
    ASSUME NEW curr \in Ticks, NEW add \in Ticks
    PROVE  /\ CounterAdd(curr, add) \in Ticks
           /\ CounterAdd(curr, add) = (curr + add) % (maxallowedvalue + 1)
<1>1. maxallowedvalue \in Nat
  BY CounterAssumption
<1>2. CASE add <= maxallowedvalue - curr
  BY <1>1, <1>2 DEF CounterAdd, Ticks
<1>3. CASE ~(add <= maxallowedvalue - curr)
  <2>1. curr + add - (maxallowedvalue + 1) \in 0..maxallowedvalue
    BY <1>1, <1>3 DEF Ticks
  <2>2. CounterAdd(curr, add) = curr + add - (maxallowedvalue + 1)
    BY <1>1, <1>3 DEF CounterAdd, Ticks
  <2>3. (curr + add) % (maxallowedvalue + 1) = curr + add - (maxallowedvalue + 1)
    BY <1>1, <2>1 DEF Ticks
  <2> QED  BY <2>1, <2>2, <2>3 DEF Ticks
<1> QED  BY <1>2, <1>3

\* Os_CounterDiff finds what Os_CounterAdd added: an alarm set `add` ticks
\* ahead has `add` ticks left, across an overrun too.
THEOREM DiffUndoesAdd ==
    ASSUME NEW curr \in Ticks, NEW add \in Ticks
    PROVE  CounterDiff(CounterAdd(curr, add), curr) = add
BY CounterAssumption DEF CounterAdd, CounterDiff, Ticks

\* Os_CounterAdd reaches what Os_CounterDiff measured.
THEOREM AddUndoesDiff ==
    ASSUME NEW expire \in Ticks, NEW curr \in Ticks
    PROVE  /\ CounterDiff(expire, curr) \in Ticks
           /\ CounterAdd(curr, CounterDiff(expire, curr)) = expire
BY CounterAssumption DEF CounterAdd, CounterDiff, Ticks

\* A tick brings every other value of the counter one tick nearer.
LEMMA DiffAfterTick ==
    ASSUME NEW expire \in Ticks, NEW curr \in Ticks, expire # curr
    PROVE  CounterDiff(expire, CounterAdd(curr, 1)) = CounterDiff(expire, curr) - 1
BY CounterAssumption DEF CounterAdd, CounterDiff, Ticks

-----------------------------------------------------------------------------
(* Types.                                                                  *)

\* Walks under the innermost one wait for a task their alarm dispatched, so
\* that they have an alarm to go on with.
WaitingWalks == \A i \in 2..Len(frames) : frames[i] # << >>

TypeInv ==
    /\ TypeOK /\ WaitingWalks
    /\ left \in [Alarm -> Int]

LEMMA TickTypes ==
    /\ maxallowedvalue \in Nat \ {0} /\ mincycle \in Nat \ {0}
    /\ 0 \in Ticks /\ 1 \in Ticks
    /\ alarm_head \in Seq(Alarm)
    /\ TickModulus \in Nat /\ TickModulus > 1
    /\ Depth \in Nat \ {0}
BY CounterAssumption DEF Ticks

LEMMA CycleTicks ==
    ASSUME NEW cycle, CycleOK(cycle)
    PROVE  cycle \in Ticks
<1>1. CASE cycle = 0
  BY <1>1, TickTypes
<1>2. CASE cycle # 0
  <2>1. cycle \in mincycle..maxallowedvalue
    BY <1>2 DEF CycleOK
  <2> QED  BY <2>1, TickTypes DEF Ticks
<1> QED  BY <1>1, <1>2

\* The end of a walk: frames as a sequence of one walk and the others.
LEMMA TopFrame ==
    ASSUME TypeInv, frames # << >>
    PROVE  /\ top \in Seq(Alarm) /\ Tail(frames) \in Seq(Seq(Alarm))
           /\ Len(frames) \in Nat \ {0} /\ Len(Tail(frames)) = Len(frames) - 1
           /\ \A i \in 1..(Len(frames) - 1) : Tail(frames)[i] = frames[i + 1]
BY DEF TypeInv, TypeOK, top

\* Pushing a walk and stepping over an alarm keep the frames' types.
LEMMA PushFrame ==
    ASSUME NEW F \in Seq(Seq(Alarm)), NEW w \in Seq(Alarm),
           \A i \in 1..Len(F) : F[i] # << >>
    PROVE  LET G == <<w>> \o F IN
           /\ G \in Seq(Seq(Alarm)) /\ Len(G) = Len(F) + 1 /\ G # << >>
           /\ G[1] = w
           /\ \A i \in 2..Len(G) : G[i] # << >>
<1> DEFINE G == <<w>> \o F
<1>1. G \in Seq(Seq(Alarm)) /\ Len(G) = Len(F) + 1
  OBVIOUS
<1>2. G[1] = w /\ \A i \in 2..Len(G) : G[i] = F[i - 1]
  BY <1>1
<1>3. \A i \in 2..Len(G) : i - 1 \in 1..Len(F)
  BY <1>1
<1> QED  BY <1>1, <1>2, <1>3

LEMMA StepOverTypes ==
    ASSUME TypeInv, frames # << >>, top # << >>, StepOver
    PROVE  /\ frames' \in Seq(Seq(Alarm)) /\ Len(frames') <= Depth
           /\ frames' # << >> /\ frames'[1] = Tail(top)
           /\ \A i \in 2..Len(frames') : frames'[i] # << >>
<1>1. Tail(top) \in Seq(Alarm)
  BY TopFrame
<1>2. \A i \in 1..Len(Tail(frames)) : Tail(frames)[i] # << >>
  <2>1. ASSUME NEW i \in 1..Len(Tail(frames))
        PROVE  Tail(frames)[i] = frames[i + 1] /\ i + 1 \in 2..Len(frames)
    BY TopFrame
  <2> QED  BY <2>1 DEF TypeInv, WaitingWalks
<1>3. Len(frames) <= Depth
  BY DEF TypeInv, TypeOK
<1>4. Tail(frames) \in Seq(Seq(Alarm)) /\ Len(Tail(frames)) = Len(frames) - 1
  BY TopFrame
<1>5. /\ frames' \in Seq(Seq(Alarm)) /\ Len(frames') = Len(Tail(frames)) + 1
      /\ frames' # << >> /\ frames'[1] = Tail(top)
      /\ \A i \in 2..Len(frames') : frames'[i] # << >>
  BY <1>1, <1>2, <1>4, PushFrame DEF StepOver
<1>6. Len(frames) \in Nat
  BY TopFrame
<1> QED  BY <1>3, <1>4, <1>5, <1>6

LEMMA AlarmProcessTypes ==
    ASSUME TypeInv, NEW a \in Alarm, AlarmProcess(a)
    PROVE  alarm' \in [Alarm -> AlarmType]
<1>1. /\ val \in Ticks
      /\ alarm \in [Alarm -> AlarmType]
  BY DEF TypeInv, TypeOK
<1>2. CounterAdd(val, alarm[a].cycletime) \in Ticks
  BY <1>1, CounterAddModulo DEF AlarmType
<1> QED  BY <1>1, <1>2 DEF AlarmProcess, AlarmType

LEMMA ArmedTypes ==
    ASSUME NEW expire \in Ticks, NEW cycle \in Ticks
    PROVE  Armed(expire, cycle) \in AlarmType
BY DEF Armed, AlarmType

LEMMA OffTypes == Off \in AlarmType
BY TickTypes DEF Off, AlarmType

LEMMA StartedTypes ==
    ASSUME NEW a \in Alarm, Started(a)
    PROVE  autostart[a].time \in Ticks /\ autostart[a].cycle \in Ticks
<1>1. CASE RelOK(autostart[a].time, autostart[a].cycle)
  BY <1>1, CycleTicks, TickTypes DEF RelOK, Ticks
<1>2. CASE AbsOK(autostart[a].time, autostart[a].cycle)
  BY <1>2, CycleTicks DEF AbsOK
<1> QED  BY <1>1, <1>2 DEF Started

LEMMA TicksToTypes ==
    ASSUME val \in Ticks, NEW start \in Ticks
    PROVE  TicksTo(start) \in 1..(maxallowedvalue + 1)
BY TickTypes DEF TicksTo, CounterDiff, Ticks

THEOREM InitTypes == ObservedInit => TypeInv
<1> SUFFICES ASSUME ObservedInit PROVE TypeInv
  OBVIOUS
<1> USE DEF ObservedInit, Init
<1>1. val \in Ticks /\ tick \in 0..(TickModulus - 1)
  BY TickTypes
<1>2. alarm \in [Alarm -> AlarmType]
  <2>1. ASSUME NEW a \in Alarm
        PROVE  alarm[a] \in AlarmType
    <3>1. CASE Started(a)
      <4>1. alarm[a] = Armed(autostart[a].time, autostart[a].cycle)
        BY <3>1
      <4> QED  BY <3>1, <4>1, StartedTypes, ArmedTypes
    <3>2. CASE ~Started(a)
      <4>1. alarm[a] = Off
        BY <3>2
      <4> QED  BY <4>1, OffTypes
    <3> QED  BY <3>1, <3>2
  <2> QED  BY <2>1
<1>3. left \in [Alarm -> Int]
  <2>1. ASSUME NEW a \in Alarm
        PROVE  left[a] \in Int
    <3>1. Started(a) => TicksTo(autostart[a].time) \in Int
      BY <1>1, StartedTypes, TicksToTypes, TickTypes DEF Ticks
    <3>2. left[a] = IF Started(a) THEN TicksTo(autostart[a].time) ELSE Unarmed
      OBVIOUS
    <3> QED  BY <3>1, <3>2 DEF Unarmed
  <2> QED  BY <2>1
<1>4. frames \in Seq(Seq(Alarm)) /\ Len(frames) = 0 /\ acting = FALSE
  OBVIOUS
<1>5. Len(frames) <= Depth /\ WaitingWalks
  BY <1>4, TickTypes DEF WaitingWalks
<1> QED  BY <1>1, <1>2, <1>3, <1>4, <1>5 DEF TypeInv, TypeOK

LEMMA ServiceTypes ==
    ASSUME TypeInv, NEW a \in Alarm, Service(a)
    PROVE  TypeOK' /\ WaitingWalks'
<1>1. UNCHANGED <<val, tick, frames, acting>>
  BY DEF Service, SetRelAlarm, SetAbsAlarm, CancelAlarm
<1>2. alarm' \in [Alarm -> AlarmType]
  <2>1. /\ val \in Ticks
        /\ alarm \in [Alarm -> AlarmType]
    BY DEF TypeInv, TypeOK
  <2>2. ASSUME NEW time \in Times, NEW cycle \in Cycles, SetRelAlarm(a, time, cycle)
        PROVE  alarm' \in [Alarm -> AlarmType]
    <3>1. CounterAdd(val, time) \in Ticks /\ cycle \in Ticks
      <4>1. time \in Ticks
        BY <2>2, TickTypes DEF SetRelAlarm, RelOK, Ticks
      <4> QED  BY <2>1, <2>2, <4>1, CounterAddModulo, CycleTicks DEF SetRelAlarm, RelOK
    <3> QED  BY <2>1, <2>2, <3>1, ArmedTypes DEF SetRelAlarm
  <2>3. ASSUME NEW time \in Times, NEW cycle \in Cycles, SetAbsAlarm(a, time, cycle)
        PROVE  alarm' \in [Alarm -> AlarmType]
    BY <2>1, <2>3, CycleTicks, ArmedTypes DEF SetAbsAlarm, AbsOK
  <2>4. CASE CancelAlarm(a)
    BY <2>1, <2>4 DEF CancelAlarm, AlarmType
  <2> QED  BY <2>2, <2>3, <2>4 DEF Service
<1> QED  BY <1>1, <1>2 DEF TypeInv, TypeOK, WaitingWalks, top

LEMMA IncrementTypes ==
    ASSUME TypeInv, IncrementCounter
    PROVE  TypeOK' /\ WaitingWalks'
<1>1. val' \in Ticks
  BY TickTypes, CounterAddModulo DEF IncrementCounter, TypeInv, TypeOK
<1>2. tick' \in 0..(TickModulus - 1)
  BY TickTypes DEF IncrementCounter, TypeInv, TypeOK
<1>3. \A i \in 1..Len(frames) : frames[i] # << >>
  <2>1. CASE frames = << >>
    BY <2>1
  <2>2. CASE frames # << >>
    BY <2>2 DEF IncrementCounter, Free, TypeInv, TypeOK, WaitingWalks, top
  <2> QED  BY <2>1, <2>2
<1>4. frames \in Seq(Seq(Alarm)) /\ Len(frames) < Depth
  BY DEF IncrementCounter, TypeInv, TypeOK
<1>5. /\ frames' \in Seq(Seq(Alarm)) /\ Len(frames') = Len(frames) + 1
      /\ \A i \in 2..Len(frames') : frames'[i] # << >>
  BY <1>3, <1>4, TickTypes, PushFrame DEF IncrementCounter
<1>6. Len(frames') <= Depth
  BY <1>4, <1>5, TickTypes
<1> QED  BY <1>1, <1>2, <1>5, <1>6 DEF IncrementCounter, TypeInv, TypeOK, WaitingWalks

LEMMA AlarmCheckTypes ==
    ASSUME TypeInv, NEW a \in Alarm, AlarmCheck(a)
    PROVE  TypeOK' /\ WaitingWalks'
<1>1. frames # << >> /\ ~acting /\ top # << >>
  BY DEF AlarmCheck, NotDue, Expire, ExpirePreempted, At
<1>2. CASE NotDue(a)
  BY <1>1, <1>2, StepOverTypes DEF NotDue, TypeInv, TypeOK, WaitingWalks
<1>3. CASE Expire(a)
  BY <1>1, <1>3, StepOverTypes, AlarmProcessTypes
  DEF Expire, TypeInv, TypeOK, WaitingWalks
<1>4. CASE ExpirePreempted(a)
  BY <1>1, <1>4 DEF ExpirePreempted, TypeInv, TypeOK, WaitingWalks, top
<1> QED  BY <1>2, <1>3, <1>4 DEF AlarmCheck

LEMMA GoOnTypes ==
    ASSUME TypeInv, GoOn
    PROVE  TypeOK' /\ WaitingWalks'
<1>1. frames # << >> /\ top # << >>
  BY DEF GoOn, TypeInv, TypeOK
<1>2. Head(top) \in Alarm
  BY <1>1, TopFrame
<1>3. alarm' \in [Alarm -> AlarmType]
  BY <1>2, AlarmProcessTypes DEF GoOn
<1> QED  BY <1>1, <1>3, StepOverTypes DEF GoOn, TypeInv, TypeOK, WaitingWalks

LEMMA WalkEndsTypes ==
    ASSUME TypeInv, WalkEnds
    PROVE  TypeOK' /\ WaitingWalks'
<1>1. /\ frames' \in Seq(Seq(Alarm)) /\ Len(frames') = Len(frames) - 1
      /\ \A i \in 1..Len(frames') : frames'[i] = frames[i + 1]
      /\ Len(frames) \in Nat \ {0}
  BY TopFrame DEF WalkEnds
<1>2. \A i \in 1..Len(frames') : frames'[i] # << >>
  <2>1. ASSUME NEW i \in 1..Len(frames')
        PROVE  frames'[i] = frames[i + 1] /\ i + 1 \in 2..Len(frames)
    BY <1>1
  <2> QED  BY <2>1 DEF TypeInv, WaitingWalks
<1>3. acting' => frames' # << >> /\ top' # << >>
  <2> SUFFICES ASSUME acting' PROVE frames' # << >> /\ top' # << >>
    OBVIOUS
  <2>1. Len(frames') > 0
    <3>1. Len(frames) > 1
      BY Zenon DEF WalkEnds
    <3> QED  BY <1>1, <3>1
  <2>2. frames'[1] # << >>
    BY <1>1, <1>2, <2>1
  <2> QED  BY <1>1, <2>1, <2>2 DEF top
<1>4. Len(frames') <= Depth /\ acting' \in BOOLEAN
  BY <1>1, TickTypes DEF WalkEnds, TypeInv, TypeOK
<1>5. WaitingWalks'
  BY <1>1, <1>2 DEF WaitingWalks
<1> QED  BY <1>1, <1>3, <1>4, <1>5 DEF WalkEnds, TypeInv, TypeOK

LEMMA LeftTypes ==
    ASSUME TypeInv, ObservedNext
    PROVE  left' \in [Alarm -> Int]
<1>1. left \in [Alarm -> Int] /\ val \in Ticks /\ alarm \in [Alarm -> AlarmType]
  BY DEF TypeInv, TypeOK
<1>2. ASSUME NEW a \in Alarm, ObserveService(a)
      PROVE  left' \in [Alarm -> Int]
  <2>1. ASSUME NEW time \in Times, NEW cycle \in Cycles, SetAbsAlarm(a, time, cycle)
        PROVE  TicksTo(time) \in Int
    BY <1>1, <2>1, TicksToTypes, TickTypes DEF SetAbsAlarm, AbsOK
  <2>2. Times \subseteq Int
    BY CounterAssumption
  <2> QED  BY <1>1, <1>2, <2>1, <2>2 DEF ObserveService, Unarmed
<1>3. ASSUME NEW a \in Alarm, ObserveExpiry(a)
      PROVE  left' \in [Alarm -> Int]
  <2>1. alarm[a].cycletime \in Int
    BY <1>1 DEF AlarmType, Ticks
  <2> QED  BY <1>1, <1>3, <2>1 DEF ObserveExpiry, Unarmed
<1>4. CASE ObserveIncrement
  BY <1>1, <1>4 DEF ObserveIncrement
<1> QED  BY <1>1, <1>2, <1>3, <1>4 DEF ObservedNext, ObserveReading

LEMMA StepTypes == TypeInv /\ [ObservedNext]_observedVars => TypeInv'
<1> SUFFICES ASSUME TypeInv, [ObservedNext]_observedVars PROVE TypeInv'
  OBVIOUS
<1>1. CASE ObservedNext
  <2>1. ASSUME NEW a \in Alarm, ObserveService(a)
        PROVE  TypeOK' /\ WaitingWalks'
    BY <2>1, ServiceTypes DEF ObserveService, Service
  <2>2. ASSUME NEW a \in Alarm, ObserveExpiry(a)
        PROVE  TypeOK' /\ WaitingWalks'
    BY <2>2, AlarmCheckTypes DEF ObserveExpiry, AlarmCheck
  <2>3. ObserveIncrement => TypeOK' /\ WaitingWalks'
    BY IncrementTypes DEF ObserveIncrement
  <2>4. ObserveReading => TypeOK' /\ WaitingWalks'
    BY DEF ObserveReading, counterVars, TypeInv, TypeOK, WaitingWalks, top
  <2>5. GoOn \/ WalkEnds \/ (\E a \in Alarm : NotDue(a)) => TypeOK' /\ WaitingWalks'
    BY GoOnTypes, WalkEndsTypes, AlarmCheckTypes DEF AlarmCheck
  <2>6. TypeOK' /\ WaitingWalks'
    BY <1>1, <2>1, <2>2, <2>3, <2>4, <2>5 DEF ObservedNext
  <2> QED  BY <1>1, <2>6, LeftTypes DEF TypeInv
<1>2. CASE UNCHANGED observedVars
  BY <1>2 DEF observedVars, counterVars, TypeInv, TypeOK, WaitingWalks, top
<1> QED  BY <1>1, <1>2

\* Counter, alarms and nested walks keep their types; a walk that waits for a
\* task has an alarm to go on with when the task is back.
THEOREM AlarmTypes == ObservedSpec => []TypeOK
<1>1. TypeInv => TypeOK
  BY DEF TypeInv
<1> QED  BY <1>1, InitTypes, StepTypes, PTL DEF ObservedSpec

-----------------------------------------------------------------------------
(* While no task has come between an alarm's action and the walk, no walk  *)
(* waits and no service is called during one.  The invariant relates the   *)
(* ticks an alarm has left to the value it expires at, also between the    *)
(* increment and the moment the walk looks at the alarm.                   *)

\* The walk under way has still to look at the alarm.
Pending(a) == frames # << >> /\ \E i \in 1..Len(top) : top[i] = a

\* Nothing is left of an alarm that is due and waits for the walk.
TicksLeft(a) ==
    IF Pending(a) /\ alarm[a].expire_val = val THEN 0 ELSE TicksTo(alarm[a].expire_val)

LeftExact == \A a \in Alarm : left[a] = IF alarm[a].active THEN TicksLeft(a) ELSE Unarmed

CalmInv == TypeInv /\ ~acting /\ Len(frames) <= 1 /\ LeftExact

CalmOrNot == TypeInv /\ (calm => CalmInv)

LEMMA FieldTypes ==
    ASSUME TypeInv, NEW a \in Alarm
    PROVE  /\ val \in Ticks /\ alarm[a] \in AlarmType
           /\ alarm[a].active \in BOOLEAN
           /\ alarm[a].expire_val \in Ticks /\ alarm[a].cycletime \in Ticks
           /\ left[a] \in Int
BY DEF TypeInv, TypeOK, AlarmType

\* Set `add` ticks ahead, an alarm has `add` ticks left.
LEMMA TicksToAdd ==
    ASSUME val \in Ticks, NEW add \in 1..maxallowedvalue
    PROVE  /\ CounterAdd(val, add) \in Ticks /\ CounterAdd(val, add) # val
           /\ TicksTo(CounterAdd(val, add)) = add
BY TickTypes DEF TicksTo, CounterAdd, CounterDiff, Ticks

\* A tick brings an expiry nearer, down to the alarms that are due.
LEMMA TicksToTick ==
    ASSUME val \in Ticks, val' = CounterAdd(val, 1), NEW expire \in Ticks
    PROVE  (IF expire = val' THEN 0 ELSE TicksTo(expire)') = TicksTo(expire) - 1
BY TickTypes DEF TicksTo, CounterAdd, CounterDiff, Ticks

\* Stepping over an alarm leaves the others pending or not.
LEMMA StepOverPending ==
    ASSUME TypeInv, NEW a \in Alarm, At(a), StepOver, NEW b \in Alarm \ {a}
    PROVE  Pending(b)' <=> Pending(b)
<1>1. frames # << >> /\ top # << >> /\ a = Head(top)
  BY DEF At
<1>2. frames' # << >> /\ top' = Tail(top)
  BY <1>1, StepOverTypes DEF top
<1>3. top \in Seq(Alarm) /\ Len(top) \in Nat \ {0} /\ top[1] = a
  BY <1>1, TopFrame
<1>4. Len(Tail(top)) = Len(top) - 1 /\ \A i \in 1..(Len(top) - 1) : Tail(top)[i] = top[i + 1]
  BY <1>3
<1>5. ASSUME NEW i \in 1..Len(top), top[i] = b
      PROVE  i - 1 \in 1..Len(Tail(top)) /\ Tail(top)[i - 1] = b
  BY <1>3, <1>4, <1>5
<1>6. ASSUME NEW i \in 1..Len(Tail(top)), Tail(top)[i] = b
      PROVE  i + 1 \in 1..Len(top) /\ top[i + 1] = b
  BY <1>3, <1>4, <1>6
<1> QED  BY <1>1, <1>2, <1>5, <1>6 DEF Pending

LEMMA CalmInit == ObservedInit => CalmInv
<1> SUFFICES ASSUME ObservedInit PROVE CalmInv
  OBVIOUS
<1>1. TypeInv /\ ~acting /\ frames = << >>
  BY InitTypes DEF ObservedInit, Init
<1>2. ASSUME NEW a \in Alarm
      PROVE  left[a] = IF alarm[a].active THEN TicksLeft(a) ELSE Unarmed
  <2>1. ~Pending(a)
    BY <1>1 DEF Pending
  <2>2. alarm[a] = IF Started(a) THEN Armed(autostart[a].time, autostart[a].cycle) ELSE Off
    BY DEF ObservedInit, Init
  <2>3. left[a] = IF Started(a) THEN TicksTo(autostart[a].time) ELSE Unarmed
    BY DEF ObservedInit
  <2> QED  BY <2>1, <2>2, <2>3 DEF TicksLeft, Armed, Off
<1> QED  BY <1>1, <1>2 DEF CalmInv, LeftExact

\* Between walks an alarm has the ticks left to its expiry.
LEMMA ServiceExact ==
    ASSUME CalmInv, NEW a \in Alarm, ObserveService(a)
    PROVE  LeftExact'
<1>1. TypeInv /\ ~acting /\ LeftExact
  BY DEF CalmInv
<1>2. frames = << >> /\ UNCHANGED <<val, tick, frames, acting>>
  BY <1>1 DEF ObserveService, SetRelAlarm, SetAbsAlarm, CancelAlarm, Free
<1>3. alarm \in [Alarm -> AlarmType] /\ left \in [Alarm -> Int] /\ val \in Ticks
  BY <1>1 DEF TypeInv, TypeOK
<1>4. ASSUME NEW b \in Alarm
      PROVE  TicksLeft(b)' = TicksTo(alarm'[b].expire_val) /\ TicksLeft(b) = TicksTo(alarm[b].expire_val)
  BY <1>2 DEF TicksLeft, Pending, TicksTo, CounterDiff
<1>5. \A b \in Alarm \ {a} : alarm'[b] = alarm[b] /\ left'[b] = left[b]
  BY <1>3 DEF ObserveService, SetRelAlarm, SetAbsAlarm, CancelAlarm
<1>6. left'[a] = IF alarm'[a].active THEN TicksTo(alarm'[a].expire_val) ELSE Unarmed
  <2>1. ASSUME NEW time \in Times, NEW cycle \in Cycles,
               SetRelAlarm(a, time, cycle), left' = [left EXCEPT ![a] = time]
        PROVE  left'[a] = IF alarm'[a].active THEN TicksTo(alarm'[a].expire_val) ELSE Unarmed
    <3>1. TicksTo(CounterAdd(val, time)) = time
      BY <1>3, <2>1, TicksToAdd DEF SetRelAlarm, RelOK
    <3>2. alarm'[a] = Armed(CounterAdd(val, time), cycle) /\ left'[a] = time
      BY <1>3, <2>1 DEF SetRelAlarm
    <3> QED  BY <3>1, <3>2 DEF Armed
  <2>2. ASSUME NEW time \in Times, NEW cycle \in Cycles,
               SetAbsAlarm(a, time, cycle), left' = [left EXCEPT ![a] = TicksTo(time)]
        PROVE  left'[a] = IF alarm'[a].active THEN TicksTo(alarm'[a].expire_val) ELSE Unarmed
    BY <1>3, <2>2 DEF SetAbsAlarm, Armed
  <2>3. ASSUME CancelAlarm(a), left' = [left EXCEPT ![a] = Unarmed]
        PROVE  left'[a] = IF alarm'[a].active THEN TicksTo(alarm'[a].expire_val) ELSE Unarmed
    <3>1. alarm'[a].active = FALSE /\ left'[a] = Unarmed
      BY <1>3, <2>3 DEF CancelAlarm, AlarmType
    <3> QED  BY <3>1
  <2> QED  BY <2>1, <2>2, <2>3 DEF ObserveService
<1>7. ASSUME NEW b \in Alarm \ {a}
      PROVE  left'[b] = IF alarm'[b].active THEN TicksTo(alarm'[b].expire_val) ELSE Unarmed
  <2>1. left[b] = IF alarm[b].active THEN TicksTo(alarm[b].expire_val) ELSE Unarmed
    BY <1>1, <1>4 DEF LeftExact
  <2> QED  BY <1>5, <2>1
<1>8. \A b \in Alarm : left'[b] = IF alarm'[b].active THEN TicksTo(alarm'[b].expire_val) ELSE Unarmed
  BY <1>6, <1>7
<1> QED  BY <1>4, <1>8 DEF LeftExact

\* The walk steps over an alarm: its own ticks start anew, or it is over.
LEMMA WalkExact ==
    ASSUME CalmInv, NEW a \in Alarm, At(a), StepOver, UNCHANGED val,
           \A b \in Alarm \ {a} : alarm'[b] = alarm[b] /\ left'[b] = left[b],
           left'[a] = IF alarm'[a].active THEN TicksTo(alarm'[a].expire_val) ELSE Unarmed,
           ~(alarm'[a].active /\ alarm'[a].expire_val = val)
    PROVE  LeftExact'
<1>1. TypeInv /\ LeftExact
  BY DEF CalmInv
<1>2. ASSUME NEW b \in Alarm \ {a}
      PROVE  left'[b] = IF alarm'[b].active THEN TicksLeft(b)' ELSE Unarmed
  <2>1. TicksLeft(b)' = TicksLeft(b)
    BY <1>1, StepOverPending DEF TicksLeft, TicksTo, CounterDiff
  <2> QED  BY <1>1, <2>1 DEF LeftExact
<1>3. left'[a] = IF alarm'[a].active THEN TicksLeft(a)' ELSE Unarmed
  BY DEF TicksLeft, TicksTo, CounterDiff
<1> QED  BY <1>2, <1>3 DEF LeftExact

LEMMA NotDueExact ==
    ASSUME CalmInv, NEW a \in Alarm, NotDue(a), UNCHANGED left
    PROVE  LeftExact'
<1>1. left[a] = IF alarm[a].active THEN TicksTo(alarm[a].expire_val) ELSE Unarmed
  BY DEF NotDue, Due, CalmInv, LeftExact, TicksLeft
<1> QED  BY <1>1, WalkExact DEF NotDue, Due

LEMMA ExpiryExact ==
    ASSUME CalmInv, NEW a \in Alarm, Expire(a), ObserveExpiry(a)
    PROVE  LeftExact'
<1>1. /\ alarm \in [Alarm -> AlarmType] /\ left \in [Alarm -> Int] /\ val \in Ticks
      /\ alarm[a].cycletime \in Ticks /\ TypeInv
  BY FieldTypes DEF CalmInv, TypeInv, TypeOK
<1>2. At(a) /\ AlarmProcess(a) /\ StepOver /\ UNCHANGED val
  BY DEF Expire
<1>3. \A b \in Alarm \ {a} : alarm'[b] = alarm[b] /\ left'[b] = left[b]
  BY <1>1, <1>2 DEF ObserveExpiry, AlarmProcess
<1>4. CASE alarm[a].cycletime = 0
  <2>1. alarm'[a].active = FALSE /\ left'[a] = Unarmed
    BY <1>1, <1>2, <1>4 DEF AlarmProcess, AlarmType, ObserveExpiry
  <2> QED  BY <1>2, <1>3, <2>1, WalkExact
<1>5. CASE alarm[a].cycletime # 0
  <2>1. alarm'[a].expire_val = CounterAdd(val, alarm[a].cycletime)
    BY <1>1, <1>2, <1>5 DEF AlarmProcess, AlarmType
  <2>2. alarm'[a].active = TRUE
    BY <1>1, <1>2, <1>5 DEF AlarmProcess, AlarmType, Expire, Due
  <2>3. left'[a] = alarm[a].cycletime
    BY <1>1, <1>5 DEF ObserveExpiry
  <2>4. alarm[a].cycletime \in 1..maxallowedvalue
    BY <1>1, <1>5, TickTypes DEF Ticks
  <2>5. /\ TicksTo(alarm'[a].expire_val) = left'[a]
        /\ alarm'[a].expire_val # val
    BY <1>1, <2>1, <2>3, <2>4, TicksToAdd
  <2> QED  BY <1>2, <1>3, <2>2, <2>5, WalkExact
<1> QED  BY <1>4, <1>5

\* The increment finds no walk, and the new one has every alarm to look at.
LEMMA IncrementExact ==
    ASSUME CalmInv, ObserveIncrement
    PROVE  LeftExact' /\ Len(frames') = 1
<1>1. TypeInv /\ ~acting /\ LeftExact
  BY DEF CalmInv
<1>2. /\ frames = << >> /\ frames' = <<alarm_head>> \o frames
      /\ UNCHANGED alarm /\ val' = CounterAdd(val, 1)
  BY <1>1 DEF ObserveIncrement, IncrementCounter, Free
<1>3. frames' = <<alarm_head>>
  BY <1>2
<1>4. ASSUME NEW a \in Alarm
      PROVE  left'[a] = IF alarm'[a].active THEN TicksLeft(a)' ELSE Unarmed
  <2>1. PICK i \in 1..Len(alarm_head) : alarm_head[i] = a
    BY CounterAssumption
  <2>2. Pending(a)'
    BY <1>3, <2>1 DEF Pending, top
  <2>3. left[a] = IF alarm[a].active THEN TicksTo(alarm[a].expire_val) ELSE Unarmed
    BY <1>1, <1>2 DEF LeftExact, TicksLeft, Pending
  <2>4. left'[a] = IF left[a] > 0 THEN left[a] - 1 ELSE left[a]
    BY DEF ObserveIncrement
  <2>5. CASE alarm[a].active
    <3>1. left[a] = TicksTo(alarm[a].expire_val) /\ left[a] > 0
      BY <1>1, <2>3, <2>5, FieldTypes, TicksToTypes, TickTypes
    <3>2. TicksLeft(a)' = TicksTo(alarm[a].expire_val) - 1
      <4>1. TicksLeft(a)' = IF alarm[a].expire_val = val' THEN 0 ELSE TicksTo(alarm[a].expire_val)'
        BY <1>2, <2>2 DEF TicksLeft, TicksTo, CounterDiff
      <4>2. UNCHANGED alarm[a].expire_val
        BY <1>2
      <4> QED  BY <1>1, <1>2, <4>1, <4>2, FieldTypes, TicksToTick DEF TicksTo, CounterDiff
    <3> QED  BY <1>2, <2>4, <2>5, <3>1, <3>2
  <2>6. CASE ~alarm[a].active
    BY <1>2, <2>3, <2>4, <2>6 DEF Unarmed
  <2> QED  BY <2>5, <2>6
<1> QED  BY <1>3, <1>4 DEF LeftExact

LEMMA CalmStep ==
    ASSUME CalmInv, [ObservedNext]_observedVars, calm'
    PROVE  CalmInv'
<1>1. TypeInv /\ TypeInv' /\ ~acting /\ Len(frames) <= 1 /\ LeftExact
  BY StepTypes DEF CalmInv
<1>2. ASSUME NEW a \in Alarm, ObserveService(a)
      PROVE  CalmInv'
  <2>1. UNCHANGED <<frames, acting>>
    BY <1>2 DEF ObserveService, SetRelAlarm, SetAbsAlarm, CancelAlarm
  <2>2. LeftExact'
    BY <1>2, ServiceExact
  <2> QED  BY <1>1, <2>1, <2>2 DEF CalmInv
<1>3. ASSUME NEW a \in Alarm, At(a), StepOver
      PROVE  Len(frames') = Len(frames)
  <2>1. frames # << >> /\ top # << >>
    BY <1>3 DEF At
  <2> QED  BY <1>1, <1>3, <2>1, TopFrame, PushFrame, StepOverTypes DEF StepOver
<1>4. ASSUME NEW a \in Alarm, ObserveExpiry(a)
      PROVE  CalmInv'
  <2>1. Expire(a)
    BY <1>4 DEF ObserveExpiry
  <2>2. Len(frames') = Len(frames) /\ ~acting'
    BY <1>1, <1>3, <2>1 DEF Expire
  <2> QED  BY <1>1, <1>4, <2>1, <2>2, ExpiryExact DEF CalmInv
<1>5. CASE ObserveIncrement
  <2>1. ~acting'
    BY <1>5, Zenon DEF ObserveIncrement, IncrementCounter
  <2>2. LeftExact' /\ Len(frames') <= 1
    <3>1. LeftExact' /\ Len(frames') = 1
      BY <1>5, IncrementExact
    <3> QED  BY <3>1
  <2> QED  BY <1>1, <2>1, <2>2 DEF CalmInv
<1>6. ASSUME UNCHANGED <<counterVars, left>>
      PROVE  CalmInv'
  BY <1>1, <1>6
  DEF CalmInv, counterVars, LeftExact, TicksLeft, Pending, TicksTo, CounterDiff, top
<1>7. ASSUME NEW a \in Alarm, NotDue(a), UNCHANGED left
      PROVE  CalmInv'
  <2>1. Len(frames') = Len(frames) /\ ~acting'
    BY <1>1, <1>3, <1>7 DEF NotDue
  <2> QED  BY <1>1, <1>7, <2>1, NotDueExact DEF CalmInv
<1>8. ASSUME WalkEnds, UNCHANGED left
      PROVE  CalmInv'
  <2>1. Len(frames') = 0 /\ frames' = << >> /\ ~acting'
    <3>1. Len(frames) = 1 /\ Len(frames') = 0
      BY <1>1, <1>8, TopFrame DEF WalkEnds
    <3>2. frames' \in Seq(Seq(Alarm))
      BY <1>1 DEF TypeInv, TypeOK
    <3>3. ~(Len(frames) > 1)
      BY <3>1
    <3>4. ~acting'
      BY <1>8, <3>3, Zenon DEF WalkEnds
    <3> QED  BY <3>1, <3>2, <3>4
  <2>2. ASSUME NEW a \in Alarm
        PROVE  ~Pending(a) /\ ~Pending(a)'
    BY <1>8, <2>1 DEF WalkEnds, Pending
  <2>3. LeftExact'
    BY <1>1, <1>8, <2>2 DEF WalkEnds, LeftExact, TicksLeft, TicksTo, CounterDiff
  <2> QED  BY <1>1, <2>1, <2>3 DEF CalmInv
<1>9. ~GoOn
  BY <1>1 DEF GoOn
<1> QED
  BY <1>2, <1>4, <1>5, <1>6, <1>7, <1>8, <1>9
  DEF ObservedNext, ObserveReading, observedVars

LEMMA CalmStays ==
    /\ ObservedInit => CalmOrNot
    /\ CalmOrNot /\ [ObservedNext]_observedVars => CalmOrNot'
<1>1. ObservedInit => CalmOrNot
  BY CalmInit, InitTypes DEF CalmOrNot
<1>2. ASSUME CalmOrNot, [ObservedNext]_observedVars
      PROVE  CalmOrNot'
  <2>1. calm' => calm
    BY <1>2
    DEF ObservedNext, ObserveService, ObserveExpiry, ObserveIncrement, ObserveReading,
        observedVars
  <2> QED  BY <1>2, <2>1, CalmStep, StepTypes DEF CalmOrNot
<1> QED  BY <1>1, <1>2

\* While no task comes between an action and the walk none is missed: after
\* each walk, every alarm that is set still has ticks to go.
THEOREM NoneMissed == ObservedSpec => []CalmMissesNone
<1>1. CalmInv => NoExpiryMissed
  <2> SUFFICES ASSUME CalmInv, AtRest, NEW a \in Alarm PROVE left[a] # 0
    BY DEF NoExpiryMissed
  <2>1. ~Pending(a)
    BY DEF AtRest, Pending
  <2>2. left[a] = IF alarm[a].active THEN TicksTo(alarm[a].expire_val) ELSE Unarmed
    BY <2>1 DEF CalmInv, LeftExact, TicksLeft
  <2>3. TicksTo(alarm[a].expire_val) \in 1..(maxallowedvalue + 1)
    BY FieldTypes, TicksToTypes DEF CalmInv
  <2> QED  BY <2>2, <2>3, TickTypes DEF Unarmed
<1>2. CalmOrNot => CalmMissesNone
  BY <1>1 DEF CalmOrNot, CalmMissesNone
<1> QED  BY <1>2, CalmStays, PTL DEF ObservedSpec

\* None of them expires before the ticks that were asked for have passed.
THEOREM NoneEarly == ObservedSpec => CalmExpiresOnTime
<1>1. CalmOrNot /\ [ObservedNext]_observedVars =>
        [\A a \in Alarm : calm /\ Expires(a) => left[a] = 0]_observedVars
  <2> SUFFICES ASSUME CalmInv, NEW a \in Alarm, Expires(a) PROVE left[a] = 0
    BY DEF CalmOrNot
  <2>1. At(a) /\ Due(a)
    BY DEF Expires, Expire, ExpirePreempted
  <2>2. Pending(a)
    <3>1. frames # << >> /\ top # << >> /\ a = Head(top)
      BY <2>1 DEF At
    <3>2. top \in Seq(Alarm)
      BY <3>1, TopFrame DEF CalmInv
    <3>3. 1 \in 1..Len(top) /\ top[1] = a
      BY <3>1, <3>2
    <3> QED  BY <3>1, <3>3 DEF Pending
  <2> QED  BY <2>1, <2>2 DEF Due, CalmInv, LeftExact, TicksLeft
<1> QED  BY <1>1, CalmStays, PTL DEF ObservedSpec, CalmExpiresOnTime

\* Cyclic ones are set for the ticks that remain by what was asked for, however
\* many overruns of the counter lie behind.
THEOREM NoDrift == ObservedSpec => []CalmKeepsCycle
<1>1. CalmOrNot => CalmKeepsCycle
  BY DEF CalmOrNot, CalmInv, LeftExact, TicksLeft, CalmKeepsCycle, AtRest, Pending
<1> QED  BY <1>1, CalmStays, PTL DEF ObservedSpec

\* Set, and neither expired nor cancelled since: such an alarm is still active.
THEOREM NoneLost == ObservedSpec => []CalmStaysSet
<1>1. CalmOrNot => CalmStaysSet
  BY DEF CalmOrNot, CalmInv, LeftExact, CalmStaysSet
<1> QED  BY <1>1, CalmStays, PTL DEF ObservedSpec

-----------------------------------------------------------------------------
(* Whatever preempts the walks.                                            *)

CancelledOff == \A a \in cancelled : a \in Alarm /\ ~alarm[a].active

\* AlarmProcess sets no alarm that has been cancelled meanwhile.
LEMMA ProcessOff ==
    ASSUME TypeInv, NEW a \in Alarm, AlarmProcess(a), NEW b \in Alarm, ~alarm[b].active
    PROVE  ~alarm'[b].active
<1>1. alarm \in [Alarm -> AlarmType]
  BY DEF TypeInv, TypeOK
<1>2. CASE a = b
  BY <1>1, <1>2 DEF AlarmProcess, AlarmType
<1>3. CASE a # b
  BY <1>1, <1>3 DEF AlarmProcess
<1> QED  BY <1>2, <1>3

LEMMA CancelledStep ==
    ASSUME TypeInv, CancelledOff, [ObservedNext]_observedVars
    PROVE  CancelledOff'
<1>1. alarm \in [Alarm -> AlarmType]
  BY DEF TypeInv, TypeOK
<1>2. ASSUME NEW a \in Alarm, ObserveService(a)
      PROVE  CancelledOff'
  <2>1. CASE cancelled' = cancelled \ {a}
    BY <1>1, <1>2, <2>1
    DEF CancelledOff, ObserveService, SetRelAlarm, SetAbsAlarm, CancelAlarm
  <2>2. ASSUME cancelled' = cancelled \cup {a}, CancelAlarm(a)
        PROVE  CancelledOff'
    BY <1>1, <2>2 DEF CancelledOff, CancelAlarm, AlarmType
  <2> QED  BY <1>2, <2>1, <2>2 DEF ObserveService
<1>3. ASSUME NEW a \in Alarm, ObserveExpiry(a)
      PROVE  CancelledOff'
  BY <1>3, ProcessOff DEF CancelledOff, ObserveExpiry, Expire, ExpirePreempted
<1>4. ASSUME GoOn, UNCHANGED cancelled
      PROVE  CancelledOff'
  <2>1. Head(top) \in Alarm
    BY <1>4, TopFrame DEF GoOn, TypeInv, TypeOK
  <2> QED  BY <1>4, <2>1, ProcessOff DEF CancelledOff, GoOn
<1>5. ASSUME UNCHANGED <<alarm, cancelled>>
      PROVE  CancelledOff'
  BY <1>5 DEF CancelledOff
<1> QED
  BY <1>2, <1>3, <1>4, <1>5
  DEF ObservedNext, ObserveIncrement, ObserveReading, IncrementCounter, WalkEnds,
      NotDue, observedVars, counterVars

\* A cancelled alarm does not expire, also when it was cancelled during a walk
\* that had still to look at it or by the task it had dispatched itself.
THEOREM CancelledNeverExpires == ObservedSpec => CancelledStaysOff
<1>1. ObservedInit => CancelledOff
  BY DEF ObservedInit, CancelledOff
<1>2. CancelledOff /\ [ObservedNext]_observedVars =>
        [\A a \in Alarm : Expires(a) => a \notin cancelled]_observedVars
  BY DEF CancelledOff, Expires, Expire, ExpirePreempted, Due
<1> QED
  BY <1>1, <1>2, CancelledStep, InitTypes, StepTypes, PTL
  DEF ObservedSpec, CancelledStaysOff

-----------------------------------------------------------------------------
(* GetCounterValue and GetElapsedValue.                                    *)

ElapsedInv ==
    /\ seen \in Ticks /\ since \in Nat
    /\ since <= maxallowedvalue => CounterDiff(val, seen) = since

\* Os_CounterDiff counts one tick more after each, until it is back at zero.
LEMMA DiffCountsTick ==
    ASSUME NEW curr \in Ticks, NEW old \in Ticks,
           CounterDiff(curr, old) < maxallowedvalue
    PROVE  CounterDiff(CounterAdd(curr, 1), old) = CounterDiff(curr, old) + 1
BY TickTypes DEF CounterDiff, CounterAdd, Ticks

LEMMA ElapsedInit == ~Hard /\ ObservedInit => ElapsedInv
BY TickTypes
DEF ObservedInit, Init, ElapsedInv, GetCounterValue, CounterDiff, Ticks

LEMMA ElapsedStep ==
    ASSUME ~Hard, TypeInv, ElapsedInv, [ObservedNext]_observedVars
    PROVE  ElapsedInv'
<1>1. val \in Ticks
  BY DEF TypeInv, TypeOK
<1>2. CASE ObserveIncrement
  <2>1. /\ val' = CounterAdd(val, 1) /\ seen' = seen
        /\ since' = IF since <= maxallowedvalue THEN since + 1 ELSE since
    BY <1>2 DEF ObserveIncrement, IncrementCounter
  <2>2. seen' \in Ticks /\ since' \in Nat
    BY <2>1 DEF ElapsedInv
  <2>3. ASSUME since' <= maxallowedvalue
        PROVE  CounterDiff(val', seen) = since'
    <3>1. since < maxallowedvalue /\ since' = since + 1 /\ CounterDiff(val, seen) = since
      BY <2>1, <2>3, TickTypes DEF ElapsedInv
    <3> QED  BY <1>1, <2>1, <3>1, DiffCountsTick DEF ElapsedInv
  <2>4. CounterDiff(val, seen)' = CounterDiff(val', seen)
    BY <2>1 DEF CounterDiff
  <2> QED  BY <2>2, <2>3, <2>4 DEF ElapsedInv
<1>3. CASE ObserveReading
  <2>1. seen' = val /\ since' = 0 /\ val' = val
    BY <1>3 DEF ObserveReading, GetCounterValue, counterVars
  <2> QED  BY <1>1, <2>1, TickTypes DEF ElapsedInv, CounterDiff, Ticks
<1>4. ASSUME UNCHANGED <<val, seen, since>>
      PROVE  ElapsedInv'
  BY <1>4 DEF ElapsedInv, CounterDiff
<1> QED
  BY <1>2, <1>3, <1>4
  DEF ObservedNext, ObserveService, ObserveExpiry, SetRelAlarm, SetAbsAlarm, CancelAlarm,
      Expire, ExpirePreempted, GoOn, WalkEnds, NotDue, observedVars, counterVars

\* The elapsed value of a software counter is the number of ticks since the
\* earlier reading, as long as these are within the counter's range.
THEOREM SoftElapsedExact ==
    ASSUME ~Hard
    PROVE  ObservedSpec => []ElapsedExact
<1>1. ElapsedInv => ElapsedExact
  BY TickTypes DEF ElapsedInv, ElapsedExact, GetCounterValue, Ticks
<1> QED  BY <1>1, ElapsedInit, ElapsedStep, InitTypes, StepTypes, PTL DEF ObservedSpec
=============================================================================
