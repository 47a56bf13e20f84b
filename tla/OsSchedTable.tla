---------------------------- MODULE OsSchedTable ----------------------------
(***************************************************************************)
(* The schedule tables of one counter (core/system/Os/os_sched_table.c).   *)
(*                                                                         *)
(* Each increment of the counter walks its list of tables (Os_SchTblCheck);*)
(* a table whose expiry value is reached performs its expiry point and is  *)
(* given the next value (Os_SchTblUpdateState).  When a task increments    *)
(* the counter, the actions of a point may dispatch another task in the    *)
(* middle of the walk; that task may start, stop and chain tables before   *)
(* the walk goes on, but does not increment this counter.                  *)
(*                                                                         *)
(* The services test their arguments before they disable interrupts, so a  *)
(* tick, or a call from a task of a higher priority, may come in between:  *)
(* `pending` is such a call, made outside a walk.  Calls that only return  *)
(* an error status change nothing and are left out.  The tables are not    *)
(* synchronised (OS_SC2 and OS_SC4 are off), so state WAITING does not     *)
(* occur.  Os_SchTblAutostart calls the Start services before any tick.    *)
(***************************************************************************)
EXTENDS Integers, Sequences

CONSTANTS
    Table, None,
    sched_head,          \* the tables in the order of the counter's list
    points,              \* per table, the offsets of its expiry points
    duration, repeating, \* per table
    maxallowedvalue, mincycle,
    Dispatching,         \* tables whose actions may preempt who increments
    Calls,               \* the calls applications make
    Preempted            \* those that may be preempted after their tests

Ticks == 0..maxallowedvalue

NoCall == [op |-> "none"]

Call == [op : {"StartRel", "StartAbs"}, table : Table, offset : Ticks]
        \cup [op : {"Stop"}, table : Table]
        \cup [op : {"Next"}, from : Table, to : Table]

\* What ScheduleTableConsistenyCheck takes for the differences of the offsets:
\* each is relative to the difference before, not to the offset before.
Differences(t) ==
    LET delta[i \in DOMAIN points[t]] ==
          IF i = 1 THEN points[t][1] ELSE points[t][i] - delta[i - 1]
    IN  delta

\* The assertions of the check,
ScheduleTableConsistencyCheck(t) ==
    /\ points[t] # << >>
    /\ points[t][1] <= maxallowedvalue
    /\ \A i \in 2..Len(points[t]) : Differences(t)[i] \in mincycle..maxallowedvalue
    /\ duration[t] - points[t][Len(points[t])] \in mincycle..maxallowedvalue

\* and what the generator has to see to besides: points in order, not too close.
Ordered(t) ==
    \A i \in 2..Len(points[t]) :
        points[t][i] - points[t][i - 1] \in mincycle..maxallowedvalue

ASSUME TableAssumption ==
    /\ None \notin Table
    /\ sched_head \in Seq(Table)
    /\ \A t \in Table : \E i \in DOMAIN sched_head : sched_head[i] = t
    /\ \A i, j \in DOMAIN sched_head : sched_head[i] = sched_head[j] => i = j
    /\ maxallowedvalue \in Nat \ {0} /\ mincycle \in Nat \ {0}
    /\ points \in [Table -> Seq(Nat)] /\ duration \in [Table -> Nat]
    /\ repeating \in [Table -> BOOLEAN]
    /\ \A t \in Table : ScheduleTableConsistencyCheck(t) /\ Ordered(t)
    /\ Dispatching \subseteq Table
    /\ Calls \subseteq Call /\ Preempted \subseteq Calls

VARIABLES
    val,     \* the counter
    table,   \* the tables: state, expire_val, expire_curr_index, next
    walk,    \* the tables the increment under way has still to look at
    acting,  \* the walk waits for a task that a point dispatched
    pending, \* a call that has passed its tests, or NoCall
    halted   \* an assert failed, or a null pointer was followed

tableVars == <<val, table, walk, acting, pending, halted>>

TableState == {"STOPPED", "NEXT", "RUNNING"}

Count(t) == Len(points[t])
InitialOffset(t) == points[t][1]
FinalOffset(t) == duration[t] - points[t][Count(t)]

CounterAdd(curr, add) ==
    IF add <= maxallowedvalue - curr THEN curr + add
    ELSE add - (maxallowedvalue - curr) - 1

Init ==
    /\ val = 0
    /\ table = [t \in Table |-> [state |-> "STOPPED", expire_val |-> 0,
                                 expire_curr_index |-> 0, next |-> None]]
    /\ walk = << >> /\ acting = FALSE
    /\ pending = NoCall /\ halted = FALSE

\* Application code runs: no walk is under way, or one let a task run.
Free == ~halted /\ (walk # << >> => acting)

-----------------------------------------------------------------------------
(* Services: the tests a call has to pass, and what it does then.          *)

Valid(c) ==
    CASE c.op = "StartRel" ->
            /\ table[c.table].state = "STOPPED"
            /\ c.offset # 0 /\ c.offset + InitialOffset(c.table) <= maxallowedvalue
      [] c.op = "StartAbs" -> table[c.table].state = "STOPPED"
      [] c.op = "Stop"     -> table[c.table].state # "STOPPED"
      [] c.op = "Next"     -> /\ table[c.from].state = "RUNNING"
                              /\ table[c.to].state = "STOPPED"

\* The index and the successor of a stopped table are kept.
Started(t, expire) ==
    [table EXCEPT ![t].state = "RUNNING", ![t].expire_val = expire]

\* StartScheduleTableAbs adds the initial offset without wrapping.
StartEffect(c) ==
    Started(c.table, IF c.op = "StartRel"
                     THEN CounterAdd(val, c.offset + InitialOffset(c.table))
                     ELSE c.offset + InitialOffset(c.table))

StopEffect(t) == [table EXCEPT ![t].state = "STOPPED"]

\* The table that was to be next stays so.
NextEffectFaulty(from, to) ==
    [table EXCEPT ![from].next = to,
                  ![to].state = "NEXT", ![to].expire_curr_index = 0]

\* The table that was to be next is stopped first.
NextEffect(from, to) ==
    LET old == table[from].next
        freed == IF old = None THEN table ELSE [table EXCEPT ![old].state = "STOPPED"]
    IN  [freed EXCEPT ![from].next = to,
                      ![to].state = "NEXT", ![to].expire_curr_index = 0]

\* A call with interrupts disabled.  NextScheduleTable looks again whether
\* the table still runs; if not it stops the table's successor, if any.
Effect(c) ==
    CASE c.op \in {"StartRel", "StartAbs"} ->
            table' = StartEffect(c) /\ UNCHANGED halted
      [] c.op = "Stop" -> table' = StopEffect(c.table) /\ UNCHANGED halted
      [] c.op = "Next" /\ table[c.from].state # "STOPPED" ->
            table' = NextEffect(c.from, c.to) /\ UNCHANGED halted
      [] c.op = "Next" /\ table[c.from].state = "STOPPED" ->
            LET old == table[c.from].next
            IN  /\ halted' = (old = None)
                /\ table' = IF old = None THEN table ELSE StopEffect(old)

\* A call that nothing comes between,
Serve(c) ==
    /\ Free /\ Valid(c)
    /\ Effect(c)
    /\ UNCHANGED <<val, walk, acting, pending>>

\* or one that is preempted after its tests.
Tested(c) ==
    /\ ~halted /\ walk = << >> /\ c \in Preempted /\ pending = NoCall /\ Valid(c)
    /\ pending' = c
    /\ UNCHANGED <<val, table, walk, acting, halted>>

Resume ==
    /\ ~halted /\ walk = << >> /\ pending # NoCall
    /\ Effect(pending)
    /\ pending' = NoCall
    /\ UNCHANGED <<val, walk, acting>>

-----------------------------------------------------------------------------
(* The increment and its walk.                                             *)

IncrementCounter ==
    /\ ~halted /\ walk = << >>
    /\ val' = CounterAdd(val, 1)
    /\ walk' = sched_head
    /\ UNCHANGED <<table, acting, pending, halted>>

At(t) == ~halted /\ walk # << >> /\ ~acting /\ t = Head(walk)

Hit(t) == table[t].state = "RUNNING" /\ val = table[t].expire_val

\* The point the table has reached is one of its expiry points, not its end.
AtPoint(t) == table[t].expire_curr_index < Count(t)

Rearmed(t, delta, index) ==
    [table EXCEPT ![t].expire_val = CounterAdd(val, delta), ![t].expire_curr_index = index]

\* The successor starts from the first point's offset of this table.
HandOverFaulty(t, n) ==
    [table EXCEPT ![t].state = "STOPPED", ![t].expire_curr_index = 0,
                  ![n].state = "RUNNING",
                  ![n].expire_val = CounterAdd(val, InitialOffset(t))]

HandOver(t, n) ==
    [table EXCEPT ![t].state = "STOPPED", ![t].expire_curr_index = 0,
                  ![n].state = "RUNNING",
                  ![n].expire_val = CounterAdd(val, InitialOffset(n))]

\* The end of a table: its successor takes over, or it starts again, or stops.
RoundEnds(t) ==
    LET n == table[t].next
    IN  /\ halted' = (n # None /\ table[n].state # "NEXT")
        /\ table' = IF n # None THEN HandOver(t, n)
                    ELSE IF repeating[t] THEN Rearmed(t, InitialOffset(t), 0)
                    ELSE [table EXCEPT ![t].state = "STOPPED", ![t].expire_curr_index = 0]

\* Os_SchTblUpdateState.  The check excludes a final offset of zero.
UpdateState(t) ==
    LET i == table[t].expire_curr_index
    IN  \/ i = Count(t) /\ RoundEnds(t)
        \/ /\ i = Count(t) - 1
           /\ table' = Rearmed(t, FinalOffset(t), i + 1) /\ UNCHANGED halted
        \/ /\ i < Count(t) - 1
           /\ table' = Rearmed(t, points[t][i + 2] - points[t][i + 1], i + 1)
           /\ UNCHANGED halted

StepOver == walk' = Tail(walk)

NotHit(t) ==
    At(t) /\ ~Hit(t) /\ StepOver /\ UNCHANGED <<val, table, acting, pending, halted>>

\* One table for each increment.
ExpireFaulty(t) ==
    /\ At(t) /\ Hit(t)
    /\ UpdateState(t) /\ walk' = << >>
    /\ UNCHANGED <<val, acting, pending>>

\* The point's actions are done, and the walk goes on at once,
Expire(t) ==
    /\ At(t) /\ Hit(t)
    /\ UpdateState(t) /\ StepOver
    /\ UNCHANGED <<val, acting, pending>>

\* The end of a round is taken for a point.
ExpirePreemptedFaulty(t) ==
    /\ At(t) /\ Hit(t) /\ t \in Dispatching
    /\ acting' = TRUE
    /\ UNCHANGED <<val, table, walk, pending, halted>>

\* or when the task they dispatched is back.
ExpirePreempted(t) ==
    /\ At(t) /\ Hit(t) /\ AtPoint(t) /\ t \in Dispatching
    /\ acting' = TRUE
    /\ UNCHANGED <<val, table, walk, pending, halted>>

GoOn ==
    /\ ~halted /\ acting
    /\ UpdateState(Head(walk)) /\ StepOver
    /\ acting' = FALSE
    /\ UNCHANGED <<val, pending>>

-----------------------------------------------------------------------------

Next ==
    \/ \E c \in Calls : Serve(c) \/ Tested(c)
    \/ Resume
    \/ IncrementCounter
    \/ \E t \in Table : NotHit(t) \/ Expire(t) \/ ExpirePreempted(t)
    \/ GoOn

Spec == Init /\ [][Next]_tableVars
=============================================================================
