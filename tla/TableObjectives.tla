-------------------------- MODULE TableObjectives --------------------------
(***************************************************************************)
(* What OsSchedTable promises.  The observer keeps, for each table started *)
(* from its first point, how far into its round it is by what the caller   *)
(* asked for, and whether the calls so far have left the chains of         *)
(* successors alone; it never guards a step.                               *)
(***************************************************************************)
EXTENDS OsSchedTable

VARIABLES
    timed,   \* the running tables whose round began at its first point
    elapsed, \* ticks into the round: negative before it begins, 0 if not timed
    orderly  \* no chained table was stopped, started or chained again

observedVars == <<tableVars, timed, elapsed, orderly>>

CounterDiff(curr, old) ==
    IF curr >= old THEN curr - old ELSE curr + (maxallowedvalue - old) + 1

\* The walk has still to look at the table.
Ahead(t) == \E i \in 2..Len(walk) : walk[i] = t

\* Ticks until the counter has value v and the walk comes by the table.
TicksTo(t, v) ==
    IF v # val THEN CounterDiff(v, val) ELSE IF Ahead(t) THEN 0 ELSE maxallowedvalue + 1

ObservedInit ==
    /\ Init
    /\ timed = {} /\ elapsed = [t \in Table |-> 0] /\ orderly = TRUE

\* Tables that no longer run are forgotten; `fresh` begin at `at`.
Observe(fresh, at) ==
    /\ timed' = fresh \cup {t \in timed : table'[t].state = "RUNNING"}
    /\ elapsed' = [t \in Table |-> IF t \in fresh THEN at
                                   ELSE IF t \in timed' THEN elapsed[t] ELSE 0]

-----------------------------------------------------------------------------
(* Services.                                                               *)

\* A start begins a round unless the table was stopped half way, its point is
\* under way, or the value it asks for is beyond the counter's range.
BeginsRound(c) ==
    /\ table[c.table].expire_curr_index = 0
    /\ c.offset + InitialOffset(c.table) <= maxallowedvalue
    /\ ~(acting /\ c.table = Head(walk))

\* When the first point is due, by the words of OS278 and OS351.
FirstPoint(c) ==
    IF c.op = "StartRel" THEN c.offset + InitialOffset(c.table)
    ELSE TicksTo(c.table, c.offset + InitialOffset(c.table))

ObserveStart(c) ==
    LET t == c.table
    IN  IF BeginsRound(c)
        THEN Observe({t}, InitialOffset(t) - FirstPoint(c))
        ELSE /\ timed' = timed \ {t} /\ elapsed' = [elapsed EXCEPT ![t] = 0]

\* The chains stay as NextScheduleTable made them.
KeepsChains(c) ==
    CASE c.op \in {"StartRel", "StartAbs"} ->
            table[c.table].next = None /\ table[c.table].state # "NEXT"
      [] c.op = "Stop" ->
            /\ table[c.table].state # "NEXT"
            /\ table[c.table].state = "RUNNING" => table[c.table].next = None
      [] c.op = "Next" ->
            /\ table[c.from].state = "RUNNING"
            /\ table[c.to].state = "STOPPED" /\ table[c.to].next = None

ObserveCall(c) ==
    /\ orderly' = (orderly /\ KeepsChains(c))
    /\ IF c.op \in {"StartRel", "StartAbs"} THEN ObserveStart(c) ELSE Observe({}, 0)

-----------------------------------------------------------------------------
(* The walk.                                                               *)

\* Whoever begins a round when one of t ends: not a table whose first point is
\* due at once and which the walk has passed.
Begins(t) ==
    LET n == IF table[t].next # None THEN table[t].next ELSE t
    IN  {m \in {n} : /\ table'[m].state = "RUNNING"
                     /\ table'[m].expire_curr_index = 0
                     /\ InitialOffset(m) > 0 \/ Ahead(m)}

ObserveUpdate(t) ==
    /\ IF AtPoint(t) THEN UNCHANGED <<timed, elapsed>>
       ELSE /\ timed' = Begins(t) \cup (timed \ {t})
            /\ elapsed' = [elapsed EXCEPT ![t] = 0]
    /\ UNCHANGED orderly

ObserveIncrement ==
    /\ elapsed' = [t \in Table |-> IF t \in timed THEN elapsed[t] + 1 ELSE 0]
    /\ UNCHANGED <<timed, orderly>>

ObservedNext ==
    \/ \E c \in Calls : Serve(c) /\ ObserveCall(c)
    \/ Resume /\ ObserveCall(pending)
    \/ IncrementCounter /\ ObserveIncrement
    \/ \E t \in Table : Expire(t) /\ ObserveUpdate(t)
    \/ GoOn /\ ObserveUpdate(Head(walk))
    \/ /\ (\E c \in Calls : Tested(c)) \/ \E t \in Table : NotHit(t) \/ ExpirePreempted(t)
       /\ UNCHANGED <<timed, elapsed, orderly>>

ObservedSpec == ObservedInit /\ [][ObservedNext]_observedVars

-----------------------------------------------------------------------------

\* StartScheduleTableAbs may leave a value beyond the counter's range.
ExpireValues == 0..(2 * maxallowedvalue)

TableType == [state : TableState, expire_val : ExpireValues,
              expire_curr_index : Nat, next : Table \cup {None}]

TypeOK ==
    /\ val \in Ticks
    /\ table \in [Table -> TableType]
    /\ \A t \in Table : table[t].expire_curr_index <= Count(t)
    /\ walk \in Seq(Table) /\ acting \in BOOLEAN /\ halted \in BOOLEAN
    /\ pending \in Calls \cup {NoCall}
    /\ acting => walk # << >> /\ AtPoint(Head(walk))

\* Where a table's round goes next: its next point, or its end.
Upcoming(t) == IF AtPoint(t) THEN points[t][table[t].expire_curr_index + 1] ELSE duration[t]

\* An expiry point is performed when exactly its offset has passed since the
\* round began, and the round ends after the table's duration: rounds neither
\* drift nor lose a tick when the counter overruns, when the table repeats or
\* when a successor takes over (os_sched_table.c:85-179).
PointsOnTime ==
    [][\A t \in timed : Expire(t) \/ ExpirePreempted(t) => elapsed[t] = Upcoming(t)]_observedVars

\* And no point is left behind when the walk of an increment is over, even if
\* tasks dispatched in the middle of it start, stop and chain tables.
NoPointMissed == walk = << >> => \A t \in timed : elapsed[t] < Upcoming(t)

\* A table waits to be next exactly while one running table has it as its
\* successor, so the assertion of Os_SchTblUpdateState holds
\* ("assert( nextStblPtr->state==SCHEDULETABLE_NEXT )", os_sched_table.c:131),
\* as long as nobody stops, starts or chains again a table of a chain.
ChainExact ==
    orderly =>
        /\ ~halted
        /\ \A t \in Table :
              table[t].state = "RUNNING" /\ table[t].next # None =>
                  table[table[t].next].state = "NEXT"
        /\ \A n \in Table :
              table[n].state = "NEXT" =>
                  \E t \in Table : \A u \in Table :
                      u = t <=> table[u].state = "RUNNING" /\ table[u].next = n
=============================================================================
