----------------------- MODULE TableObjectives_proofs -----------------------
(* Proofs about schedule tables, for every counter, every set of tables and *)
(* every set of calls.                                                      *)
EXTENDS TableObjectives, TLAPS

-----------------------------------------------------------------------------
(* The constants.                                                          *)

\* What the consistency check leaves of a table's offsets.
LEMMA TableFacts ==
    /\ None \notin Table
    /\ maxallowedvalue \in Nat /\ maxallowedvalue >= 1
    /\ \A t \in Table :
          /\ points[t] \in Seq(Nat) /\ Count(t) \in Nat /\ Count(t) >= 1
          /\ InitialOffset(t) \in Ticks
          /\ FinalOffset(t) \in Ticks /\ FinalOffset(t) >= 1
          /\ duration[t] \in Nat
          /\ \A i \in 1..Count(t) : points[t][i] \in Nat
          /\ \A i \in 2..Count(t) : /\ points[t][i] - points[t][i - 1] \in Ticks
                                    /\ points[t][i] - points[t][i - 1] >= 1
  <1>1. /\ None \notin Table
        /\ maxallowedvalue \in Nat /\ maxallowedvalue >= 1
        /\ mincycle \in Nat /\ mincycle >= 1
    BY TableAssumption
  <1>2. ASSUME NEW t \in Table
        PROVE  /\ points[t] \in Seq(Nat) /\ Count(t) \in Nat /\ Count(t) >= 1
               /\ InitialOffset(t) \in Ticks
               /\ FinalOffset(t) \in Ticks /\ FinalOffset(t) >= 1
               /\ duration[t] \in Nat
               /\ \A i \in 1..Count(t) : points[t][i] \in Nat
               /\ \A i \in 2..Count(t) : /\ points[t][i] - points[t][i - 1] \in Ticks
                                         /\ points[t][i] - points[t][i - 1] >= 1
    <2>1. points[t] \in Seq(Nat) /\ duration[t] \in Nat
      BY TableAssumption
    <2>2. /\ points[t] # << >> /\ points[t][1] <= maxallowedvalue
          /\ duration[t] - points[t][Len(points[t])] \in mincycle..maxallowedvalue
      BY TableAssumption DEF ScheduleTableConsistencyCheck
    <2>3. \A i \in 2..Len(points[t]) : points[t][i] - points[t][i - 1] \in mincycle..maxallowedvalue
      BY TableAssumption DEF Ordered
    <2>4. Len(points[t]) \in Nat /\ Len(points[t]) >= 1
      BY <2>1, <2>2
    <2>5. \A i \in 1..Len(points[t]) : points[t][i] \in Nat
      BY <2>1
    <2>6. InitialOffset(t) \in Ticks
      BY <1>1, <2>2, <2>4, <2>5 DEF InitialOffset, Ticks
    <2>7. FinalOffset(t) \in Ticks /\ FinalOffset(t) >= 1
      BY <1>1, <2>1, <2>2, <2>4, <2>5 DEF FinalOffset, Count, Ticks
    <2>8. \A i \in 2..Len(points[t]) : /\ points[t][i] - points[t][i - 1] \in Ticks
                                       /\ points[t][i] - points[t][i - 1] >= 1
      BY <1>1, <2>3, <2>4, <2>5 DEF Ticks
    <2>9. QED BY <2>1, <2>4, <2>5, <2>6, <2>7, <2>8 DEF Count
  <1>3. QED BY <1>1, <1>2

\* The fields of a call.
LEMMA CallFields ==
    ASSUME NEW c \in Calls
    PROVE  /\ c.op \in {"StartRel", "StartAbs", "Stop", "Next"}
           /\ c.op \in {"StartRel", "StartAbs"} => c.table \in Table /\ c.offset \in Ticks
           /\ c.op = "Stop" => c.table \in Table
           /\ c.op = "Next" => c.from \in Table /\ c.to \in Table
  <1>1. c \in Call
    BY TableAssumption
  <1>2. QED BY <1>1 DEF Call

\* Os_CounterAdd keeps within the counter (os_counter_i.h).
LEMMA CounterAddTyped ==
    /\ \A curr, add \in Ticks : CounterAdd(curr, add) \in Ticks
    /\ \A curr \in Ticks, add \in ExpireValues : CounterAdd(curr, add) \in ExpireValues
    /\ Ticks \subseteq ExpireValues
    /\ \A a, b \in Ticks : a + b \in ExpireValues
  BY TableFacts DEF CounterAdd, Ticks, ExpireValues

-----------------------------------------------------------------------------
(* Types.                                                                  *)

TableTyped ==
    /\ table \in [Table -> TableType]
    /\ \A t \in Table : table[t].expire_curr_index <= Count(t)

\* A call leaves every table where it was in its round, or at its first point.
LEMMA EffectTyped ==
    ASSUME TableTyped, val \in Ticks, halted \in BOOLEAN, NEW c \in Calls, Effect(c)
    PROVE  /\ TableTyped' /\ halted' \in BOOLEAN
           /\ \A t \in Table : table'[t].expire_curr_index \in {table[t].expire_curr_index, 0}
  <1> USE DEF TableTyped, TableType, TableState
  <1>a. \A t \in Table : Count(t) \in Nat /\ Count(t) >= 1 /\ InitialOffset(t) \in Ticks
    BY TableFacts
  <1>1. CASE c.op \in {"StartRel", "StartAbs"}
    <2>1. /\ table' = StartEffect(c) /\ UNCHANGED halted
          /\ c.table \in Table /\ c.offset \in Ticks
      BY <1>1, CallFields DEF Effect
    <2>2. c.offset + InitialOffset(c.table) \in ExpireValues
      BY <2>1, <1>a, CounterAddTyped
    <2>3. \E e \in ExpireValues : table' = Started(c.table, e)
      BY <2>1, <2>2, CounterAddTyped DEF StartEffect
    <2>4. QED BY <2>1, <2>3, <1>a DEF Started
  <1>2. CASE c.op = "Stop"
    <2>1. table' = StopEffect(c.table) /\ UNCHANGED halted /\ c.table \in Table
      BY <1>2, CallFields DEF Effect
    <2>2. QED BY <2>1, <1>a DEF StopEffect
  <1>3. CASE c.op = "Next" /\ table[c.from].state # "STOPPED"
    <2>1. table' = NextEffect(c.from, c.to) /\ UNCHANGED halted
      BY <1>3, CallFields DEF Effect
    <2>2. c.from \in Table /\ c.to \in Table /\ table[c.from].next \in Table \cup {None}
      BY <1>3, CallFields
    <2> DEFINE freed == IF table[c.from].next = None THEN table
                        ELSE [table EXCEPT ![table[c.from].next].state = "STOPPED"]
    <2>3. /\ freed \in [Table -> TableType]
          /\ \A t \in Table : freed[t].expire_curr_index = table[t].expire_curr_index
      BY <2>2
    <2> DEFINE linked == [freed EXCEPT ![c.from].next = c.to]
    <2>4. /\ linked \in [Table -> TableType]
          /\ \A t \in Table : linked[t].expire_curr_index = table[t].expire_curr_index
      <3> HIDE DEF freed
      <3>1. QED BY <2>2, <2>3
    <2>5. table' = [linked EXCEPT ![c.to].state = "NEXT", ![c.to].expire_curr_index = 0]
      BY <2>1 DEF NextEffect
    <2>6. /\ table' \in [Table -> TableType]
          /\ \A t \in Table : table'[t].expire_curr_index \in {table[t].expire_curr_index, 0}
      <3> HIDE DEF linked
      <3>1. QED BY <2>2, <2>4, <2>5
    <2>7. QED BY <2>1, <2>6, <1>a
  <1>4. CASE c.op = "Next" /\ table[c.from].state = "STOPPED"
    <2>1. /\ halted' = (table[c.from].next = None)
          /\ table' = IF table[c.from].next = None THEN table
                      ELSE StopEffect(table[c.from].next)
      BY <1>4, CallFields DEF Effect
    <2>2. table[c.from].next \in Table \cup {None}
      BY <1>4, CallFields
    <2>3. QED BY <2>1, <2>2, <1>a DEF StopEffect
  <1>5. QED BY <1>1, <1>2, <1>3, <1>4, CallFields

\* The end of a point gives the table a value within the counter.
LEMMA UpdateTyped ==
    ASSUME TableTyped, val \in Ticks, halted \in BOOLEAN, NEW t \in Table, UpdateState(t)
    PROVE  TableTyped' /\ halted' \in BOOLEAN
  <1> USE DEF TableTyped, TableType, TableState
  <1>a. \A u \in Table : /\ Count(u) \in Nat /\ Count(u) >= 1
                         /\ InitialOffset(u) \in Ticks /\ FinalOffset(u) \in Ticks
    BY TableFacts
  <1> DEFINE i == table[t].expire_curr_index
  <1>i. i \in Nat /\ i <= Count(t)
    OBVIOUS
  <1>1. ASSUME NEW delta \in Ticks, NEW j \in 0..Count(t), table' = Rearmed(t, delta, j)
        PROVE  TableTyped'
    <2>1. CounterAdd(val, delta) \in ExpireValues
      BY CounterAddTyped
    <2>2. j \in Nat /\ j <= Count(t)
      BY <1>a
    <2>3. QED BY <1>1, <2>1, <2>2 DEF Rearmed
  <1>2. CASE i = Count(t) /\ RoundEnds(t)
    <2>1. halted' \in BOOLEAN
      BY <1>2 DEF RoundEnds
    <2>2. table[t].next \in Table \cup {None}
      OBVIOUS
    <2>3. CASE table[t].next # None
      <3>1. table' = HandOver(t, table[t].next) /\ table[t].next \in Table
        BY <1>2, <2>2, <2>3 DEF RoundEnds
      <3>2. CounterAdd(val, InitialOffset(table[t].next)) \in ExpireValues
        BY <3>1, <1>a, CounterAddTyped
      <3>3. PICK n \in Table, v \in ExpireValues :
                n = table[t].next /\ v = CounterAdd(val, InitialOffset(n))
        BY <3>1, <3>2
      <3>4. table' = [table EXCEPT ![t].state = "STOPPED", ![t].expire_curr_index = 0,
                                   ![n].state = "RUNNING", ![n].expire_val = v]
        BY <3>1, <3>3 DEF HandOver
      <3>5. PICK mid : mid = [table EXCEPT ![t].state = "STOPPED", ![t].expire_curr_index = 0]
        OBVIOUS
      <3>6. mid \in [Table -> TableType] /\ \A u \in Table : mid[u].expire_curr_index <= Count(u)
        <4>1. PICK r : r = [table[t] EXCEPT !.state = "STOPPED", !.expire_curr_index = 0]
          OBVIOUS
        <4>2. r \in TableType /\ r.expire_curr_index = 0
          BY <4>1
        <4>3. mid = [table EXCEPT ![t] = r]
          BY <3>5, <4>1
        <4>4. QED BY <1>a, <4>2, <4>3
      <3>7. /\ table' \in [Table -> TableType]
            /\ \A u \in Table : table'[u].expire_curr_index = mid[u].expire_curr_index
        <4>0. PICK old \in TableType : old = mid[n]
          BY ONLY n \in Table, <3>6
        <4>1. PICK r : r = [old EXCEPT !.state = "RUNNING", !.expire_val = v]
          OBVIOUS
        <4>2. r \in TableType /\ r.expire_curr_index = mid[n].expire_curr_index
          BY ONLY <4>0, <4>1, v \in ExpireValues DEF TableType, TableState
        <4>3. table' = [mid EXCEPT ![n] = r]
          BY <3>4, <3>5, <4>0, <4>1
        <4>4. QED BY <3>6, <4>2, <4>3
      <3>9. QED BY <2>1, <3>6, <3>7
    <2>4. CASE table[t].next = None /\ repeating[t]
      <3>1. table' = Rearmed(t, InitialOffset(t), 0)
        BY <1>2, <2>4 DEF RoundEnds
      <3>2. QED BY <2>1, <3>1, <1>1, <1>a
    <2>5. CASE table[t].next = None /\ ~repeating[t]
      <3>1. table' = [table EXCEPT ![t].state = "STOPPED", ![t].expire_curr_index = 0]
        BY <1>2, <2>5 DEF RoundEnds
      <3>2. /\ table' \in [Table -> TableType]
            /\ \A u \in Table : table'[u].expire_curr_index \in {table[u].expire_curr_index, 0}
        BY <3>1
      <3>3. QED BY <2>1, <3>2, <1>a
    <2>6. QED BY <2>3, <2>4, <2>5
  <1>3. CASE i = Count(t) - 1 /\ table' = Rearmed(t, FinalOffset(t), i + 1) /\ UNCHANGED halted
    BY <1>3, <1>1, <1>a, <1>i
  <1>4. CASE /\ i < Count(t) - 1 /\ UNCHANGED halted
             /\ table' = Rearmed(t, points[t][i + 2] - points[t][i + 1], i + 1)
    <2>1. i + 2 \in 2..Count(t) /\ i + 1 = (i + 2) - 1 /\ i + 1 \in 0..Count(t)
      BY <1>4, <1>a, <1>i
    <2>2. points[t][i + 2] - points[t][i + 1] \in Ticks
      BY <2>1, TableFacts
    <2>3. \E delta \in Ticks, j \in 0..Count(t) : table' = Rearmed(t, delta, j)
      BY <1>4, <2>1, <2>2
    <2>4. TableTyped'
      BY <1>1, <2>3
    <2>5. QED BY <1>4, <2>4
  <1>5. QED BY <1>2, <1>3, <1>4 DEF UpdateState

LEMMA StepKeepsTypeOK == TypeOK /\ [Next]_tableVars => TypeOK'
  <1> SUFFICES ASSUME TypeOK, [Next]_tableVars PROVE TypeOK'
    OBVIOUS
  <1>t. TableTyped /\ val \in Ticks /\ halted \in BOOLEAN
    BY DEF TypeOK, TableTyped
  <1>h. walk # << >> => Head(walk) \in Table /\ Tail(walk) \in Seq(Table)
    BY DEF TypeOK
  <1>1. ASSUME NEW c \in Calls, Effect(c), UNCHANGED <<val, walk, acting>>,
               pending' \in {pending, NoCall}
        PROVE  TypeOK'
    <2>1. /\ TableTyped' /\ halted' \in BOOLEAN
          /\ \A t \in Table : table'[t].expire_curr_index \in {table[t].expire_curr_index, 0}
      BY <1>1, <1>t, EffectTyped
    <2>2. acting' => walk' # << >> /\ AtPoint(Head(walk))'
      <3> SUFFICES ASSUME acting PROVE walk # << >> /\ AtPoint(Head(walk))'
        BY <1>1
      <3>1. walk # << >> /\ table[Head(walk)].expire_curr_index < Count(Head(walk))
        BY DEF TypeOK, AtPoint
      <3>2. 0 < Count(Head(walk))
        BY <3>1, <1>h, TableFacts
      <3>3. QED BY <3>1, <3>2, <2>1, <1>1, <1>h DEF AtPoint
    <2>3. QED BY <1>1, <2>1, <2>2 DEF TypeOK, TableTyped
  <1>2. ASSUME NEW c \in Calls, Serve(c) PROVE TypeOK'
    BY <1>1, <1>2 DEF Serve
  <1>3. ASSUME NEW c \in Calls, Tested(c) PROVE TypeOK'
    BY <1>3 DEF Tested, TypeOK, AtPoint
  <1>4. CASE Resume
    <2>1. pending \in Calls
      BY <1>4 DEF Resume, TypeOK
    <2>2. QED BY <1>1, <1>4, <2>1 DEF Resume
  <1>5. CASE IncrementCounter
    <2>1. val' \in Ticks
      BY <1>5, <1>t, CounterAddTyped, TableFacts DEF IncrementCounter, Ticks
    <2>2. walk' \in Seq(Table) /\ ~acting'
      BY <1>5, TableAssumption DEF IncrementCounter, TypeOK
    <2>3. QED BY <1>5, <2>1, <2>2 DEF IncrementCounter, TypeOK
  <1>6. ASSUME NEW t \in Table, NotHit(t) PROVE TypeOK'
    BY <1>6, <1>h DEF NotHit, At, StepOver, TypeOK
  <1>7. ASSUME NEW t \in Table, Expire(t) PROVE TypeOK'
    <2>1. TableTyped' /\ halted' \in BOOLEAN
      BY <1>7, <1>t, UpdateTyped DEF Expire
    <2>2. QED BY <1>7, <2>1, <1>h DEF Expire, At, StepOver, TypeOK, TableTyped
  <1>8. ASSUME NEW t \in Table, ExpirePreempted(t) PROVE TypeOK'
    BY <1>8 DEF ExpirePreempted, At, TypeOK, AtPoint
  <1>9. CASE GoOn
    <2>0. walk # << >> /\ Head(walk) \in Table
      BY <1>9, <1>h DEF GoOn, TypeOK
    <2>1. TableTyped' /\ halted' \in BOOLEAN
      BY <1>9, <2>0, <1>t, UpdateTyped DEF GoOn
    <2>2. QED BY <1>9, <2>0, <2>1, <1>h DEF GoOn, StepOver, TypeOK, TableTyped
  <1>10. CASE UNCHANGED tableVars
    BY <1>10 DEF tableVars, TypeOK, AtPoint
  <1>11. QED
    BY <1>2, <1>3, <1>4, <1>5, <1>6, <1>7, <1>8, <1>9, <1>10 DEF Next

LEMMA StartsTyped == Init => TypeOK
  <1> SUFFICES ASSUME Init PROVE TypeOK
    OBVIOUS
  <1>1. table \in [Table -> TableType] /\ \A t \in Table : table[t].expire_curr_index <= Count(t)
    BY TableFacts DEF Init, TableType, TableState, ExpireValues
  <1>2. val \in Ticks
    BY TableFacts DEF Init, Ticks
  <1>3. walk \in Seq(Table) /\ pending \in Calls \cup {NoCall}
    BY DEF Init
  <1>4. acting = FALSE /\ halted = FALSE
    BY DEF Init
  <1>5. QED BY <1>1, <1>2, <1>3, <1>4 DEF TypeOK

\* The tables keep their types under any calls; an index never passes the end of
\* its table, and a walk waits only for the actions of a point.
THEOREM TablesTyped == Spec => []TypeOK
  BY StartsTyped, StepKeepsTypeOK, PTL DEF Spec

-----------------------------------------------------------------------------
(* Chains of tables.                                                       *)

\* A running table's successor waits to be next, every table that waits is the
\* successor of one running table, and has no successor itself.
Chains ==
    /\ ~halted
    /\ \A t \in Table :
          table[t].state = "RUNNING" /\ table[t].next # None =>
              table[table[t].next].state = "NEXT"
    /\ \A t, u \in Table :
          /\ table[t].state = "RUNNING" /\ table[u].state = "RUNNING"
          /\ table[t].next = table[u].next /\ table[t].next # None
          => t = u
    /\ \A n \in Table :
          table[n].state = "NEXT" =>
              \E t \in Table : table[t].state = "RUNNING" /\ table[t].next = n
    /\ \A n \in Table : table[n].state = "NEXT" => table[n].next = None

\* Without a successor, a table may start and stop freely.
LEMMA CallKeepsChains ==
    ASSUME TypeOK, Chains, NEW c \in Calls, KeepsChains(c), Effect(c)
    PROVE  Chains'
  <1> USE DEF Chains
  <1>t. /\ table \in [Table -> TableType] /\ None \notin Table
        /\ \A t \in Table : table[t].next \in Table \cup {None}
    BY TableFacts DEF TypeOK, TableType
  <1>1. CASE c.op \in {"StartRel", "StartAbs"}
    <2>1. /\ c.table \in Table /\ UNCHANGED halted
          /\ table[c.table].next = None /\ table[c.table].state # "NEXT"
          /\ table' = StartEffect(c)
      BY <1>1, CallFields DEF Effect, KeepsChains
    <2>2. \A u \in Table : /\ table'[u].state = IF u = c.table THEN "RUNNING" ELSE table[u].state
                           /\ table'[u].next = table[u].next
      BY <2>1, <1>t DEF StartEffect, Started, TableType
    <2>3. QED BY <2>1, <2>2, <1>t
  <1>2. CASE c.op = "Stop"
    <2>1. /\ c.table \in Table /\ UNCHANGED halted
          /\ table[c.table].state # "NEXT"
          /\ table[c.table].state = "RUNNING" => table[c.table].next = None
          /\ table' = StopEffect(c.table)
      BY <1>2, CallFields DEF Effect, KeepsChains
    <2>2. \A u \in Table : /\ table'[u].state = IF u = c.table THEN "STOPPED" ELSE table[u].state
                           /\ table'[u].next = table[u].next
      BY <2>1, <1>t DEF StopEffect, TableType
    <2>3. QED BY <2>1, <2>2, <1>t
  <1>3. CASE c.op = "Next"
    <2>1. /\ c.from \in Table /\ c.to \in Table /\ UNCHANGED halted
          /\ table[c.from].state = "RUNNING"
          /\ table[c.to].state = "STOPPED" /\ table[c.to].next = None
          /\ table' = NextEffect(c.from, c.to)
      BY <1>3, CallFields DEF Effect, KeepsChains
    <2> DEFINE old == table[c.from].next
               freed == IF old = None THEN table ELSE [table EXCEPT ![old].state = "STOPPED"]
    <2>2. old \in Table \cup {None} /\ old # c.to /\ old # c.from /\ c.from # c.to
      BY <2>1, <1>t
    <2>3. /\ freed \in [Table -> TableType]
          /\ \A u \in Table : /\ freed[u].state = IF u = old THEN "STOPPED" ELSE table[u].state
                              /\ freed[u].next = table[u].next
      BY <2>2, <1>t DEF TableType, TableState
    <2>4. table' = [freed EXCEPT ![c.from].next = c.to,
                                 ![c.to].state = "NEXT", ![c.to].expire_curr_index = 0]
      BY <2>1 DEF NextEffect
    <2>5. \A u \in Table :
             /\ table'[u].state = IF u = c.to THEN "NEXT" ELSE freed[u].state
             /\ table'[u].next = IF u = c.from THEN c.to ELSE freed[u].next
      <3> HIDE DEF freed, old
      <3>1. QED BY <2>1, <2>2, <2>3, <2>4 DEF TableType
    <2>6. \A u \in Table :
             /\ table'[u].state = IF u = c.to THEN "NEXT"
                                  ELSE IF u = old THEN "STOPPED" ELSE table[u].state
             /\ table'[u].next = IF u = c.from THEN c.to ELSE table[u].next
      BY <2>3, <2>5
    <2>7. QED BY <2>1, <2>2, <2>6, <1>t
  <1>4. QED BY <1>1, <1>2, <1>3, CallFields

\* The end of a round moves a chain on by one table.
LEMMA UpdateKeepsChains ==
    ASSUME TypeOK, Chains, NEW t \in Table, UpdateState(t),
           AtPoint(t) \/ table[t].state = "RUNNING"
    PROVE  Chains'
  <1> USE DEF Chains
  <1>t. /\ table \in [Table -> TableType] /\ None \notin Table
        /\ \A u \in Table : table[u].next \in Table \cup {None}
    BY TableFacts DEF TypeOK, TableType
  <1>i. table[t].expire_curr_index \in Nat /\ Count(t) \in Nat
    BY <1>t, TableFacts DEF TableType
  <1>1. ASSUME NEW delta, NEW j, table' = Rearmed(t, delta, j), ~halted'
        PROVE  Chains'
    <2>1. \A u \in Table : table'[u].state = table[u].state /\ table'[u].next = table[u].next
      BY <1>1, <1>t DEF Rearmed, TableType
    <2>2. QED BY <1>1, <2>1, <1>t
  <1>2. CASE AtPoint(t)
    <2>1. (\E delta, j : table' = Rearmed(t, delta, j)) /\ ~halted'
      BY <1>2, <1>i DEF UpdateState, AtPoint
    <2>2. QED BY <1>1, <2>1
  <1>3. CASE ~AtPoint(t) /\ table[t].state = "RUNNING"
    <2> DEFINE n == table[t].next
    <2>1. RoundEnds(t)
      BY <1>3, <1>i DEF UpdateState, AtPoint
    <2>2. CASE n # None
      <3>1. /\ n \in Table /\ table[n].state = "NEXT" /\ table[n].next = None /\ n # t
            /\ ~halted' /\ table' = HandOver(t, n)
        BY <1>3, <2>1, <2>2, <1>t DEF RoundEnds
      <3>2. \A u \in Table :
               /\ table'[u].state = IF u = t THEN "STOPPED"
                                    ELSE IF u = n THEN "RUNNING" ELSE table[u].state
               /\ table'[u].next = table[u].next
        <4> HIDE DEF n
        <4>1. QED BY <3>1, <1>t DEF HandOver, TableType
      <3>3. QED BY <1>3, <3>1, <3>2, <1>t
    <2>3. CASE n = None /\ repeating[t]
      <3>1. table' = Rearmed(t, InitialOffset(t), 0) /\ ~halted'
        BY <2>1, <2>3 DEF RoundEnds
      <3>2. QED BY <3>1, <1>1
    <2>4. CASE n = None /\ ~repeating[t]
      <3>1. /\ table' = [table EXCEPT ![t].state = "STOPPED", ![t].expire_curr_index = 0]
            /\ ~halted'
        BY <2>1, <2>4 DEF RoundEnds
      <3>2. \A u \in Table :
               /\ table'[u].state = IF u = t THEN "STOPPED" ELSE table[u].state
               /\ table'[u].next = table[u].next
        BY <3>1, <1>t DEF TableType
      <3>3. QED BY <1>3, <2>4, <3>1, <3>2, <1>t
    <2>5. QED BY <2>2, <2>3, <2>4
  <1>4. QED BY <1>2, <1>3

LEMMA ObservedIsTable == [ObservedNext]_observedVars => [Next]_tableVars
  BY DEF ObservedNext, Next, observedVars, tableVars

LEMMA StepKeepsChains ==
    TypeOK /\ (orderly => Chains) /\ [ObservedNext]_observedVars => (orderly => Chains)'
  <1> SUFFICES ASSUME TypeOK, orderly => Chains, [ObservedNext]_observedVars, orderly'
               PROVE  Chains'
    OBVIOUS
  <1>1. ASSUME NEW c \in Calls, Serve(c), ObserveCall(c) PROVE Chains'
    BY <1>1, CallKeepsChains DEF Serve, ObserveCall
  <1>2. ASSUME Resume, ObserveCall(pending) PROVE Chains'
    <2>1. pending \in Calls /\ Effect(pending)
      BY <1>2 DEF Resume, TypeOK
    <2>2. orderly /\ KeepsChains(pending)
      BY <1>2 DEF ObserveCall
    <2>3. QED BY <2>1, <2>2, CallKeepsChains
  <1>3. ASSUME IncrementCounter, ObserveIncrement PROVE Chains'
    BY <1>3 DEF IncrementCounter, ObserveIncrement, Chains
  <1>4. ASSUME NEW t \in Table, Expire(t), ObserveUpdate(t) PROVE Chains'
    BY <1>4, UpdateKeepsChains DEF Expire, Hit, ObserveUpdate
  <1>5. ASSUME GoOn, ObserveUpdate(Head(walk)) PROVE Chains'
    <2>1. Head(walk) \in Table /\ AtPoint(Head(walk)) /\ UpdateState(Head(walk))
      BY <1>5 DEF GoOn, TypeOK
    <2>2. orderly
      BY <1>5 DEF ObserveUpdate
    <2>3. QED BY <2>1, <2>2, UpdateKeepsChains
  <1>6. ASSUME (\E c \in Calls : Tested(c)) \/ \E t \in Table : NotHit(t) \/ ExpirePreempted(t),
               UNCHANGED <<timed, elapsed, orderly>>
        PROVE  Chains'
    BY <1>6 DEF Tested, NotHit, ExpirePreempted, Chains
  <1>7. CASE UNCHANGED observedVars
    BY <1>7 DEF observedVars, tableVars, Chains
  <1>8. QED
    BY <1>1, <1>2, <1>3, <1>4, <1>5, <1>6, <1>7 DEF ObservedNext

\* While nobody stops, starts or chains again a table of a chain, a table waits to
\* be next exactly while one running table has it as its successor, and no
\* assertion fails (os_sched_table.c:126-141, 418-463).
THEOREM ChainsHold == ObservedSpec => []ChainExact
  <1>1. ObservedInit => TypeOK /\ (orderly => Chains)
    <2>1. ObservedInit => TypeOK
      BY StartsTyped DEF ObservedInit
    <2>2. ObservedInit => Chains
      BY DEF ObservedInit, Init, Chains
    <2>3. QED BY <2>1, <2>2
  <1>2. TypeOK /\ [ObservedNext]_observedVars => TypeOK'
    BY StepKeepsTypeOK, ObservedIsTable
  <1>3. TypeOK /\ (orderly => Chains) => ChainExact
    <2> SUFFICES ASSUME TypeOK, Chains PROVE ChainExact
      BY DEF ChainExact
    <2>1. ASSUME NEW n \in Table, table[n].state = "NEXT"
          PROVE  \E t \in Table : \A u \in Table :
                    u = t <=> table[u].state = "RUNNING" /\ table[u].next = n
      <3>1. PICK t \in Table : table[t].state = "RUNNING" /\ table[t].next = n
        BY <2>1 DEF Chains
      <3>2. \A u \in Table : table[u].state = "RUNNING" /\ table[u].next = n => u = t
        BY <3>1, TableFacts DEF Chains
      <3>3. QED BY <3>1, <3>2
    <2>2. QED BY <2>1 DEF ChainExact, Chains
  <1>4. QED
    BY <1>1, <1>2, <1>3, StepKeepsChains, PTL DEF ObservedSpec

-----------------------------------------------------------------------------
(* Points on time.                                                         *)

InWalk(t) == \E i \in 1..Len(walk) : walk[i] = t

\* Ticks until the walk performs what is due for the table.
TicksLeft(t) ==
    IF table[t].expire_val # val THEN CounterDiff(table[t].expire_val, val)
    ELSE IF InWalk(t) THEN 0 ELSE maxallowedvalue + 1

\* What is left of the way to the upcoming point is what the counter measures.
OnTime(t) ==
    /\ table[t].state = "RUNNING" /\ table[t].expire_val \in Ticks
    /\ elapsed[t] = Upcoming(t) - TicksLeft(t)

\* Each table comes by once in a walk; while the actions of a point are under
\* way its table still shows that point, unless it was stopped.
Timing ==
    /\ \A i, j \in 1..Len(walk) : walk[i] = walk[j] => i = j
    /\ timed \subseteq Table /\ elapsed \in [Table -> Int]
    /\ \A t \in Table \ timed : elapsed[t] = 0
    /\ pending # NoCall /\ pending.op = "StartRel" => pending.offset # 0
    /\ ~halted => \A t \in timed : OnTime(t)
    /\ ~halted /\ acting /\ Head(walk) \in timed => table[Head(walk)].expire_val = val
    /\ halted => NoPointMissed

\* The counter's arithmetic over its overrun.
LEMMA CounterFacts ==
    /\ \A v, w \in Ticks : v # w => CounterDiff(v, w) \in 1..maxallowedvalue
    /\ \A w \in Ticks, add \in 1..maxallowedvalue :
          /\ CounterAdd(w, add) \in Ticks /\ CounterAdd(w, add) # w
          /\ CounterDiff(CounterAdd(w, add), w) = add
    /\ \A w \in Ticks : CounterAdd(w, 0) = w
    /\ \A v, w \in Ticks :
          LET w1 == CounterAdd(w, 1)
          IN  /\ v = w1 => v # w /\ CounterDiff(v, w) = 1
              /\ v # w1 /\ v # w => CounterDiff(v, w1) = CounterDiff(v, w) - 1
              /\ v # w1 /\ v = w => CounterDiff(v, w1) = maxallowedvalue
  BY TableFacts DEF CounterDiff, CounterAdd, Ticks

LEMMA UpcomingFacts ==
    ASSUME TypeOK, NEW t \in Table
    PROVE  /\ table[t].expire_curr_index \in Nat
           /\ Upcoming(t) \in Int
           /\ table[t].expire_curr_index = 0 => Upcoming(t) = InitialOffset(t)
  <1>1. table[t].expire_curr_index \in Nat
    BY DEF TypeOK, TableType
  <1>2. QED BY <1>1, TableFacts DEF Upcoming, AtPoint, InitialOffset

\* With no walk under way, whatever is due is still to come.
StillToCome == \A t \in Table : OnTime(t) /\ ~InWalk(t) => elapsed[t] < Upcoming(t)

LEMMA OnTimeAhead == TypeOK => StillToCome
  <1> SUFFICES ASSUME TypeOK, NEW t \in Table, OnTime(t), ~InWalk(t)
               PROVE  elapsed[t] < Upcoming(t)
    BY DEF StillToCome
  <1>1. val \in Ticks /\ table[t].expire_val \in Ticks
    BY DEF TypeOK, OnTime
  <1>2. \A v, w \in Ticks : v # w => CounterDiff(v, w) \in 1..maxallowedvalue
    BY CounterFacts
  <1>3. TicksLeft(t) \in 1..(maxallowedvalue + 1)
    BY <1>1, <1>2, TableFacts DEF TicksLeft
  <1>4. QED BY <1>3, UpcomingFacts, TableFacts DEF OnTime

LEMMA WalkFacts ==
    ASSUME walk \in Seq(Table), walk # << >>, walk' = Tail(walk),
           \A i, j \in 1..Len(walk) : walk[i] = walk[j] => i = j
    PROVE  /\ \A i, j \in 1..Len(walk') : walk'[i] = walk'[j] => i = j
           /\ \A t \in Table : InWalk(t)' <=> InWalk(t) /\ t # Head(walk)
           /\ \A t \in Table : Ahead(t) <=> InWalk(t) /\ t # Head(walk)
           /\ Head(walk) \in Table /\ InWalk(Head(walk))
  <1>1. /\ Len(walk) \in Nat /\ Len(walk) >= 1 /\ Len(Tail(walk)) = Len(walk) - 1
        /\ \A i \in 1..(Len(walk) - 1) : Tail(walk)[i] = walk[i + 1]
        /\ Head(walk) = walk[1] /\ walk[1] \in Table
    OBVIOUS
  <1>2. \A i, j \in 1..Len(walk') : walk'[i] = walk'[j] => i = j
    BY <1>1
  <1>3. \A t \in Table : Ahead(t) <=> InWalk(t) /\ t # Head(walk)
    BY <1>1 DEF Ahead, InWalk
  <1>4. \A t \in Table : InWalk(t)' <=> Ahead(t)
    <2>1. SUFFICES ASSUME NEW t \in Table PROVE InWalk(t)' <=> Ahead(t)
      OBVIOUS
    <2>2. ASSUME InWalk(t)' PROVE Ahead(t)
      <3>1. PICK i \in 1..Len(walk') : walk'[i] = t
        BY <2>2 DEF InWalk
      <3>2. i + 1 \in 2..Len(walk) /\ walk[i + 1] = t
        BY <1>1, <3>1
      <3>3. QED BY <3>2 DEF Ahead
    <2>3. ASSUME Ahead(t) PROVE InWalk(t)'
      <3>1. PICK i \in 2..Len(walk) : walk[i] = t
        BY <2>3 DEF Ahead
      <3>2. i - 1 \in 1..Len(walk') /\ walk'[i - 1] = t
        BY <1>1, <3>1
      <3>3. QED BY <3>2 DEF InWalk
    <2>4. QED BY <2>2, <2>3
  <1>5. QED BY <1>1, <1>2, <1>3, <1>4 DEF InWalk

\* A table whose fields, place and observation stay is as much on time as before.
LEMMA StaysOnTime ==
    ASSUME NEW t \in Table, OnTime(t), val' = val,
           table'[t].state = "RUNNING",
           table'[t].expire_val = table[t].expire_val,
           table'[t].expire_curr_index = table[t].expire_curr_index,
           elapsed'[t] = elapsed[t],
           InWalk(t)' <=> InWalk(t)
    PROVE  OnTime(t)'
  <1>1. TicksLeft(t)' = TicksLeft(t)
    BY DEF TicksLeft, CounterDiff
  <1>2. Upcoming(t)' = Upcoming(t)
    BY DEF Upcoming, AtPoint
  <1>3. QED BY <1>1, <1>2 DEF OnTime

-----------------------------------------------------------------------------
(* Calls.                                                                  *)

\* A call moves nobody who runs but the table it starts.
LEMMA CallSpares ==
    ASSUME TypeOK, NEW c \in Calls, Effect(c), NEW u \in Table,
           table'[u].state = "RUNNING",
           c.op \in {"StartRel", "StartAbs"} => u # c.table
    PROVE  /\ table'[u].expire_val = table[u].expire_val
           /\ table'[u].expire_curr_index = table[u].expire_curr_index
  <1>t. /\ table \in [Table -> TableType] /\ None \notin Table
        /\ \A t \in Table : table[t].next \in Table \cup {None}
    BY TableFacts DEF TypeOK, TableType
  <1>1. CASE c.op \in {"StartRel", "StartAbs"}
    <2>1. table' = StartEffect(c) /\ c.table \in Table
      BY <1>1, CallFields DEF Effect
    <2>2. QED BY <1>1, <2>1, <1>t DEF StartEffect, Started, TableType
  <1>2. CASE c.op = "Stop"
    <2>1. table' = StopEffect(c.table) /\ c.table \in Table
      BY <1>2, CallFields DEF Effect
    <2>2. QED BY <2>1, <1>t DEF StopEffect, TableType
  <1>3. CASE c.op = "Next" /\ table[c.from].state # "STOPPED"
    <2>1. table' = NextEffect(c.from, c.to) /\ c.from \in Table /\ c.to \in Table
      BY <1>3, CallFields DEF Effect
    <2> DEFINE old == table[c.from].next
               freed == IF old = None THEN table ELSE [table EXCEPT ![old].state = "STOPPED"]
               linked == [freed EXCEPT ![c.from].next = c.to]
    <2>2. old \in Table \cup {None}
      BY <2>1, <1>t
    <2>3. /\ freed \in [Table -> TableType]
          /\ freed[u].expire_val = table[u].expire_val
          /\ freed[u].expire_curr_index = table[u].expire_curr_index
      BY <2>2, <1>t DEF TableType, TableState
    <2>4. /\ linked \in [Table -> TableType]
          /\ linked[u].expire_val = table[u].expire_val
          /\ linked[u].expire_curr_index = table[u].expire_curr_index
      <3> HIDE DEF freed
      <3>1. QED BY <2>1, <2>3 DEF TableType
    <2>5. table' = [linked EXCEPT ![c.to].state = "NEXT", ![c.to].expire_curr_index = 0]
      BY <2>1 DEF NextEffect
    <2>6. QED
      <3> HIDE DEF linked
      <3>1. QED BY <2>1, <2>4, <2>5 DEF TableType
  <1>4. CASE c.op = "Next" /\ table[c.from].state = "STOPPED"
    <2>1. table' = IF table[c.from].next = None THEN table
                   ELSE StopEffect(table[c.from].next)
      BY <1>4, CallFields DEF Effect
    <2>2. table[c.from].next \in Table \cup {None}
      BY <1>4, CallFields, <1>t
    <2>3. QED BY <2>1, <2>2, <1>t DEF StopEffect, TableType
  <1>5. QED BY <1>1, <1>2, <1>3, <1>4, CallFields

\* A start from the first point puts the table on time by the words of OS278 and
\* OS351, in the middle of a walk too.
LEMMA StartOnTime ==
    ASSUME TypeOK, NEW c \in Calls, Effect(c), c.op \in {"StartRel", "StartAbs"},
           c.op = "StartRel" => c.offset # 0, BeginsRound(c),
           UNCHANGED <<val, walk>>, walk # << >> => acting,
           \A i, j \in 1..Len(walk) : walk[i] = walk[j] => i = j,
           elapsed'[c.table] = InitialOffset(c.table) - FirstPoint(c)
    PROVE  OnTime(c.table)'
  <1> DEFINE t == c.table
             v == c.offset + InitialOffset(t)
  <1>t. table \in [Table -> TableType] /\ val \in Ticks /\ walk \in Seq(Table)
    BY DEF TypeOK
  <1>c. t \in Table /\ c.offset \in Ticks /\ InitialOffset(t) \in Ticks
    BY CallFields, TableFacts
  <1>1. /\ table'[t].state = "RUNNING"
        /\ table'[t].expire_val = IF c.op = "StartRel" THEN CounterAdd(val, v) ELSE v
        /\ table'[t].expire_curr_index = 0
    <2>1. table' = StartEffect(c)
      BY DEF Effect
    <2>2. table[t].expire_curr_index = 0
      BY DEF BeginsRound
    <2>3. QED BY <2>1, <2>2, <1>c, <1>t DEF StartEffect, Started, TableType
  <1>2. v \in Ticks
    BY <1>c, TableFacts DEF BeginsRound, Ticks
  <1>3. Upcoming(t)' = InitialOffset(t)
    BY <1>1, <1>c, TableFacts DEF Upcoming, AtPoint, InitialOffset
  <1>4. Ahead(t) <=> InWalk(t)'
    <2>1. ~(acting /\ t = Head(walk))
      BY DEF BeginsRound
    <2>2. InWalk(t)' <=> InWalk(t)
      BY DEF InWalk
    <2>3. CASE walk = << >>
      BY <2>2, <2>3 DEF InWalk, Ahead
    <2>4. CASE walk # << >>
      <3>1. t # walk[1]
        BY <2>1, <2>4, <1>t
      <3>2. Ahead(t) <=> InWalk(t)
        BY <3>1, <2>4, <1>t DEF Ahead, InWalk
      <3>3. QED BY <2>2, <3>2
    <2>5. QED BY <2>3, <2>4
  <1>5. CASE c.op = "StartRel"
    <2>1. v \in 1..maxallowedvalue
      BY <1>2, <1>c, <1>5, TableFacts DEF Ticks
    <2>2. TicksLeft(t)' = v /\ table'[t].expire_val \in Ticks
      BY <1>1, <1>5, <1>t, <2>1, CounterFacts DEF TicksLeft
    <2>3. FirstPoint(c) = v
      BY <1>5 DEF FirstPoint
    <2>4. QED BY <1>1, <1>3, <2>2, <2>3 DEF OnTime
  <1>6. CASE c.op = "StartAbs"
    <2>1. table'[t].expire_val = v /\ FirstPoint(c) = TicksTo(t, v)
      BY <1>1, <1>6 DEF FirstPoint
    <2>2. TicksLeft(t)' = TicksTo(t, v)
      BY <2>1, <1>4 DEF TicksLeft, TicksTo, CounterDiff
    <2>3. QED BY <1>1, <1>2, <1>3, <2>1, <2>2 DEF OnTime
  <1>7. QED BY <1>5, <1>6

LEMMA CallKeepsTiming ==
    ASSUME TypeOK, TypeOK', Timing, ~halted, NEW c \in Calls, Effect(c), ObserveCall(c),
           UNCHANGED <<val, walk, acting>>, walk # << >> => acting,
           c.op = "StartRel" => c.offset # 0, pending' \in {pending, NoCall}
    PROVE  Timing'
  <1> DEFINE starts == c.op \in {"StartRel", "StartAbs"}
  <1>t. /\ timed \subseteq Table /\ elapsed \in [Table -> Int]
        /\ \A t \in timed : OnTime(t)
        /\ \A t \in Table \ timed : elapsed[t] = 0
        /\ \A i, j \in 1..Len(walk) : walk[i] = walk[j] => i = j
    BY DEF Timing
  <1>w. \A t : InWalk(t)' <=> InWalk(t)
    BY DEF InWalk
  <1>f. starts => FirstPoint(c) \in Int /\ InitialOffset(c.table) \in Int /\ c.table \in Table
    <2> SUFFICES ASSUME starts
                 PROVE  FirstPoint(c) \in Int /\ InitialOffset(c.table) \in Int /\ c.table \in Table
      OBVIOUS
    <2>1. c.table \in Table /\ c.offset \in Nat /\ InitialOffset(c.table) \in Nat
      BY CallFields, TableFacts DEF Ticks
    <2>2. val \in Nat /\ maxallowedvalue \in Nat
      BY TableFacts DEF TypeOK, Ticks
    <2>3. QED BY <2>1, <2>2 DEF FirstPoint, TicksTo, CounterDiff
  <1>1. \A u \in timed' :
           /\ u \in Table
           /\ \/ starts /\ u = c.table /\ BeginsRound(c)
                 /\ elapsed'[u] = InitialOffset(c.table) - FirstPoint(c)
              \/ /\ starts => u # c.table
                 /\ u \in timed /\ elapsed'[u] = elapsed[u] /\ table'[u].state = "RUNNING"
    <2>1. CASE ~starts
      BY <2>1, <1>t DEF ObserveCall, Observe
    <2>2. CASE starts /\ BeginsRound(c)
      BY <2>2, <1>t, <1>f DEF ObserveCall, ObserveStart, Observe
    <2>3. CASE starts /\ ~BeginsRound(c)
      <3>1. /\ timed' = timed \ {c.table}
            /\ elapsed' = [elapsed EXCEPT ![c.table] = 0]
        BY <2>3 DEF ObserveCall, ObserveStart
      <3>2. \A u \in timed' : table'[u].state = "RUNNING"
        <4>1. table' = StartEffect(c)
          BY <2>3 DEF Effect
        <4>2. \A u \in timed : table[u].state = "RUNNING"
          BY <1>t DEF OnTime
        <4>3. QED BY <3>1, <4>1, <4>2, <1>t, <1>f, <2>3 DEF StartEffect, Started, TypeOK, TableType
      <3>3. QED BY <2>3, <3>1, <3>2, <1>t, <1>f
    <2>4. QED BY <2>1, <2>2, <2>3
  <1>2. elapsed' \in [Table -> Int] /\ \A u \in Table \ timed' : elapsed'[u] = 0
    BY <1>t, <1>f DEF ObserveCall, ObserveStart, Observe
  <1>3. ASSUME NEW u \in timed' PROVE OnTime(u)'
    <2>1. CASE starts /\ u = c.table /\ BeginsRound(c)
               /\ elapsed'[u] = InitialOffset(c.table) - FirstPoint(c)
      BY <2>1, <1>t, StartOnTime
    <2>2. CASE /\ starts => u # c.table
               /\ u \in timed /\ elapsed'[u] = elapsed[u] /\ table'[u].state = "RUNNING"
      <3>1. /\ u \in Table
            /\ table'[u].expire_val = table[u].expire_val
            /\ table'[u].expire_curr_index = table[u].expire_curr_index
        BY <2>2, <1>1, CallSpares
      <3>2. QED BY <2>2, <3>1, <1>t, <1>w, StaysOnTime
    <2>3. QED BY <1>1, <2>1, <2>2
  <1>4. acting' /\ Head(walk') \in timed' => table'[Head(walk')].expire_val = val'
    <2> SUFFICES ASSUME acting, Head(walk) \in timed'
                 PROVE  table'[Head(walk)].expire_val = val
      OBVIOUS
    <2>1. ~BeginsRound(c) \/ ~starts \/ Head(walk) # c.table
      BY DEF BeginsRound
    <2>2. /\ Head(walk) \in Table /\ Head(walk) \in timed
          /\ starts => Head(walk) # c.table
          /\ table'[Head(walk)].state = "RUNNING"
      BY <1>1, <2>1
    <2>3. table[Head(walk)].expire_val = val
      BY <2>2 DEF Timing
    <2>4. QED BY <2>2, <2>3, CallSpares
  <1>5. NoPointMissed'
    <2> SUFFICES ASSUME walk' = << >>, NEW u \in timed' PROVE elapsed'[u] < Upcoming(u)'
      BY DEF NoPointMissed
    <2>1. ~InWalk(u)' /\ u \in Table
      BY <1>1 DEF InWalk
    <2>2. TypeOK' => StillToCome'
      BY OnTimeAhead, PTL
    <2>3. QED BY <2>1, <2>2, <1>3 DEF StillToCome
  <1>6. QED BY <1>t, <1>1, <1>2, <1>3, <1>4, <1>5 DEF Timing

-----------------------------------------------------------------------------
(* The walk.                                                               *)

\* A point hands over to the next, as many ticks ahead as their offsets differ.
LEMMA PointPasses ==
    ASSUME TypeOK, NEW t \in Table, AtPoint(t), UpdateState(t)
    PROVE  /\ UNCHANGED halted
           /\ \E delta \in 1..maxallowedvalue :
                 /\ table' = Rearmed(t, delta, table[t].expire_curr_index + 1)
                 /\ Upcoming(t)' = Upcoming(t) + delta
  <1> DEFINE i == table[t].expire_curr_index
  <1>t. table \in [Table -> TableType]
    BY DEF TypeOK
  <1>i. i \in Nat /\ Count(t) \in Nat /\ i < Count(t)
    BY UpcomingFacts, TableFacts DEF AtPoint
  <1>u. Upcoming(t) = points[t][i + 1] /\ points[t][i + 1] \in Nat
    BY <1>i, TableFacts DEF Upcoming, AtPoint
  <1>r. ASSUME NEW delta, table' = Rearmed(t, delta, i + 1)
        PROVE  table'[t].expire_curr_index = i + 1
    BY <1>r, <1>t DEF Rearmed, TableType
  <1>1. CASE i = Count(t) - 1
    <2>1. table' = Rearmed(t, FinalOffset(t), i + 1) /\ UNCHANGED halted
      BY <1>1, <1>i DEF UpdateState
    <2>2. table'[t].expire_curr_index = Count(t)
      BY <2>1, <1>r, <1>1, <1>i
    <2>3. Upcoming(t)' = duration[t]
      BY <2>2, <1>i DEF Upcoming, AtPoint
    <2>4. Upcoming(t) = points[t][Count(t)] /\ duration[t] \in Nat
      BY <1>1, <1>i, <1>u, TableFacts
    <2>5. FinalOffset(t) \in 1..maxallowedvalue
      BY TableFacts DEF Ticks
    <2>6. Upcoming(t) \in Nat
      BY <1>u
    <2>7. Upcoming(t)' = Upcoming(t) + FinalOffset(t)
      BY <2>3, <2>4, <2>6 DEF FinalOffset
    <2>8. QED BY <2>1, <2>5, <2>7
  <1>2. CASE i < Count(t) - 1
    <2> DEFINE delta == points[t][i + 2] - points[t][i + 1]
    <2>1. table' = Rearmed(t, delta, i + 1) /\ UNCHANGED halted
      BY <1>2, <1>i DEF UpdateState
    <2>2. table'[t].expire_curr_index = i + 1 /\ i + 1 < Count(t)
      BY <2>1, <1>r, <1>2, <1>i
    <2>3. Upcoming(t)' = points[t][i + 2]
      BY <2>2, <1>i DEF Upcoming, AtPoint
    <2>4. i + 2 \in 2..Count(t) /\ i + 1 = (i + 2) - 1 /\ i + 2 \in 1..Count(t)
      BY <1>2, <1>i
    <2>5. delta \in Ticks /\ delta >= 1 /\ points[t][i + 2] \in Nat
      BY <2>4, TableFacts
    <2>6. delta \in 1..maxallowedvalue
      BY <2>5, TableFacts DEF Ticks
    <2>7. Upcoming(t)' = Upcoming(t) + delta
      BY <2>3, <2>5, <1>u
    <2>8. QED BY <2>1, <2>6, <2>7
  <1>3. QED BY <1>1, <1>2, <1>i

\* What a round's end leaves of the tables: only the table itself and its
\* successor move, and both start with their first point.
LEMMA RoundPasses ==
    ASSUME TypeOK, NEW t \in Table, ~AtPoint(t), UpdateState(t)
    PROVE  LET n == IF table[t].next # None THEN table[t].next ELSE t
           IN  /\ n \in Table
               /\ \A u \in Table \ {t, n} : table'[u] = table[u]
               /\ table'[t].state = "RUNNING" => t = n
               /\ n # t => table'[n].expire_curr_index = table[n].expire_curr_index
               /\ table'[n].state = "RUNNING" =>
                    /\ table'[n].expire_val = CounterAdd(val, InitialOffset(n))
                    /\ n = t => table'[n].expire_curr_index = 0
               /\ ~halted' => n = t \/ table[n].state = "NEXT"
  <1>t. /\ table \in [Table -> TableType] /\ None \notin Table
        /\ \A u \in Table : table[u].next \in Table \cup {None}
    BY TableFacts DEF TypeOK, TableType
  <1>1. RoundEnds(t)
    <2>1. table[t].expire_curr_index \in Nat /\ Count(t) \in Nat
      BY <1>t, TableFacts DEF TableType
    <2>2. QED BY <2>1 DEF UpdateState, AtPoint
  <1> DEFINE m == table[t].next
  <1>2. CASE m # None
    <2>1. m \in Table /\ table' = HandOver(t, m) /\ (~halted' => table[m].state = "NEXT")
      BY <1>1, <1>2, <1>t DEF RoundEnds
    <2> HIDE DEF m
    <2>2. /\ \A u \in Table \ {t, m} : table'[u] = table[u]
          /\ table'[t].state = "RUNNING" => t = m
          /\ table'[m].expire_val = CounterAdd(val, InitialOffset(m))
          /\ m # t => table'[m].expire_curr_index = table[m].expire_curr_index
          /\ m = t => table'[m].expire_curr_index = 0
      BY <2>1, <1>t DEF HandOver, TableType
    <2>3. QED BY <2>1, <2>2, <1>2 DEF m
  <1>3. CASE m = None /\ repeating[t]
    <2>1. table' = Rearmed(t, InitialOffset(t), 0)
      BY <1>1, <1>3 DEF RoundEnds
    <2>2. QED BY <2>1, <1>3, <1>t DEF Rearmed, TableType
  <1>4. CASE m = None /\ ~repeating[t]
    <2>1. table' = [table EXCEPT ![t].state = "STOPPED", ![t].expire_curr_index = 0]
      BY <1>1, <1>4 DEF RoundEnds
    <2>2. QED BY <2>1, <1>4, <1>t DEF TableType
  <1>5. QED BY <1>2, <1>3, <1>4

\* A table given a value some ticks ahead is on time for it, wherever the walk is.
LEMMA RearmedOnTime ==
    ASSUME TypeOK, NEW t \in Table, NEW add \in Ticks, val' = val,
           table'[t].state = "RUNNING",
           table'[t].expire_val = CounterAdd(val, add),
           add = 0 => InWalk(t)',
           elapsed'[t] = Upcoming(t)' - add
    PROVE  OnTime(t)'
  <1>1. val \in Ticks
    BY DEF TypeOK
  <1>2. CASE add = 0
    <2>1. table'[t].expire_val = val
      BY <1>1, <1>2, CounterFacts
    <2>2. TicksLeft(t)' = 0
      BY <2>1, <1>2 DEF TicksLeft
    <2>3. QED BY <1>1, <1>2, <2>1, <2>2 DEF OnTime
  <1>3. CASE add # 0
    <2>1. add \in 1..maxallowedvalue
      BY <1>3, TableFacts DEF Ticks
    <2>2. /\ table'[t].expire_val \in Ticks /\ table'[t].expire_val # val
          /\ CounterDiff(table'[t].expire_val, val) = add
      BY <1>1, <2>1, CounterFacts
    <2>3. TicksLeft(t)' = add
      BY <2>2 DEF TicksLeft
    <2>4. QED BY <2>2, <2>3 DEF OnTime
  <1>4. QED BY <1>2, <1>3

\* What is performed is on time: nothing is left of its way.
LEMMA PerformedOnTime ==
    ASSUME TypeOK, NEW t \in Table, OnTime(t), InWalk(t), table[t].expire_val = val
    PROVE  elapsed[t] = Upcoming(t)
  <1>1. TicksLeft(t) = 0
    BY DEF TicksLeft
  <1>2. QED BY <1>1, UpcomingFacts DEF OnTime

LEMMA UpdateKeepsTiming ==
    ASSUME TypeOK, TypeOK', Timing, ~halted, walk # << >>, NEW t \in Table, t = Head(walk),
           t \in timed => table[t].expire_val = val,
           AtPoint(t) \/ table[t].state = "RUNNING",
           UpdateState(t), ObserveUpdate(t), StepOver, ~acting', UNCHANGED <<val, pending>>
    PROVE  Timing'
  <1>t. /\ timed \subseteq Table /\ elapsed \in [Table -> Int]
        /\ \A u \in timed : OnTime(u)
        /\ \A u \in Table \ timed : elapsed[u] = 0
        /\ \A i, j \in 1..Len(walk) : walk[i] = walk[j] => i = j
    BY DEF Timing
  <1>w. /\ \A i, j \in 1..Len(walk') : walk'[i] = walk'[j] => i = j
        /\ \A u \in Table : InWalk(u)' <=> InWalk(u) /\ u # t
        /\ \A u \in Table : Ahead(u) <=> InWalk(u) /\ u # t
        /\ InWalk(t)
    BY <1>t, WalkFacts DEF StepOver, TypeOK
  <1>e. t \in timed => elapsed[t] = Upcoming(t)
    BY <1>t, <1>w, PerformedOnTime
  <1>n. ASSUME \A u \in timed' : u \in Table /\ OnTime(u)' PROVE NoPointMissed'
    <2> SUFFICES ASSUME walk' = << >>, NEW u \in timed' PROVE elapsed'[u] < Upcoming(u)'
      BY DEF NoPointMissed
    <2>1. ~InWalk(u)' /\ u \in Table
      BY <1>n DEF InWalk
    <2>2. TypeOK' => StillToCome'
      BY OnTimeAhead, PTL
    <2>3. QED BY <2>1, <2>2, <1>n DEF StillToCome
  <1>1. CASE AtPoint(t)
    <2>1. UNCHANGED <<timed, elapsed>> /\ UNCHANGED halted
      BY <1>1, PointPasses DEF ObserveUpdate
    <2>2. PICK delta \in 1..maxallowedvalue :
             /\ table' = Rearmed(t, delta, table[t].expire_curr_index + 1)
             /\ Upcoming(t)' = Upcoming(t) + delta
      BY <1>1, PointPasses
    <2>3. /\ \A u \in Table \ {t} : table'[u] = table[u]
          /\ table'[t].expire_val = CounterAdd(val, delta)
          /\ table'[t].state = table[t].state
      BY <2>2 DEF Rearmed, TypeOK, TableType
    <2>4. ASSUME NEW u \in timed, u # t PROVE OnTime(u)'
      <3>1. u \in Table /\ table'[u] = table[u] /\ elapsed'[u] = elapsed[u]
        BY <2>1, <2>3, <2>4, <1>t
      <3>2. table[u].state = "RUNNING"
        BY <1>t DEF OnTime
      <3>3. QED BY <3>1, <3>2, <2>4, <1>t, <1>w, StaysOnTime
    <2>5. ASSUME t \in timed PROVE OnTime(t)'
      <3>1. delta \in Ticks /\ delta # 0
        BY TableFacts DEF Ticks
      <3>2. elapsed'[t] = Upcoming(t)' - delta
        BY <2>1, <2>2, <2>5, <1>e, UpcomingFacts, TableFacts
      <3>3. table'[t].state = "RUNNING"
        BY <2>3, <2>5, <1>t DEF OnTime
      <3>4. QED BY <2>3, <3>1, <3>2, <3>3, RearmedOnTime
    <2>6. \A u \in timed' : u \in Table /\ OnTime(u)'
      BY <2>1, <2>4, <2>5, <1>t
    <2>7. QED BY <2>1, <2>6, <1>n, <1>t, <1>w DEF Timing
  <1>2. CASE ~AtPoint(t)
    <2>1. /\ timed' = Begins(t) \cup (timed \ {t})
          /\ elapsed' = [elapsed EXCEPT ![t] = 0]
      BY <1>2 DEF ObserveUpdate
    <2>2. PICK n \in Table :
          /\ n = IF table[t].next # None THEN table[t].next ELSE t
          /\ \A u \in Table \ {t, n} : table'[u] = table[u]
          /\ table'[t].state = "RUNNING" => t = n
          /\ n # t => table'[n].expire_curr_index = table[n].expire_curr_index
          /\ table'[n].state = "RUNNING" =>
               /\ table'[n].expire_val = CounterAdd(val, InitialOffset(n))
               /\ n = t => table'[n].expire_curr_index = 0
          /\ ~halted' => n = t \/ table[n].state = "NEXT"
      BY <1>2, RoundPasses
    <2>3. \A u \in Begins(t) :
             /\ u = n /\ table'[n].state = "RUNNING" /\ table'[n].expire_curr_index = 0
             /\ InitialOffset(n) > 0 \/ Ahead(n)
      BY <2>2 DEF Begins
    <2>4. timed' \subseteq Table /\ elapsed' \in [Table -> Int]
      BY <2>1, <2>2, <2>3, <1>t
    <2>5. \A u \in Table \ timed' : elapsed'[u] = 0
      BY <2>1, <1>t
    <2>6. ASSUME NEW u \in timed', u # n PROVE OnTime(u)'
      <3>1. u \in timed /\ u # t
        BY <2>1, <2>3, <2>6
      <3>2. table'[u] = table[u] /\ elapsed'[u] = elapsed[u]
        BY <2>1, <2>2, <2>6, <3>1, <1>t
      <3>3. table'[u].state = "RUNNING"
        BY <3>1, <3>2, <1>t DEF OnTime
      <3>4. QED BY <3>1, <3>2, <3>3, <1>t, <1>w, StaysOnTime
    <2>7. ASSUME n \in Begins(t), elapsed'[n] = 0 PROVE OnTime(n)'
      <3>1. /\ table'[n].state = "RUNNING" /\ table'[n].expire_curr_index = 0
            /\ InitialOffset(n) > 0 \/ Ahead(n)
            /\ table'[n].expire_val = CounterAdd(val, InitialOffset(n))
        BY <2>2, <2>3, <2>7
      <3>2. Upcoming(n)' = InitialOffset(n) /\ InitialOffset(n) \in Ticks
        BY <2>2, <3>1, TableFacts DEF Upcoming, AtPoint, InitialOffset
      <3>3. InitialOffset(n) = 0 => InWalk(n)'
        BY <2>2, <3>1, <1>w
      <3>4. elapsed'[n] = Upcoming(n)' - InitialOffset(n)
        BY <3>2, <2>7, TableFacts DEF Ticks
      <3>5. QED BY <2>2, <3>1, <3>2, <3>3, <3>4, RearmedOnTime
    <2>8. ASSUME ~halted' PROVE \A u \in timed' : OnTime(u)'
      <3>1. n \notin timed \/ n = t
        BY <2>2, <2>8, <1>t DEF OnTime
      <3>2. n \in timed' => n \in Begins(t) /\ elapsed'[n] = 0
        BY <2>1, <2>2, <3>1, <1>t
      <3>3. QED BY <2>6, <2>7, <3>2
    <2>9. ASSUME halted' PROVE NoPointMissed'
      <3> SUFFICES ASSUME walk' = << >>, NEW u \in timed' PROVE elapsed'[u] < Upcoming(u)'
        BY DEF NoPointMissed
      <3>p. TypeOK' => StillToCome'
        BY OnTimeAhead, PTL
      <3>0. u \in Table /\ ~InWalk(u)' /\ StillToCome'
        BY <2>4, <3>p DEF InWalk
      <3>1. CASE OnTime(u)'
        BY <3>0, <3>1 DEF StillToCome
      <3>2. CASE u = n /\ (n \notin timed \/ n = t)
        <4>1. n \in Begins(t) /\ elapsed'[n] = 0
          BY <2>1, <2>2, <3>2, <1>t
        <4>2. OnTime(u)'
          BY <4>1, <3>2, <2>7
        <4>3. QED BY <4>2, <3>0 DEF StillToCome
      <3>3. CASE u = n /\ n \in timed /\ n # t
        <4>1. ~InWalk(n) /\ OnTime(n)
          BY <3>0, <3>3, <1>w, <1>t
        <4>2. elapsed[n] < Upcoming(n)
          BY <4>1, <2>2, OnTimeAhead DEF StillToCome
        <4>3. elapsed'[n] = elapsed[n]
          BY <2>1, <2>2, <3>3, <1>t
        <4>4. table'[n].expire_curr_index = table[n].expire_curr_index
          BY <2>2, <3>3
        <4>5. QED BY <3>3, <4>2, <4>3, <4>4 DEF Upcoming, AtPoint
      <3>4. QED BY <2>6, <3>1, <3>2, <3>3
    <2>10. QED BY <2>4, <2>5, <2>8, <2>9, <1>w, <1>t DEF Timing
  <1>3. QED BY <1>1, <1>2

\* A tick brings every table one tick nearer to what is due for it.
LEMMA IncrementKeepsTiming ==
    ASSUME TypeOK, TypeOK', Timing, IncrementCounter, ObserveIncrement
    PROVE  Timing'
  <1>t. /\ timed \subseteq Table /\ elapsed \in [Table -> Int]
        /\ \A u \in timed : OnTime(u)
        /\ ~halted /\ walk = << >> /\ val \in Ticks
    BY DEF Timing, IncrementCounter, TypeOK
  <1>1. /\ val' = CounterAdd(val, 1) /\ walk' = sched_head
        /\ UNCHANGED <<table, acting, pending, halted, timed>>
        /\ elapsed' = [t \in Table |-> IF t \in timed THEN elapsed[t] + 1 ELSE 0]
        /\ ~acting
    BY DEF IncrementCounter, ObserveIncrement, TypeOK
  <1>2. /\ \A i, j \in 1..Len(sched_head) : sched_head[i] = sched_head[j] => i = j
        /\ \A u \in Table : \E i \in 1..Len(sched_head) : sched_head[i] = u
    BY TableAssumption
  <1>3. ASSUME NEW u \in timed PROVE OnTime(u)'
    <2>1. InWalk(u)' /\ ~InWalk(u) /\ u \in Table
      BY <1>t, <1>1, <1>2 DEF InWalk
    <2> DEFINE v == table[u].expire_val
    <2>2. /\ v \in Ticks /\ table[u].state = "RUNNING"
          /\ elapsed[u] = Upcoming(u) - TicksLeft(u)
      BY <1>t DEF OnTime
    <2>3. TicksLeft(u) = IF v # val THEN CounterDiff(v, val) ELSE maxallowedvalue + 1
      BY <2>1 DEF TicksLeft
    <2>4. TicksLeft(u)' = IF v # val' THEN CounterDiff(v, val') ELSE 0
      BY <1>1, <2>1 DEF TicksLeft, CounterDiff
    <2>5. v # val => CounterDiff(v, val) \in 1..maxallowedvalue
      BY <1>t, <2>2, CounterFacts
    <2>6. LET w1 == CounterAdd(val, 1)
          IN  /\ v = w1 => v # val /\ CounterDiff(v, val) = 1
              /\ v # w1 /\ v # val => CounterDiff(v, w1) = CounterDiff(v, val) - 1
              /\ v # w1 /\ v = val => CounterDiff(v, w1) = maxallowedvalue
      BY <1>t, <2>2, CounterFacts
    <2> HIDE DEF v
    <2>7. TicksLeft(u)' = TicksLeft(u) - 1 /\ TicksLeft(u) \in Int
      BY <1>1, <2>3, <2>4, <2>5, <2>6, TableFacts
    <2>8. Upcoming(u)' = Upcoming(u) /\ Upcoming(u) \in Int
      BY <1>1, <2>1, UpcomingFacts DEF Upcoming, AtPoint
    <2>9. elapsed'[u] = Upcoming(u)' - TicksLeft(u)'
      BY <1>t, <1>1, <2>1, <2>2, <2>7, <2>8
    <2>10. QED BY <1>1, <2>2, <2>9 DEF OnTime, v
  <1>4. elapsed' \in [Table -> Int] /\ \A u \in Table \ timed' : elapsed'[u] = 0
    BY <1>t, <1>1
  <1>5. QED BY <1>t, <1>1, <1>2, <1>3, <1>4 DEF Timing

\* The walk passes by a table that is not due.
LEMMA NotHitKeepsTiming ==
    ASSUME TypeOK, Timing, NEW t \in Table, NotHit(t), UNCHANGED <<timed, elapsed, orderly>>
    PROVE  Timing'
  <1>1. /\ ~halted /\ walk # << >> /\ ~acting /\ t = Head(walk) /\ walk' = Tail(walk)
        /\ UNCHANGED <<val, table, acting, pending, halted, timed, elapsed>>
        /\ ~Hit(t)
    BY DEF NotHit, At, StepOver
  <1>t. /\ timed \subseteq Table
        /\ \A u \in timed : OnTime(u)
        /\ \A i, j \in 1..Len(walk) : walk[i] = walk[j] => i = j
    BY <1>1 DEF Timing
  <1>w. /\ \A i, j \in 1..Len(walk') : walk'[i] = walk'[j] => i = j
        /\ \A u \in Table : InWalk(u)' <=> InWalk(u) /\ u # t
    BY <1>1, <1>t, WalkFacts DEF TypeOK
  <1>2. ASSUME NEW u \in timed, u # t PROVE OnTime(u)'
    <2>1. u \in Table /\ table[u].state = "RUNNING"
      BY <1>t DEF OnTime
    <2>2. QED BY <2>1, <1>1, <1>2, <1>t, <1>w, StaysOnTime
  <1>3. ASSUME t \in timed PROVE OnTime(t)'
    <2>1. OnTime(t) /\ table[t].expire_val # val
      BY <1>1, <1>3, <1>t DEF OnTime, Hit
    <2>2. TicksLeft(t)' = TicksLeft(t)
      BY <1>1, <2>1 DEF TicksLeft, CounterDiff
    <2>3. Upcoming(t)' = Upcoming(t)
      BY <1>1 DEF Upcoming, AtPoint
    <2>4. QED BY <1>1, <2>1, <2>2, <2>3 DEF OnTime
  <1>4. QED BY <1>1, <1>w, <1>2, <1>3 DEF Timing

LEMMA StepKeepsTiming == TypeOK /\ TypeOK' /\ Timing /\ [ObservedNext]_observedVars => Timing'
  <1> SUFFICES ASSUME TypeOK, TypeOK', Timing, [ObservedNext]_observedVars PROVE Timing'
    OBVIOUS
  <1>1. ASSUME NEW c \in Calls, Serve(c), ObserveCall(c) PROVE Timing'
    <2>1. /\ ~halted /\ Effect(c) /\ UNCHANGED <<val, walk, acting, pending>>
          /\ walk # << >> => acting
          /\ c.op = "StartRel" => c.offset # 0
      BY <1>1 DEF Serve, Free, Valid
    <2>2. QED BY <2>1, <1>1, CallKeepsTiming
  <1>2. ASSUME Resume, ObserveCall(pending) PROVE Timing'
    <2>1. PICK c \in Calls : c = pending
      BY <1>2 DEF Resume, TypeOK
    <2>2. /\ ~halted /\ Effect(c) /\ ObserveCall(c) /\ UNCHANGED <<val, walk, acting>>
          /\ walk = << >> /\ pending' = NoCall
          /\ c.op = "StartRel" => c.offset # 0
      BY <1>2, <2>1 DEF Resume, Timing
    <2>3. QED BY <2>2, CallKeepsTiming
  <1>3. ASSUME IncrementCounter, ObserveIncrement PROVE Timing'
    BY <1>3, IncrementKeepsTiming
  <1>4. ASSUME NEW t \in Table, Expire(t), ObserveUpdate(t) PROVE Timing'
    <2>1. /\ ~halted /\ walk # << >> /\ t = Head(walk) /\ ~acting' /\ StepOver
          /\ UNCHANGED <<val, pending>> /\ UpdateState(t)
          /\ table[t].expire_val = val /\ table[t].state = "RUNNING"
      BY <1>4 DEF Expire, At, Hit
    <2>2. QED BY <2>1, <1>4, UpdateKeepsTiming
  <1>5. ASSUME GoOn, ObserveUpdate(Head(walk)) PROVE Timing'
    <2>0. walk # << >> /\ Head(walk) \in Table /\ AtPoint(Head(walk))
      BY <1>5 DEF GoOn, TypeOK
    <2>1. PICK t \in Table : t = Head(walk)
      BY <2>0
    <2>2. /\ ~halted /\ ~acting' /\ StepOver /\ UNCHANGED <<val, pending>>
          /\ UpdateState(t) /\ ObserveUpdate(t) /\ AtPoint(t)
          /\ t \in timed => table[t].expire_val = val
      BY <1>5, <2>0, <2>1 DEF GoOn, Timing
    <2>3. QED BY <2>0, <2>1, <2>2, UpdateKeepsTiming
  <1>6. ASSUME NEW c \in Calls, Tested(c), UNCHANGED <<timed, elapsed, orderly>> PROVE Timing'
    <2>1. /\ UNCHANGED <<val, table, walk, acting, halted, timed, elapsed>>
          /\ pending' = c /\ (c.op = "StartRel" => c.offset # 0) /\ ~halted
      BY <1>6 DEF Tested, Valid
    <2>2. \A u \in timed : OnTime(u) => OnTime(u)'
      BY <2>1 DEF OnTime, Upcoming, AtPoint, TicksLeft, InWalk, CounterDiff
    <2>3. QED BY <2>1, <2>2 DEF Timing
  <1>7. ASSUME NEW t \in Table, NotHit(t), UNCHANGED <<timed, elapsed, orderly>> PROVE Timing'
    BY <1>7, NotHitKeepsTiming
  <1>8. ASSUME NEW t \in Table, ExpirePreempted(t), UNCHANGED <<timed, elapsed, orderly>>
        PROVE  Timing'
    <2>1. /\ UNCHANGED <<val, table, walk, pending, halted, timed, elapsed>> /\ ~halted
          /\ t = Head(walk) /\ table[t].expire_val = val
      BY <1>8 DEF ExpirePreempted, At, Hit
    <2>2. \A u \in timed : OnTime(u) => OnTime(u)'
      BY <2>1 DEF OnTime, Upcoming, AtPoint, TicksLeft, InWalk, CounterDiff
    <2>3. QED BY <2>1, <2>2 DEF Timing
  <1>9. CASE UNCHANGED observedVars
    <2>1. UNCHANGED <<val, table, walk, acting, pending, halted, timed, elapsed>>
      BY <1>9 DEF observedVars, tableVars
    <2>2. \A u \in timed : OnTime(u) => OnTime(u)'
      BY <2>1 DEF OnTime, Upcoming, AtPoint, TicksLeft, InWalk, CounterDiff
    <2>3. NoPointMissed => NoPointMissed'
      BY <2>1 DEF NoPointMissed, Upcoming, AtPoint
    <2>4. QED BY <2>1, <2>2, <2>3 DEF Timing
  <1>10. QED
    BY <1>1, <1>2, <1>3, <1>4, <1>5, <1>6, <1>7, <1>8, <1>9 DEF ObservedNext

TimedInv == TypeOK /\ Timing

LEMMA TimedInvariant == ObservedSpec => []TimedInv
  <1>1. ObservedInit => TimedInv
    <2>1. ObservedInit => TypeOK
      BY StartsTyped DEF ObservedInit
    <2>2. ObservedInit => Timing
      BY DEF ObservedInit, Init, Timing, NoPointMissed, NoCall
    <2>3. QED BY <2>1, <2>2 DEF TimedInv
  <1>2. TimedInv /\ [ObservedNext]_observedVars => TimedInv'
    BY StepKeepsTypeOK, ObservedIsTable, StepKeepsTiming DEF TimedInv
  <1>3. QED
    BY <1>1, <1>2, PTL DEF ObservedSpec

\* Every expiry point is performed when exactly its offset has passed since its
\* round began, and rounds last for their table's duration, for every counter, any
\* tables and any calls between (os_sched_table.c:85-179).
THEOREM PointsPunctual == ObservedSpec => PointsOnTime
  <1>1. TimedInv /\ [ObservedNext]_observedVars =>
          [\A t \in timed : Expire(t) \/ ExpirePreempted(t) => elapsed[t] = Upcoming(t)]_observedVars
    <2> SUFFICES ASSUME TypeOK, Timing, NEW t \in timed, Expire(t) \/ ExpirePreempted(t)
                 PROVE  elapsed[t] = Upcoming(t)
      BY DEF TimedInv
    <2>1. /\ ~halted /\ walk # << >> /\ t = Head(walk) /\ table[t].expire_val = val
          /\ t \in Table
      BY DEF Expire, ExpirePreempted, At, Hit, Timing
    <2>2. OnTime(t) /\ InWalk(t)
      <3>1. walk \in Seq(Table) /\ OnTime(t)
        BY <2>1 DEF Timing, TypeOK
      <3>2. 1 \in 1..Len(walk) /\ walk[1] = t
        BY <2>1, <3>1
      <3>3. QED BY <3>1, <3>2 DEF InWalk
    <2>3. QED BY <2>1, <2>2, PerformedOnTime
  <1>2. QED
    BY <1>1, TimedInvariant, PTL DEF ObservedSpec, PointsOnTime

\* And none is left behind when the walk of an increment is over
\* (os_sched_table.c:85-110).
THEOREM PointsKept == ObservedSpec => []NoPointMissed
  <1>1. TimedInv => NoPointMissed
    <2> SUFFICES ASSUME TypeOK, Timing, ~halted, walk = << >>, NEW t \in timed
                 PROVE  elapsed[t] < Upcoming(t)
      BY DEF TimedInv, Timing, NoPointMissed
    <2>1. t \in Table /\ OnTime(t) /\ ~InWalk(t)
      BY DEF Timing, InWalk
    <2>2. QED BY <2>1, OnTimeAhead DEF StillToCome
  <1>2. QED
    BY <1>1, TimedInvariant, PTL
=============================================================================
