--------------------------- MODULE OsCeiling_proofs ---------------------------
(* Priority ceilings exclude, and the asserts of the kernel hold: proofs about *)
(* systems without internal resources.                                        *)
EXTENDS OsObjectives_proofs

-----------------------------------------------------------------------------
(* The order of the ready list.                                            *)

Ahead(list, t, u) == \E i, j \in 1..Len(list) : i < j /\ list[i] = t /\ list[j] = u

LEMMA AheadOnce ==
    ASSUME NEW k, Sound(k), NEW t, NEW u, Ahead(k.ready, t, u)
    PROVE  ~Ahead(k.ready, u, t)
  <1>1. Len(k.ready) \in Nat
    <2>1. k.ready \in Seq(Task)
      BY FieldsTyped DEF Sound
    <2>2. QED BY <2>1
  <1>2. QED BY <1>1 DEF Ahead, Sound, Exact

\* Of two ready tasks of the highest priority the dispatcher takes the first.
LEMMA TopIsAhead ==
    ASSUME NEW k, Sound(k), NEW top, top = TaskGetTop(k),
           NEW u \in Task, u # top, k.state[u] \in Busy, k.prio[u] = k.prio[top]
    PROVE  Ahead(k.ready, top, u)
  <1>1. PICK first \in 1..Len(k.ready) :
           /\ top = k.ready[first]
           /\ \A j \in 1..Len(k.ready) :
                 k.prio[k.ready[j]] = k.prio[k.ready[first]] => first <= j
    BY TopPlace
  <1>2. PICK j \in 1..Len(k.ready) : k.ready[j] = u
    BY DEF Sound, Exact
  <1>3. Len(k.ready) \in Nat
    <2>1. k.ready \in Seq(Task)
      BY FieldsTyped DEF Sound
    <2>2. QED BY <2>1
  <1>4. first <= j /\ first # j
    BY <1>1, <1>2
  <1>5. first < j
    BY <1>3, <1>4
  <1>6. QED BY <1>1, <1>2, <1>5 DEF Ahead

LEMMA AheadRemoved ==
    ASSUME NEW list \in Seq(Task), NEW place \in 1..Len(list), NEW t, NEW u,
           list[place] # t, list[place] # u, Ahead(list, t, u)
    PROVE  Ahead(RemoveAt(list, place), t, u)
  <1>1. PICK i \in 1..Len(list), j \in 1..Len(list) : i < j /\ list[i] = t /\ list[j] = u
    BY DEF Ahead
  <1>2. PICK rest : rest = RemoveAt(list, place)
    OBVIOUS
  <1>3. /\ Len(rest) = Len(list) - 1 /\ Len(list) \in Nat
        /\ \A m \in 1..(Len(list) - 1) : rest[m] = IF m < place THEN list[m] ELSE list[m + 1]
    <2>1. /\ Len(RemoveAt(list, place)) = Len(list) - 1
          /\ \A m \in 1..(Len(list) - 1) :
                RemoveAt(list, place)[m] = IF m < place THEN list[m] ELSE list[m + 1]
      BY ONLY list \in Seq(Task), place \in 1..Len(list), Removed
    <2>2. Len(list) \in Nat
      OBVIOUS
    <2>3. QED BY ONLY <1>2, <2>1, <2>2
  <1>4. i # place /\ j # place
    BY <1>1
  <1> DEFINE at(m) == IF m < place THEN m ELSE m - 1
  <1>5. ASSUME NEW m \in 1..Len(list), m # place
        PROVE  at(m) \in 1..Len(rest) /\ rest[at(m)] = list[m]
    <2>1. CASE m < place
      <3>1. m \in 1..(Len(list) - 1)
        BY <1>3, <2>1
      <3>2. QED BY <1>3, <2>1, <3>1
    <2>2. CASE ~(m < place)
      <3>1. m - 1 \in 1..(Len(list) - 1) /\ ~(m - 1 < place) /\ (m - 1) + 1 = m
        BY <1>3, <1>5, <2>2
      <3>2. QED BY <1>3, <2>2, <3>1
    <2>3. QED BY <2>1, <2>2
  <1>6. at(i) < at(j)
    BY <1>1, <1>3, <1>4
  <1>7. /\ at(i) \in 1..Len(rest) /\ rest[at(i)] = t
        /\ at(j) \in 1..Len(rest) /\ rest[at(j)] = u
    BY <1>1, <1>4, <1>5
  <1> HIDE DEF at
  <1>8. Ahead(rest, t, u)
    BY <1>6, <1>7 DEF Ahead
  <1>9. QED BY <1>2, <1>8

LEMMA AheadAppended ==
    ASSUME NEW list \in Seq(Task), NEW d \in Task, NEW longer, longer = Append(list, d)
    PROVE  /\ \A t, u : Ahead(list, t, u) => Ahead(longer, t, u)
           /\ \A t : (\E i \in 1..Len(list) : list[i] = t) => Ahead(longer, t, d)
  <1>1. /\ Len(list) \in Nat /\ Len(longer) = Len(list) + 1 /\ longer[Len(list) + 1] = d
        /\ \A i \in 1..Len(list) : longer[i] = list[i]
    OBVIOUS
  <1>2. /\ \A i \in 1..Len(list) : i \in 1..Len(longer) /\ i < Len(longer)
        /\ Len(longer) \in 1..Len(longer)
    BY <1>1
  <1>3. ASSUME NEW t, NEW u, Ahead(list, t, u) PROVE Ahead(longer, t, u)
    <2>1. PICK i \in 1..Len(list), j \in 1..Len(list) : i < j /\ list[i] = t /\ list[j] = u
      BY <1>3 DEF Ahead
    <2>2. QED BY <1>1, <1>2, <2>1 DEF Ahead
  <1>4. ASSUME NEW t, \E i \in 1..Len(list) : list[i] = t PROVE Ahead(longer, t, d)
    BY <1>1, <1>2, <1>4 DEF Ahead
  <1>5. QED BY <1>3, <1>4

-----------------------------------------------------------------------------
(* What the functions on the record leave of the list.                     *)

LEMMA ListKept ==
    ASSUME NEW k, k \in KernelRecord, NEW t \in Task, NEW r \in AnyResource
    PROVE  /\ RunningToReady(k, t).ready = k.ready /\ Runs(k, t).ready = k.ready
           /\ ResourceAdd(k, r, t).ready = k.ready /\ ResourceRemove(k, r, t).ready = k.ready
  BY DEF KernelRecord, RunningToReady, Runs, ResourceAdd, ResourceRemove

LEMMA SwapKeepsList ==
    ASSUME NoInternal, NEW k \in KernelRecord, NEW t \in Task
    PROVE  SwapTo(k, t).ready = k.ready
  BY DEF NoInternal, SwapTo, GetInternal, KernelRecord

LEMMA DispatchKeepsList ==
    ASSUME NoInternal, NEW k, Sound(k), NEW n, n = Dispatched(k)
    PROVE  n.ready = k.ready
  <1>1. PICK top : top = TaskGetTop(k)
    OBVIOUS
  <1>2. k \in KernelRecord /\ k.curr \in Task /\ top \in Task
    BY <1>1, TopOfList, FieldsTyped DEF Sound
  <1>3. CASE top # k.curr
    <2>1. n = SwapTo(k, top)
      BY <1>1, <1>2, <1>3 DEF Dispatched, ReleaseInternal, NoInternal
    <2>2. QED BY <1>2, <2>1, SwapKeepsList
  <1>4. CASE top = k.curr
    <2>1. n = Runs(k, top)
      BY <1>1, <1>4 DEF Dispatched, Runs
    <2>2. QED BY <1>2, <2>1, ListKept, ResourceSplit
  <1>5. QED BY <1>3, <1>4

-----------------------------------------------------------------------------
(* Tasks that hold resources form a stack.                                 *)

\* Each resource was taken at a priority of at most its ceiling.
Rising(held, t) ==
    \A i, j \in 0..Len(held) : i <= j => Level(held, t, i) <= Level(held, t, j)

Risen(heads) == \A t \in Task : Rising(heads[t], t)

\* Whoever could run instead of a task that has begun is behind it in the list.
Begun(k, heads, t) == heads[t] # << >> \/ t = k.curr

Queued(k, heads) ==
    \A t, u \in Task :
       /\ Begun(k, heads, t) /\ t # u /\ k.state[t] \in Busy /\ k.state[u] \in Busy
       /\ prio[t] <= k.prio[u]
       => Ahead(k.ready, t, u)

\* The running task was above every preempted one that holds something.
Below(k, heads) ==
    \A t \in Task : heads[t] # << >> /\ t # k.curr => k.prio[t] < prio[k.curr]

\* And of two of those one was above the other.
Apart(k, heads) ==
    \A t, u \in Task :
       /\ t # u /\ t # k.curr /\ u # k.curr /\ heads[t] # << >> /\ heads[u] # << >>
       => k.prio[t] < prio[u] \/ k.prio[u] < prio[t]

Stacked(k, heads) == Queued(k, heads) /\ Below(k, heads) /\ Apart(k, heads)

\* A task runs at its own priority or above it, and at no less than the ceiling
\* of anything it holds.
Levels(k, heads) ==
    \A t \in Task :
       /\ prio[t] \in Int /\ k.prio[t] \in Int /\ prio[t] <= k.prio[t]
       /\ heads[t] = << >> => k.prio[t] = prio[t]

LEMMA PrioritiesTyped ==
    ASSUME NEW k \in KernelRecord
    PROVE  \A t \in Task : prio[t] \in Int /\ k.prio[t] \in Int
  <1>1. \A t \in Task : prio[t] \in 0..31
    BY KernelAssumption DEF OS_RES_SCHEDULER_PRIO
  <1>2. \A t \in Task : k.prio[t] \in 0..32
    BY FieldsTyped DEF OS_RES_SCHEDULER_PRIO
  <1>3. QED BY <1>1, <1>2

LEMMA CeilingReached ==
    ASSUME NEW k, NEW t, NEW held \in Seq(AnyResource), Holds(k, held, t), Rising(held, t)
    PROVE  /\ prio[t] <= k.prio[t] /\ (held = << >> => k.prio[t] = prio[t])
           /\ \A i \in 1..Len(held) : ceiling_priority[held[i]] <= k.prio[t]
  <1>1. Len(held) \in Nat /\ k.prio[t] = Level(held, t, Len(held))
    BY DEF Holds
  <1>2. \A i \in 0..Len(held) : Level(held, t, i) <= k.prio[t]
    <2>1. \A i \in 0..Len(held) : i <= Len(held) /\ Len(held) \in 0..Len(held)
      BY <1>1
    <2>2. QED BY <1>1, <2>1 DEF Rising
  <1>3. prio[t] <= k.prio[t]
    <2>1. 0 \in 0..Len(held) /\ Level(held, t, 0) = prio[t]
      BY <1>1 DEF Level
    <2>2. QED BY <1>2, <2>1
  <1>4. \A i \in 1..Len(held) : ceiling_priority[held[i]] <= k.prio[t]
    <2>1. \A i \in 1..Len(held) : i \in 0..Len(held) /\ Level(held, t, i) = ceiling_priority[held[i]]
      BY <1>1 DEF Level
    <2>2. QED BY <1>2, <2>1
  <1>5. held = << >> => k.prio[t] = prio[t]
    BY <1>1 DEF Level
  <1>6. QED BY <1>3, <1>4, <1>5

LEMMA LevelsHold ==
    ASSUME NEW k \in KernelRecord, NEW heads \in [Task -> Seq(AnyResource)],
           Agree(k, heads), Risen(heads)
    PROVE  Levels(k, heads)
  <1>1. ASSUME NEW t \in Task
        PROVE  prio[t] <= k.prio[t] /\ (heads[t] = << >> => k.prio[t] = prio[t])
    <2>1. PICK held : held = heads[t]
      OBVIOUS
    <2>2. held \in Seq(AnyResource) /\ Holds(k, held, t) /\ Rising(held, t)
      BY <2>1 DEF Agree, Risen
    <2>3. QED BY <2>1, <2>2, CeilingReached
  <1>2. QED BY <1>1, PrioritiesTyped DEF Levels

\* The top task of the list takes over: what held before holds for it.
LEMMA TopStacked ==
    ASSUME NEW k, Sound(k), NEW heads, Agree(k, heads), Levels(k, heads), Stacked(k, heads),
           NEW n, n.ready = k.ready, SamePriorities(n, k), SameRest(n, k),
           n.curr = TaskGetTop(k)
    PROVE  Stacked(n, heads)
  <1>1. PICK top : top = TaskGetTop(k)
    OBVIOUS
  <1>2. PICK x : x = k.curr
    OBVIOUS
  <1>3. /\ x \in Task /\ top \in Task /\ k.state[top] \in Busy
        /\ \A t \in Task : k.state[t] \in Busy => k.prio[t] <= k.prio[top]
    BY <1>1, <1>2, TopOfList, FieldsTyped DEF Sound
  <1>4. /\ n.curr = top /\ n.prio = k.prio
        /\ \A t \in Task : n.state[t] \in Busy <=> k.state[t] \in Busy
    BY <1>1 DEF SamePriorities, SameRest
  <1>5. \A t \in Task : heads[t] # << >> => k.state[t] \in Busy
    <2>1. \A t \in Task : k.state[t] \in TaskState
      BY FieldsTyped DEF Sound
    <2>2. QED BY <2>1 DEF Agree, Resting, Busy, TaskState
  <1>6. \A t \in Task : /\ prio[t] \in Int /\ k.prio[t] \in Int /\ prio[t] <= k.prio[t]
                        /\ heads[t] = << >> => k.prio[t] = prio[t]
    BY DEF Levels
  <1>7. \A u \in Task : u # top /\ k.state[u] \in Busy /\ k.prio[u] = k.prio[top]
                        => Ahead(k.ready, top, u)
    BY <1>1, TopIsAhead
  <1>8. Queued(n, heads)
    <2> SUFFICES ASSUME NEW t \in Task, NEW u \in Task, Begun(n, heads, t), t # u,
                        k.state[t] \in Busy, k.state[u] \in Busy, prio[t] <= k.prio[u]
                 PROVE  Ahead(k.ready, t, u)
      BY <1>4 DEF Queued
    <2>1. CASE heads[t] # << >>
      BY <2>1 DEF Stacked, Queued, Begun
    <2>2. CASE heads[t] = << >> /\ t = top
      <3>1. k.prio[u] <= k.prio[top] /\ k.prio[top] <= k.prio[u]
        BY <1>3, <1>6, <2>2
      <3>2. k.prio[u] = k.prio[top]
        BY <1>3, <1>6, <3>1
      <3>3. QED BY <1>7, <2>2, <3>2
    <2>3. QED BY <1>4, <2>1, <2>2 DEF Begun
  <1>9. Below(n, heads)
    <2> SUFFICES ASSUME NEW t \in Task, heads[t] # << >>, t # top
                 PROVE  k.prio[t] < prio[top]
      BY <1>4 DEF Below
    <2>1. k.state[t] \in Busy /\ k.prio[t] <= k.prio[top]
      BY <1>3, <1>5
    <2>2. CASE heads[top] = << >>
      <3>1. k.prio[t] # k.prio[top]
        <4> SUFFICES ASSUME k.prio[t] = k.prio[top] PROVE FALSE
          OBVIOUS
        <4>1. Ahead(k.ready, top, t)
          BY <1>7, <2>1
        <4>2. Ahead(k.ready, t, top)
          <5>1. prio[t] <= k.prio[top] /\ Begun(k, heads, t)
            BY <1>3, <1>6 DEF Begun
          <5>2. QED BY <1>3, <2>1, <5>1 DEF Stacked, Queued
        <4>3. QED BY <4>1, <4>2, AheadOnce
      <3>2. QED BY <1>3, <1>6, <2>1, <2>2, <3>1
    <2>3. CASE heads[top] # << >>
      <3>1. CASE t = x
        <4>1. k.prio[top] < prio[t]
          BY <1>2, <1>3, <2>3, <3>1 DEF Stacked, Below
        <4>2. QED BY <1>3, <1>6, <2>1, <4>1
      <3>2. CASE top = x
        BY <1>2, <3>2 DEF Stacked, Below
      <3>3. CASE t # x /\ top # x
        <4>1. k.prio[t] < prio[top] \/ k.prio[top] < prio[t]
          BY <1>2, <1>3, <2>3, <3>3 DEF Stacked, Apart
        <4>2. ~(k.prio[top] < prio[t])
          BY <1>3, <1>6, <2>1
        <4>3. QED BY <4>1, <4>2
      <3>4. QED BY <3>1, <3>2, <3>3
    <2>4. QED BY <2>2, <2>3
  <1>10. Apart(n, heads)
    <2> SUFFICES ASSUME NEW t \in Task, NEW u \in Task, t # u, t # top, u # top,
                        heads[t] # << >>, heads[u] # << >>
                 PROVE  k.prio[t] < prio[u] \/ k.prio[u] < prio[t]
      BY <1>4 DEF Apart
    <2>1. CASE t = x
      BY <1>2, <2>1 DEF Stacked, Below
    <2>2. CASE u = x
      BY <1>2, <2>2 DEF Stacked, Below
    <2>3. CASE t # x /\ u # x
      BY <1>2, <2>3 DEF Stacked, Apart
    <2>4. QED BY <2>1, <2>2, <2>3
  <1>11. QED BY <1>8, <1>9, <1>10 DEF Stacked

\* Nobody becomes ready, and who stays ready stays in order.
LEMMA StackedOn ==
    ASSUME NEW k, NEW n, NEW heads, Stacked(k, heads), n.curr = k.curr, SamePriorities(n, k),
           \A t \in Task : n.state[t] \in Busy => k.state[t] \in Busy,
           \A t, u \in Task : n.state[t] \in Busy /\ n.state[u] \in Busy
                              /\ Ahead(k.ready, t, u) => Ahead(n.ready, t, u)
    PROVE  Stacked(n, heads)
  <1>1. n.prio = k.prio
    BY DEF SamePriorities
  <1>2. Below(n, heads) /\ Apart(n, heads)
    BY <1>1 DEF Stacked, Below, Apart
  <1>3. Queued(n, heads)
    <2> SUFFICES ASSUME NEW t \in Task, NEW u \in Task, Begun(n, heads, t), t # u,
                        n.state[t] \in Busy, n.state[u] \in Busy, prio[t] <= n.prio[u]
                 PROVE  Ahead(n.ready, t, u)
      BY DEF Queued
    <2>1. Ahead(k.ready, t, u)
      BY <1>1 DEF Stacked, Queued, Begun
    <2>2. QED BY <2>1
  <1>4. QED BY <1>2, <1>3 DEF Stacked

\* Only the running task's priority and resources may differ.
SameButCurr(n, other, k, heads) ==
    /\ n.curr = k.curr /\ n.state = k.state /\ n.ready = k.ready
    /\ \A t \in Task \ {k.curr} : n.prio[t] = k.prio[t] /\ other[t] = heads[t]

\* The running task takes or gives back resources.
LEMMA StackedAs ==
    ASSUME NEW k, k.curr \in Task, NEW n, NEW heads, NEW other,
           Levels(k, heads), Agree(k, heads), Stacked(k, heads),
           k.state[k.curr] \in Busy, \A t \in Task : k.state[t] \in TaskState,
           SameButCurr(n, other, k, heads)
    PROVE  Stacked(n, other)
  <1>0. /\ n.curr = k.curr /\ n.state = k.state /\ n.ready = k.ready
        /\ \A t \in Task \ {k.curr} : n.prio[t] = k.prio[t] /\ other[t] = heads[t]
    BY DEF SameButCurr
  <1>1. Below(n, other) /\ Apart(n, other)
    BY <1>0 DEF Stacked, Below, Apart
  <1>2. Queued(n, other)
    <2> SUFFICES ASSUME NEW t \in Task, NEW u \in Task, Begun(n, other, t), t # u,
                        k.state[t] \in Busy, k.state[u] \in Busy, prio[t] <= n.prio[u]
                 PROVE  Ahead(k.ready, t, u)
      BY <1>0 DEF Queued
    <2>1. Begun(k, heads, t)
      BY <1>0 DEF Begun
    <2>2. prio[t] <= k.prio[u]
      <3>1. CASE u = k.curr
        <4>1. k.prio[t] < prio[u]
          BY <1>0, <2>1, <3>1 DEF Begun, Stacked, Below
        <4>2. QED BY <4>1 DEF Levels
      <3>2. CASE u # k.curr
        BY <1>0, <3>2
      <3>3. QED BY <3>1, <3>2
    <2>3. QED BY <2>1, <2>2 DEF Stacked, Queued
  <1>3. QED BY <1>1, <1>2 DEF Stacked

LEMMA StackedReady ==
    ASSUME NEW k, Sound(k), k.state[k.curr] = "RUNNING", NEW heads, Agree(k, heads),
           Stacked(k, heads), NEW d \in Task, NEW n, n = MakeReady(k, d)
    PROVE  Stacked(n, heads)
  <1>1. CASE k.state[d] \in Busy
    BY <1>1 DEF MakeReady, Busy
  <1>2. CASE k.state[d] \notin Busy
    <2>1. k \in KernelRecord /\ k.ready \in Seq(Task) /\ \A t \in Task : k.state[t] \in TaskState
      BY FieldsTyped DEF Sound
    <2>2. n.ready = Append(k.ready, d)
      BY <1>2, <2>1 DEF MakeReady, Busy, KernelRecord
    <2>3. /\ n.curr = k.curr /\ n.prio = k.prio
          /\ \A u \in Task \ {d} : n.state[u] = k.state[u]
      BY MadeReady DEF SamePriorities
    <2>4. heads[d] = << >> /\ d # k.curr
      BY <1>2, <2>1 DEF Agree, Resting, Busy, TaskState
    <2>5. Below(n, heads) /\ Apart(n, heads)
      BY <2>3 DEF Stacked, Below, Apart
    <2>6. Queued(n, heads)
      <3> SUFFICES ASSUME NEW t \in Task, NEW u \in Task, Begun(n, heads, t), t # u,
                          n.state[t] \in Busy, n.state[u] \in Busy, prio[t] <= n.prio[u]
                   PROVE  Ahead(n.ready, t, u)
        BY DEF Queued
      <3>1. t # d /\ k.state[t] \in Busy
        BY <2>3, <2>4 DEF Begun
      <3>2. CASE u = d
        <4>1. \E i \in 1..Len(k.ready) : k.ready[i] = t
          BY <3>1 DEF Sound, Exact
        <4>2. QED BY <2>1, <2>2, <3>2, <4>1, AheadAppended
      <3>3. CASE u # d
        <4>1. Ahead(k.ready, t, u)
          BY <2>3, <3>1, <3>3 DEF Stacked, Queued, Begun
        <4>2. QED BY <2>1, <2>2, <4>1, AheadAppended
      <3>4. QED BY <3>2, <3>3
    <2>7. QED BY <2>5, <2>6 DEF Stacked
  <1>3. QED BY <1>1, <1>2

LEMMA StackedUnlisted ==
    ASSUME NEW k, Sound(k), NEW heads, Stacked(k, heads), NEW t \in Task, t # Idle,
           k.state[t] \in Busy, NEW state \in {"WAITING", "SUSPENDED"},
           NEW n, n = Unlist(k, t, state)
    PROVE  Stacked(n, heads)
  <1> DEFINE place == CHOOSE i \in DOMAIN k.ready : k.ready[i] = t
  <1>1. k \in KernelRecord /\ k.ready \in Seq(Task) /\ DOMAIN k.ready = 1..Len(k.ready)
    BY DEF Sound, KernelRecord
  <1>2. place \in 1..Len(k.ready) /\ k.ready[place] = t
    <2>1. \E i \in DOMAIN k.ready : k.ready[i] = t
      BY <1>1 DEF Sound, Exact
    <2>2. QED BY <1>1, <2>1
  <1>3. n = [k EXCEPT !.state[t] = state, !.ready = RemoveAt(@, place)]
    BY DEF Unlist
  <1> HIDE DEF place
  <1>4. n.ready = RemoveAt(k.ready, place)
    BY <1>1, <1>3 DEF KernelRecord
  <1>5. /\ n.curr = k.curr /\ SamePriorities(n, k)
        /\ n.state[t] = state /\ \A u \in Task \ {t} : n.state[u] = k.state[u]
    BY Unlisted
  <1>6. \A u \in Task : n.state[u] \in Busy => u # t /\ k.state[u] \in Busy
    BY <1>5 DEF Busy
  <1>7. ASSUME NEW u \in Task, NEW v \in Task, n.state[u] \in Busy, n.state[v] \in Busy,
               Ahead(k.ready, u, v)
        PROVE  Ahead(n.ready, u, v)
    <2>1. k.ready[place] # u /\ k.ready[place] # v
      BY <1>2, <1>6, <1>7
    <2>2. QED BY <1>1, <1>2, <1>4, <1>7, <2>1, AheadRemoved
  <1>8. QED BY <1>5, <1>6, <1>7, StackedOn

\* The running task is preempted.
LEMMA StackedPreempted ==
    ASSUME NEW k, Sound(k), k.state[k.curr] = "RUNNING", NEW heads, Agree(k, heads),
           Stacked(k, heads), NEW n, n = RunningToReady(k, k.curr)
    PROVE  Sound(n) /\ n.curr = k.curr /\ Agree(n, heads) /\ Stacked(n, heads)
  <1>1. /\ Sound(n) /\ n.curr = k.curr /\ SamePriorities(n, k)
        /\ \A t \in Task : n.state[t] \in Resting => n.state[t] = k.state[t]
    BY CurrPreempted DEF Resting
  <1>2. Agree(n, heads)
    BY <1>1, AgreeOn
  <1>3. /\ k \in KernelRecord /\ k.curr \in Task /\ k.state[k.curr] \in Busy
        /\ RES_SCHEDULER \in AnyResource
    BY FieldsTyped, ResourceSplit DEF Sound, Busy
  <1>4. n.ready = k.ready
    BY <1>3, ListKept
  <1>5. \A t \in Task : n.state[t] \in Busy => k.state[t] \in Busy
    BY <1>3, StillReady
  <1>6. Stacked(n, heads)
    BY <1>1, <1>4, <1>5, StackedOn
  <1>7. QED BY <1>1, <1>2, <1>6

\* The running task ends an activation.
LEMMA StackedRetired ==
    ASSUME KernelInv, Calls[os.curr] # {}, NEW k, Sound(k), k.curr = os.curr,
           k.state[k.curr] = "RUNNING", NEW heads, Agree(k, heads), heads[k.curr] = << >>,
           Stacked(k, heads), NEW n, n = Retire(k)
    PROVE  Sound(n) /\ Agree(n, heads) /\ Stacked(n, heads)
  <1>1. /\ k.curr \in Task /\ k.curr # Idle /\ k.state[k.curr] \in Busy
    BY IdleTask, FieldsTyped DEF Sound, Busy
  <1>2. /\ Sound(n) /\ SamePriorities(n, k)
        /\ \A t \in Task \ {k.curr} : n.state[t] = k.state[t]
    BY Retires
  <1>3. Agree(n, heads)
    BY <1>1, <1>2, LeavesAgree
  <1>4. Stacked(n, heads)
    <2>1. CASE activations[k.curr] > 1
      BY <2>1 DEF Retire
    <2>2. CASE ~(activations[k.curr] > 1)
      <3>1. n = Unlist(k, k.curr, "SUSPENDED")
        BY <2>2 DEF Retire
      <3>2. QED BY <1>1, <3>1, StackedUnlisted
    <2>3. QED BY <2>1, <2>2
  <1>5. QED BY <1>2, <1>3, <1>4

-----------------------------------------------------------------------------
(* The invariant.                                                          *)

CeilInv ==
    /\ PrioInv /\ Risen(resourceHead)
    /\ ~halted => Stacked(os, resourceHead)

\* What a service finds.
LEMMA Found ==
    ASSUME CeilInv, ~halted
    PROVE  /\ PrioInv /\ KernelInv /\ Sound(os) /\ os \in KernelRecord /\ os.curr \in Task
           /\ os.state[os.curr] = "RUNNING" /\ os.state[os.curr] \in Busy
           /\ \A t \in Task : os.state[t] \in TaskState
           /\ resourceHead \in [Task -> Seq(AnyResource)] /\ Agree(os, resourceHead)
           /\ Risen(resourceHead) /\ Stacked(os, resourceHead) /\ Levels(os, resourceHead)
  <1>1. /\ PrioInv /\ KernelInv /\ Risen(resourceHead) /\ Stacked(os, resourceHead)
        /\ Agree(os, resourceHead)
    BY DEF CeilInv, PrioInv
  <1>2. /\ os \in KernelRecord /\ os.curr \in Task
        /\ resourceHead \in [Task -> Seq(AnyResource)]
    BY <1>1, Before
  <1>3. Sound(os) /\ os.state[os.curr] = "RUNNING" /\ os.state[os.curr] \in Busy
    BY <1>1 DEF KernelInv, Busy
  <1>4. Levels(os, resourceHead) /\ \A t \in Task : os.state[t] \in TaskState
    BY <1>1, <1>2, LevelsHold, FieldsTyped
  <1>5. QED BY <1>1, <1>2, <1>3, <1>4

\* A service that leaves k for what comes after it.
LEMMA CeilKept ==
    ASSUME NoInternal, PrioInv', NEW heads, heads = resourceHead', Risen(heads),
           NEW k, Sound(k), Agree(k, heads), Stacked(k, heads),
           NEW at, Dispatch(k, at) \/ os' = k
    PROVE  CeilInv'
  <1>1. PICK n : n = os'
    OBVIOUS
  <1>2. Stacked(n, heads)
    <2>1. CASE Dispatch(k, at)
      <3>1. n = Dispatched(k)
        BY <1>1, <2>1 DEF Dispatch
      <3>2. n.curr = TaskGetTop(k) /\ SameRest(n, k) /\ SamePriorities(n, k) /\ n.ready = k.ready
        BY <3>1, DispatchedSound, DispatchKeepsList DEF NoInternal
      <3>3. heads \in [Task -> Seq(AnyResource)]
        BY DEF PrioInv, KernelInv, TypeOK
      <3>4. Levels(k, heads)
        BY <3>3, LevelsHold DEF Sound
      <3>5. QED BY <3>2, <3>4, TopStacked
    <2>2. CASE os' = k
      BY <1>1, <2>2
    <2>3. QED BY <2>1, <2>2
  <1>3. Risen(resourceHead)'
    BY DEF Risen, Rising, Level
  <1>4. Stacked(os, resourceHead)'
    BY <1>1, <1>2 DEF Stacked, Queued, Below, Apart, Begun, Busy, Ahead
  <1>5. QED BY <1>3, <1>4 DEF CeilInv

\* One that leaves the resources alone.
LEMMA CeilSame ==
    ASSUME NoInternal, CeilInv, PrioInv', UNCHANGED resourceHead,
           NEW k, Sound(k), Agree(k, resourceHead), Stacked(k, resourceHead),
           NEW at, Dispatch(k, at) \/ os' = k
    PROVE  CeilInv'
  <1>1. PICK heads : heads = resourceHead
    OBVIOUS
  <1>2. heads = resourceHead' /\ Agree(k, heads) /\ Stacked(k, heads) /\ Risen(heads)
    BY <1>1 DEF CeilInv
  <1>3. QED BY <1>2, CeilKept

LEMMA CeilStill ==
    ASSUME CeilInv, PrioInv', UNCHANGED <<os, resourceHead>>, ~halted' => ~halted
    PROVE  CeilInv'
  <1>1. Risen(resourceHead)'
    BY DEF CeilInv, Risen, Rising, Level
  <1>2. Stacked(os, resourceHead) => Stacked(os, resourceHead)'
    BY DEF Stacked, Queued, Below, Apart, Begun, Busy, Ahead
  <1>3. QED BY <1>1, <1>2 DEF CeilInv

\* A task has become ready, or not.
LEMMA ReadyFound ==
    ASSUME CeilInv, ~halted, NEW d \in Task, NEW k, k = os \/ k = MakeReady(os, d)
    PROVE  /\ Sound(k) /\ k.curr = os.curr /\ Agree(k, resourceHead)
           /\ Stacked(k, resourceHead) /\ k.state[k.curr] = "RUNNING"
  <1>1. /\ PrioInv /\ Sound(os) /\ os.state[os.curr] = "RUNNING" /\ os.state[os.curr] \in Busy
        /\ os.curr \in Task /\ Agree(os, resourceHead) /\ Stacked(os, resourceHead)
    BY Found
  <1>2. /\ Sound(k) /\ k.curr = os.curr /\ Agree(k, resourceHead)
        /\ \A t \in Task \ {d} : k.state[t] = os.state[t]
    BY <1>1, ReadyAgrees
  <1>3. Stacked(k, resourceHead)
    BY <1>1, StackedReady
  <1>4. k.state[k.curr] = "RUNNING"
    <2>1. CASE os.curr = d
      <3>1. MakeReady(os, d) = os
        BY <1>1, <2>1 DEF MakeReady
      <3>2. QED BY <1>1, <3>1
    <2>2. CASE os.curr # d
      BY <1>1, <1>2, <2>2
    <2>3. QED BY <2>1, <2>2
  <1>5. QED BY <1>2, <1>3, <1>4

LEMMA ActivateCeil ==
    ASSUME NoInternal, CeilInv, NEW d \in Task, ActivateTask(d)
    PROVE  CeilInv'
  <1>1. PICK k : k = IF os.state[d] = "SUSPENDED" THEN MakeReady(os, d) ELSE os
    OBVIOUS
  <1>2. PICK at : at = IF os.state[d] = "SUSPENDED" THEN [From("body") EXCEPT ![d] = "entry"]
                       ELSE From("body")
    OBVIOUS
  <1>3. ~halted /\ UNCHANGED resourceHead /\ (Dispatch(k, at) \/ os' = k)
    BY <1>1, <1>2 DEF ActivateTask, Calling, InIsr, Continue
  <1>4. Sound(k) /\ Agree(k, resourceHead) /\ Stacked(k, resourceHead)
    BY <1>1, <1>3, ReadyFound
  <1>5. PrioInv'
    BY ActivatePrio DEF CeilInv
  <1>6. QED BY <1>3, <1>4, <1>5, CeilSame

LEMMA ChainCeil ==
    ASSUME NoInternal, CeilInv, NEW d \in Task, ChainTask(d)
    PROVE  CeilInv'
  <1>1. PICK k : k = IF os.state[d] = "SUSPENDED" THEN MakeReady(os, d) ELSE os
    OBVIOUS
  <1>2. PICK left : left = IF activations[os.curr] > 1 THEN RunningToReady(k, os.curr)
                           ELSE Retire(k)
    OBVIOUS
  <1>3. PICK at : at = IF os.state[d] = "SUSPENDED"
                       THEN [From("ChainTask") EXCEPT ![d] = "entry"] ELSE From("ChainTask")
    OBVIOUS
  <1>4. /\ ~halted /\ Calls[os.curr] # {} /\ Dispatch(left, at)
        /\ resourceHead[os.curr] = << >> /\ UNCHANGED resourceHead
    BY <1>1, <1>2, <1>3 DEF ChainTask, Calling, curr
  <1>5. /\ Sound(k) /\ k.curr = os.curr /\ Agree(k, resourceHead)
        /\ Stacked(k, resourceHead) /\ k.state[k.curr] = "RUNNING"
    BY <1>1, <1>4, ReadyFound
  <1>6. PICK heads : heads = resourceHead
    OBVIOUS
  <1>7. Sound(left) /\ Agree(left, heads) /\ Stacked(left, heads)
    <2>1. CASE activations[os.curr] > 1
      <3>1. left = RunningToReady(k, k.curr)
        BY <1>2, <1>5, <2>1
      <3>2. QED BY <1>5, <1>6, <3>1, StackedPreempted
    <2>2. CASE ~(activations[os.curr] > 1)
      <3>1. left = Retire(k) /\ heads[k.curr] = << >> /\ KernelInv
        BY <1>2, <1>4, <1>5, <1>6, <2>2, Found
      <3>2. QED BY <1>4, <1>5, <1>6, <3>1, StackedRetired
    <2>3. QED BY <2>1, <2>2
  <1>8. PrioInv'
    BY ChainPrio DEF CeilInv
  <1>9. QED BY <1>4, <1>6, <1>7, <1>8, CeilSame

LEMMA ChainSelfCeil == ASSUME NoInternal, CeilInv, ChainSelf PROVE CeilInv'
  <1>1. ~halted /\ Dispatch(os, From("ChainTask")) /\ UNCHANGED resourceHead
    BY DEF ChainSelf, Calling
  <1>2. Sound(os) /\ Agree(os, resourceHead) /\ Stacked(os, resourceHead)
    BY <1>1, Found
  <1>3. PrioInv'
    BY ChainSelfPrio DEF CeilInv
  <1>4. QED BY <1>1, <1>2, <1>3, CeilSame

LEMMA ScheduleCeil == ASSUME NoInternal, CeilInv, Schedule PROVE CeilInv'
  <1>1. PICK k : k = RunningToReady(os, os.curr)
    OBVIOUS
  <1>2. ~halted /\ Dispatch(k, From("body")) /\ UNCHANGED resourceHead
    BY <1>1 DEF Schedule, Calling, curr
  <1>3. /\ Sound(os) /\ os.state[os.curr] = "RUNNING"
        /\ Agree(os, resourceHead) /\ Stacked(os, resourceHead)
    BY <1>2, Found
  <1>4. Sound(k) /\ Agree(k, resourceHead) /\ Stacked(k, resourceHead)
    BY <1>1, <1>3, StackedPreempted
  <1>5. PrioInv'
    BY SchedulePrio DEF CeilInv
  <1>6. QED BY <1>2, <1>4, <1>5, CeilSame

LEMMA TerminateCeil == ASSUME NoInternal, CeilInv, TerminateTask PROVE CeilInv'
  <1>1. PICK k : k = Retire(os)
    OBVIOUS
  <1>2. /\ ~halted /\ Dispatch(k, From("TerminateTask")) /\ UNCHANGED resourceHead
        /\ Calls[os.curr] # {} /\ resourceHead[os.curr] = << >>
    BY <1>1 DEF TerminateTask, Calling, curr
  <1>3. /\ KernelInv /\ Sound(os) /\ os.state[os.curr] = "RUNNING"
        /\ Agree(os, resourceHead) /\ Stacked(os, resourceHead)
    BY <1>2, Found
  <1>4. Sound(k) /\ Agree(k, resourceHead) /\ Stacked(k, resourceHead)
    BY <1>1, <1>2, <1>3, StackedRetired
  <1>5. PrioInv'
    BY TerminatePrio DEF CeilInv
  <1>6. QED BY <1>2, <1>4, <1>5, CeilSame

LEMMA BitsCeil ==
    ASSUME NoInternal, CeilInv, ~halted, NEW d \in Task, NEW m \in SUBSET Event, SetBits(d, m)
    PROVE  CeilInv'
  <1>1. PICK k : k = IF os.state[d] = "WAITING" /\ m \cap ev_wait[d] # {} THEN MakeReady(os, d)
                     ELSE os
    OBVIOUS
  <1>2. PICK n : n = RunningToReady(k, os.curr)
    OBVIOUS
  <1>3. /\ UNCHANGED resourceHead
        /\ \/ halted' = TRUE /\ UNCHANGED os
           \/ Dispatch(n, From("body"))
           \/ os' = k
    BY <1>1, <1>2 DEF SetBits, Continue, curr
  <1>4. /\ Sound(k) /\ k.curr = os.curr /\ Agree(k, resourceHead)
        /\ Stacked(k, resourceHead) /\ k.state[k.curr] = "RUNNING"
    BY <1>1, ReadyFound
  <1>5. PrioInv'
    BY BitsPrio DEF CeilInv
  <1>6. CASE halted' = TRUE /\ UNCHANGED os
    BY <1>3, <1>5, <1>6, CeilStill
  <1>7. CASE Dispatch(n, From("body"))
    <2>1. Sound(n) /\ Agree(n, resourceHead) /\ Stacked(n, resourceHead)
      BY <1>2, <1>4, StackedPreempted
    <2>2. QED BY <1>3, <1>5, <1>7, <2>1, CeilSame
  <1>8. CASE os' = k
    BY <1>3, <1>4, <1>5, <1>8, CeilSame
  <1>9. QED BY <1>3, <1>6, <1>7, <1>8

LEMMA SetEventCeil == ASSUME NoInternal, CeilInv, SetEvent PROVE CeilInv'
  <1>1. ~halted /\ SetBits(pending[os.curr].dest, pending[os.curr].mask)
    BY DEF SetEvent, curr
  <1>2. pending[os.curr].dest \in Task /\ pending[os.curr].mask \in SUBSET Event
    BY <1>1, Found, Before
  <1>3. QED BY <1>1, <1>2, BitsCeil

LEMMA QuietCeil ==
    ASSUME CeilInv, NEW d \in Task, NEW m \in Mask,
           SetEventValidated(d, m) \/ ClearEvent(m)
    PROVE  CeilInv'
  <1>1. UNCHANGED <<os, resourceHead, halted>>
    BY DEF SetEventValidated, ClearEvent
  <1>2. PrioInv'
    BY ValidatedPrio, ClearPrio DEF CeilInv
  <1>3. QED BY <1>1, <1>2, CeilStill

LEMMA WaitCeil ==
    ASSUME NoInternal, CeilInv, NEW m \in Mask, WaitEvent(m)
    PROVE  CeilInv'
  <1>1. PICK k : k = Unlist(os, os.curr, "WAITING")
    OBVIOUS
  <1>2. /\ ~halted /\ Calls[os.curr] # {} /\ resourceHead[os.curr] = << >>
        /\ UNCHANGED resourceHead
        /\ \/ os' = os
           \/ Dispatch(k, From("body"))
    BY <1>1 DEF WaitEvent, Calling, Continue, curr
  <1>3. PrioInv'
    BY WaitPrio DEF CeilInv
  <1>4. /\ Sound(os) /\ os.curr \in Task /\ os.state[os.curr] \in Busy /\ os.curr # Idle
        /\ Agree(os, resourceHead) /\ Stacked(os, resourceHead)
    BY <1>2, Found, IdleTask
  <1>5. Sound(k) /\ Agree(k, resourceHead) /\ Stacked(k, resourceHead)
    <2>1. /\ Sound(k) /\ SamePriorities(k, os)
          /\ \A t \in Task \ {os.curr} : k.state[t] = os.state[t]
      BY <1>1, <1>4, Unlisted
    <2>2. Agree(k, resourceHead)
      BY <1>2, <1>4, <2>1, LeavesAgree
    <2>3. Stacked(k, resourceHead)
      BY <1>1, <1>4, StackedUnlisted
    <2>4. QED BY <2>1, <2>2, <2>3
  <1>6. CASE os' = os
    BY <1>2, <1>3, <1>4, <1>6, CeilSame
  <1>7. CASE Dispatch(k, From("body"))
    BY <1>2, <1>3, <1>5, <1>7, CeilSame
  <1>8. QED BY <1>2, <1>6, <1>7

-----------------------------------------------------------------------------
(* Resources.                                                              *)

LEMMA NumbersTyped ==
    /\ \A t \in Task : prio[t] \in Int
    /\ \A r \in AnyResource : ceiling_priority[r] \in Int
  <1>1. \A t \in Task : prio[t] \in 0..31
    BY KernelAssumption DEF OS_RES_SCHEDULER_PRIO
  <1>2. ceiling_priority \in [AnyResource -> 0..32]
    BY CeilingTyped DEF OS_RES_SCHEDULER_PRIO
  <1>3. \A r \in AnyResource : ceiling_priority[r] \in 0..32
    BY <1>2
  <1>4. QED BY <1>1, <1>3

LEMMA LevelTyped ==
    ASSUME NEW held \in Seq(AnyResource), NEW t \in Task, NEW i \in 0..Len(held)
    PROVE  Level(held, t, i) \in Int
  <1>1. i # 0 => held[i] \in AnyResource
    BY ElementOfSeq
  <1>2. QED BY <1>1, NumbersTyped DEF Level

LEMMA RisingMore ==
    ASSUME NEW held \in Seq(AnyResource), NEW t \in Task, Rising(held, t), NEW r \in AnyResource,
           Level(held, t, Len(held)) <= ceiling_priority[r], NEW more, more = Append(held, r)
    PROVE  Rising(more, t)
  <1>1. /\ Len(held) \in Nat /\ Len(more) = Len(held) + 1 /\ more[Len(held) + 1] = r
        /\ \A i \in 1..Len(held) : more[i] = held[i]
    OBVIOUS
  <1>2. /\ \A i \in 0..Len(held) : Level(more, t, i) = Level(held, t, i)
        /\ Level(more, t, Len(more)) = ceiling_priority[r]
    BY <1>1 DEF Level
  <1>3. /\ \A i \in 0..Len(held) : Level(held, t, i) \in Int
        /\ ceiling_priority[r] \in Int
    BY LevelTyped, NumbersTyped
  <1>4. \A i \in 0..Len(held) : Level(held, t, i) <= ceiling_priority[r]
    <2>1. \A i \in 0..Len(held) : Level(held, t, i) <= Level(held, t, Len(held))
      BY <1>1 DEF Rising
    <2>2. Len(held) \in 0..Len(held)
      BY <1>1
    <2>3. QED BY <1>3, <2>1, <2>2
  <1>5. ASSUME NEW i \in 0..Len(more), NEW j \in 0..Len(more), i <= j
        PROVE  Level(more, t, i) <= Level(more, t, j)
    <2>1. CASE j \in 0..Len(held)
      <3>1. i \in 0..Len(held)
        BY <1>1, <1>5, <2>1
      <3>2. QED BY <1>2, <1>5, <2>1, <3>1 DEF Rising
    <2>2. CASE j = Len(more) /\ i \in 0..Len(held)
      BY <1>2, <1>4, <2>2
    <2>3. CASE j = Len(more) /\ i = Len(more)
      BY <1>2, <1>3, <2>3
    <2>4. QED BY <1>1, <2>1, <2>2, <2>3
  <1>6. QED BY <1>5 DEF Rising

LEMMA RisingLess ==
    ASSUME NEW held \in Seq(AnyResource), NEW t, Rising(held, t), held # << >>,
           NEW less, Shorter(less, held)
    PROVE  Rising(less, t)
  <1>1. /\ Len(held) \in Nat /\ Len(less) = Len(held) - 1 /\ Len(less) \in Nat
        /\ \A i \in 1..(Len(held) - 1) : less[i] = held[i]
    BY DEF Shorter
  <1>2. \A i \in 0..Len(less) : i \in 0..Len(held) /\ Level(less, t, i) = Level(held, t, i)
    BY <1>1 DEF Level
  <1>3. QED BY <1>2 DEF Rising

LEMMA GetCeil ==
    ASSUME NoInternal, CeilInv, NEW r \in AnyResource, GetResource(r)
    PROVE  CeilInv'
  <1>1. PICK k : k = ResourceAdd(os, r, os.curr)
    OBVIOUS
  <1>2. PICK held : held = resourceHead[os.curr]
    OBVIOUS
  <1>3. PICK more : more = Append(held, r)
    OBVIOUS
  <1>4. PICK heads : heads = [resourceHead EXCEPT ![os.curr] = more]
    OBVIOUS
  <1>5. /\ ~halted /\ MayTake(r) /\ os' = k /\ heads = resourceHead'
        /\ \A i \in DOMAIN resourceHead[os.curr] : resourceHead[os.curr][i] # r
    BY <1>1, <1>2, <1>3, <1>4 DEF GetResource, Calling, Continue, curr
  <1>6. /\ PrioInv /\ KernelInv /\ os \in KernelRecord /\ os.curr \in Task
        /\ os.state[os.curr] \in Busy /\ \A t \in Task : os.state[t] \in TaskState
        /\ resourceHead \in [Task -> Seq(AnyResource)] /\ Agree(os, resourceHead)
        /\ Risen(resourceHead) /\ Stacked(os, resourceHead) /\ Levels(os, resourceHead)
        /\ held \in Seq(AnyResource)
    BY <1>2, <1>5, Found
  <1>7. /\ r = RES_SCHEDULER \/ (os.owner[r] = None /\ os.prio[os.curr] <= ceiling_priority[r])
        /\ os.owner[r] \in {None, os.curr} /\ Without(resourceHead[os.curr], r)
    BY <1>5, <1>6 DEF MayTake, PrioInv, Without, curr
  <1>8. /\ Sound(k) /\ k.curr = os.curr /\ Agree(k, heads) /\ k.state = os.state
        /\ \A t \in Task \ {os.curr} : k.prio[t] = os.prio[t]
    <2>1. heads = [resourceHead EXCEPT ![os.curr] = Append(resourceHead[os.curr], r)]
      BY <1>2, <1>3, <1>4
    <2>2. PrioInv /\ Takes(r, k, heads)
      BY <1>1, <1>6, <1>7, <2>1 DEF Takes
    <2>3. QED BY <2>2, GetAgrees
  <1>9. heads[os.curr] = more /\ \A t \in Task \ {os.curr} : heads[t] = resourceHead[t]
    BY <1>4, <1>6
  <1>10. Risen(heads)
    <2>1. Rising(more, os.curr)
      <3>1. Holds(os, held, os.curr) /\ Rising(held, os.curr)
        BY <1>2, <1>6 DEF Agree, Risen
      <3>2. os.prio[os.curr] <= ceiling_priority[r]
        <4>1. CASE r = RES_SCHEDULER
          <5>1. os.prio[os.curr] \in 0..OS_RES_SCHEDULER_PRIO
            BY <1>6, FieldsTyped
          <5>2. QED BY <4>1, <5>1, CeilingTyped DEF OS_RES_SCHEDULER_PRIO
        <4>2. QED BY <1>7, <4>1
      <3>3. Level(held, os.curr, Len(held)) <= ceiling_priority[r]
        BY <3>1, <3>2 DEF Holds
      <3>4. QED BY <1>3, <1>6, <3>1, <3>3, RisingMore
    <2>2. QED BY <1>6, <1>9, <2>1 DEF Risen
  <1>11. Stacked(k, heads)
    <2>1. k.ready = os.ready
      BY <1>1, <1>6, ListKept
    <2>2. SameButCurr(k, heads, os, resourceHead)
      BY <1>8, <1>9, <2>1 DEF SameButCurr
    <2>3. /\ Levels(os, resourceHead) /\ Agree(os, resourceHead) /\ Stacked(os, resourceHead)
          /\ os.curr \in Task /\ os.state[os.curr] \in Busy
          /\ \A t \in Task : os.state[t] \in TaskState
      BY <1>6
    <2>4. QED BY <2>2, <2>3, StackedAs
  <1>12. PrioInv'
    BY <1>6, GetPrio
  <1>13. QED BY <1>5, <1>8, <1>10, <1>11, <1>12, CeilKept

\* The running task without its innermost resource.
LEMMA ReleasedStacked ==
    ASSUME CeilInv, ~halted, resourceHead[os.curr] # << >>,
           NEW k, k = ResourceRemove(os, Innermost, os.curr),
           NEW less, Shorter(less, resourceHead[os.curr]),
           NEW heads, heads = [resourceHead EXCEPT ![os.curr] = less]
    PROVE  /\ Sound(k) /\ k.curr = os.curr /\ k.state[k.curr] = "RUNNING"
           /\ heads[k.curr] = less
           /\ Agree(k, heads) /\ Stacked(k, heads) /\ Risen(heads)
  <1>1. /\ PrioInv /\ os \in KernelRecord /\ os.curr \in Task
        /\ os.state[os.curr] = "RUNNING" /\ os.state[os.curr] \in Busy
        /\ \A t \in Task : os.state[t] \in TaskState
        /\ resourceHead \in [Task -> Seq(AnyResource)] /\ Agree(os, resourceHead)
        /\ Risen(resourceHead) /\ Stacked(os, resourceHead) /\ Levels(os, resourceHead)
    BY Found
  <1>2. /\ Sound(k) /\ k.curr = os.curr /\ k.state = os.state /\ Agree(k, heads)
        /\ heads[os.curr] = less
    BY <1>1, ReleaseAgrees
  <1>3. \A t \in Task \ {os.curr} : heads[t] = resourceHead[t]
    BY <1>1
  <1>4. PICK held : held = resourceHead[os.curr]
    OBVIOUS
  <1>5. held \in Seq(AnyResource) /\ held # << >> /\ Shorter(less, held) /\ Rising(held, os.curr)
    BY <1>1, <1>4 DEF Risen
  <1>6. Risen(heads)
    <2>1. Rising(less, os.curr)
      BY <1>5, RisingLess
    <2>2. QED BY <1>1, <1>2, <1>3, <2>1 DEF Risen
  <1>7. /\ \A t \in Task \ {os.curr} : k.prio[t] = os.prio[t]
        /\ k.ready = os.ready
    <2>1. PICK r : r = Innermost
      OBVIOUS
    <2>2. r \in AnyResource /\ k = ResourceRemove(os, r, os.curr)
      <3>1. held[Len(held)] \in AnyResource
        BY <1>5
      <3>2. QED BY <1>4, <2>1, <3>1 DEF Innermost
    <2>3. QED BY <1>1, <2>2, ResourceRemoved, ListKept
  <1>8. Stacked(k, heads)
    <2>1. SameButCurr(k, heads, os, resourceHead)
      BY <1>2, <1>3, <1>7 DEF SameButCurr
    <2>2. /\ Levels(os, resourceHead) /\ Agree(os, resourceHead) /\ Stacked(os, resourceHead)
          /\ os.curr \in Task /\ os.state[os.curr] \in Busy
          /\ \A t \in Task : os.state[t] \in TaskState
      BY <1>1
    <2>3. QED BY <2>1, <2>2, StackedAs
  <1>9. QED BY <1>1, <1>2, <1>6, <1>8

LEMMA ReleaseCeil == ASSUME NoInternal, CeilInv, ReleaseResource PROVE CeilInv'
  <1>1. PICK held : held = resourceHead[os.curr]
    OBVIOUS
  <1>2. PICK k : k = ResourceRemove(os, Innermost, os.curr)
    OBVIOUS
  <1>3. PICK less : less = SubSeq(held, 1, Len(held) - 1)
    OBVIOUS
  <1>4. PICK heads : heads = [resourceHead EXCEPT ![os.curr] = less]
    OBVIOUS
  <1>5. /\ ~halted /\ held # << >> /\ heads = resourceHead'
        /\ \/ Dispatch(RunningToReady(k, os.curr), From("body"))
           \/ os' = k
    BY <1>1, <1>2, <1>3, <1>4
       DEF ReleaseResource, Calling, Continue, curr, Innermost
  <1>6. held \in Seq(AnyResource)
    BY <1>1, <1>5, Found
  <1>7. Shorter(less, held)
    <2>1. Len(held) \in Nat /\ Len(held) # 0
      BY <1>5, <1>6, EmptySeq
    <2>2. PICK m : m = Len(held) - 1
      OBVIOUS
    <2>3. m \in Nat /\ m <= Len(held)
      BY <2>1, <2>2
    <2>4. /\ SubSeq(held, 1, m) \in Seq(AnyResource) /\ Len(SubSeq(held, 1, m)) = m
          /\ \A i \in 1..m : SubSeq(held, 1, m)[i] = held[i]
      BY <1>6, <2>3
    <2>5. QED BY <1>3, <2>2, <2>4 DEF Shorter
  <1>8. /\ Sound(k) /\ k.curr = os.curr /\ k.state[k.curr] = "RUNNING"
        /\ Agree(k, heads) /\ Stacked(k, heads) /\ Risen(heads)
    BY <1>1, <1>2, <1>4, <1>5, <1>7, ReleasedStacked
  <1>9. PrioInv'
    BY ReleasePrio DEF CeilInv
  <1>10. CASE Dispatch(RunningToReady(k, os.curr), From("body"))
    <2>1. PICK n : n = RunningToReady(k, k.curr)
      OBVIOUS
    <2>2. Sound(n) /\ Agree(n, heads) /\ Stacked(n, heads)
      BY <1>8, <2>1, StackedPreempted
    <2>3. Dispatch(n, From("body"))
      BY <1>8, <1>10, <2>1
    <2>4. QED BY <1>5, <1>8, <1>9, <2>2, <2>3, CeilKept
  <1>11. CASE os' = k
    BY <1>5, <1>8, <1>9, <1>11, CeilKept
  <1>12. QED BY <1>5, <1>10, <1>11

LEMMA ReturnCeil == ASSUME NoInternal, CeilInv, Return PROVE CeilInv'
  <1>1. PICK held : held = resourceHead[os.curr]
    OBVIOUS
  <1>2. PICK k : k = IF held = << >> THEN os ELSE ResourceRemove(os, held[1], os.curr)
    OBVIOUS
  <1>3. PICK n : n = Retire(k)
    OBVIOUS
  <1>4. PICK heads : heads = [resourceHead EXCEPT ![os.curr] = << >>]
    OBVIOUS
  <1>5. /\ ~halted /\ Calls[os.curr] # {}
        /\ \/ halted' = TRUE /\ UNCHANGED <<os, resourceHead>>
           \/ ~(Len(held) > 1) /\ heads = resourceHead' /\ Dispatch(n, From("TerminateTask"))
    BY <1>1, <1>2, <1>3, <1>4 DEF Return, Calling, curr
  <1>6. PrioInv'
    BY ReturnPrio DEF CeilInv
  <1>7. CASE halted' = TRUE /\ UNCHANGED <<os, resourceHead>>
    BY <1>6, <1>7, CeilStill
  <1>8. CASE ~(Len(held) > 1) /\ heads = resourceHead' /\ Dispatch(n, From("TerminateTask"))
    <2>1. /\ Sound(k) /\ k.curr = os.curr /\ k.state[k.curr] = "RUNNING"
          /\ heads[k.curr] = << >>
          /\ Agree(k, heads) /\ Stacked(k, heads) /\ Risen(heads)
      <3>1. /\ Sound(os) /\ os.curr \in Task /\ os.state[os.curr] = "RUNNING"
            /\ resourceHead \in [Task -> Seq(AnyResource)] /\ Agree(os, resourceHead)
            /\ Stacked(os, resourceHead) /\ Risen(resourceHead) /\ held \in Seq(AnyResource)
        BY <1>1, <1>5, Found
      <3>2. CASE held = << >>
        <4>1. heads = resourceHead /\ k = os
          BY <1>1, <1>2, <1>4, <3>1, <3>2
        <4>2. QED BY <1>1, <3>1, <3>2, <4>1
      <3>3. CASE held # << >>
        <4>1. Len(held) = 1
          <5>1. Len(held) \in Nat /\ Len(held) # 0
            BY <3>1, <3>3, EmptySeq
          <5>2. PICK size : size = Len(held)
            OBVIOUS
          <5>3. ~(size > 1)
            BY <1>8, <5>2
          <5>4. size \in Nat /\ size # 0
            BY <5>1, <5>2
          <5>5. size = 1
            BY <5>3, <5>4
          <5>6. QED BY <5>2, <5>5
        <4>2. PICK less : less = << >>
          OBVIOUS
        <4>3. k = ResourceRemove(os, Innermost, os.curr)
          BY <1>1, <1>2, <3>3, <4>1 DEF Innermost
        <4>4. Shorter(less, held)
          BY <4>1, <4>2, EmptySeq DEF Shorter
        <4>5. /\ Sound(k) /\ k.curr = os.curr /\ k.state[k.curr] = "RUNNING"
              /\ heads[k.curr] = less
              /\ Agree(k, heads) /\ Stacked(k, heads) /\ Risen(heads)
          BY <1>1, <1>4, <1>5, <3>3, <4>2, <4>3, <4>4, ReleasedStacked
        <4>6. QED BY <4>2, <4>5
      <3>4. QED BY <3>2, <3>3
    <2>2. KernelInv
      BY <1>5, Found
    <2>3. Sound(n) /\ Agree(n, heads) /\ Stacked(n, heads)
      BY <1>3, <1>5, <2>1, <2>2, StackedRetired
    <2>4. QED BY <1>6, <1>8, <2>1, <2>3, CeilKept
  <1>9. QED BY <1>5, <1>7, <1>8

-----------------------------------------------------------------------------
(* Interrupts, every step, and what follows.                               *)

LEMMA EnterCeil == ASSUME CeilInv, EnterIsr PROVE CeilInv'
  <1>1. UNCHANGED <<os, resourceHead, halted>>
    BY DEF EnterIsr
  <1>2. PrioInv'
    BY EnterPrio DEF CeilInv
  <1>3. QED BY <1>1, <1>2, CeilStill

LEMMA LeaveCeil == ASSUME NoInternal, CeilInv, LeaveIsr PROVE CeilInv'
  <1>1. PICK k : k = RunningToReady(os, os.curr)
    OBVIOUS
  <1>2. /\ ~halted /\ UNCHANGED resourceHead
        /\ os' = IF intNestCnt = 1 THEN TailChaining(k) ELSE os
    BY <1>1 DEF LeaveIsr, curr
  <1>3. PrioInv'
    BY LeavePrio DEF CeilInv
  <1>4. CASE intNestCnt # 1
    BY <1>2, <1>3, <1>4, CeilStill
  <1>5. CASE intNestCnt = 1
    <2>1. PICK heads : heads = resourceHead
      OBVIOUS
    <2>2. /\ Sound(os) /\ os.state[os.curr] = "RUNNING" /\ os.state[os.curr] \in Busy
          /\ os.curr \in Task /\ heads \in [Task -> Seq(AnyResource)]
          /\ Agree(os, heads) /\ Stacked(os, heads) /\ Risen(heads)
      BY <1>2, <2>1, Found
    <2>3. Sound(k) /\ k.curr = os.curr /\ Agree(k, heads) /\ Stacked(k, heads)
      BY <1>1, <2>2, StackedPreempted
    <2>4. Levels(k, heads) /\ k \in KernelRecord
      BY <2>2, <2>3, LevelsHold DEF Sound
    <2>5. PICK t : t \in {k.curr, TaskGetTop(k)} /\ os' = SwapTo(k, t)
      BY <1>2, <1>5 DEF TailChaining
    <2>6. t \in Task /\ k.state[t] \in Busy
      <3>1. k.state[k.curr] \in Busy
        BY <1>1, <2>2, <2>3, StillReady
      <3>2. QED BY <2>2, <2>3, <2>5, <3>1, TopOfList
    <2>7. PICK n : n = SwapTo(k, t)
      OBVIOUS
    <2>8. /\ Sound(n) /\ n.curr = t /\ SameRest(n, k) /\ SamePriorities(n, k)
          /\ n.ready = k.ready
      BY <2>3, <2>4, <2>6, <2>7, Swapped, SwapKeepsList DEF NoInternal
    <2>9. Stacked(n, heads)
      <3>1. CASE t = TaskGetTop(k)
        BY <2>3, <2>4, <2>8, <3>1, TopStacked
      <3>2. CASE t = k.curr
        <4>1. \A u \in Task : n.state[u] \in Busy => k.state[u] \in Busy
          BY <2>8 DEF SameRest
        <4>2. QED BY <2>3, <2>8, <3>2, <4>1, StackedOn
      <3>3. QED BY <2>5, <3>1, <3>2
    <2>10. Agree(n, heads)
      <3>1. \A u \in Task : n.state[u] \in Resting => n.state[u] = k.state[u]
        BY <2>8 DEF SameRest, Resting, Busy
      <3>2. QED BY <2>3, <2>8, <3>1, AgreeOn
    <2>11. os' = n /\ heads = resourceHead'
      BY <1>2, <2>1, <2>5, <2>7
    <2>12. QED BY <1>3, <2>2, <2>8, <2>9, <2>10, <2>11, CeilKept
  <1>6. QED BY <1>4, <1>5

LEMMA CeilStep == ASSUME NoInternal, CeilInv, ObservedNext PROVE CeilInv'
  <1>1. ASSUME NEW d \in Task, ActivateTask(d) \/ ChainTask(d) PROVE CeilInv'
    BY <1>1, ActivateCeil, ChainCeil
  <1>2. CASE TerminateTask \/ Return \/ ChainSelf \/ Schedule
    BY <1>2, TerminateCeil, ReturnCeil, ChainSelfCeil, ScheduleCeil
  <1>3. ASSUME NEW d \in Task, NEW m \in Mask, SetEventValidated(d, m) PROVE CeilInv'
    BY <1>3, QuietCeil
  <1>4. CASE SetEvent \/ ReleaseResource
    BY <1>4, SetEventCeil, ReleaseCeil
  <1>5. ASSUME NEW m \in Mask, ClearEvent(m) \/ WaitEvent(m) PROVE CeilInv'
    BY <1>5, IdleTask, QuietCeil, WaitCeil
  <1>6. ASSUME NEW r \in StandardResource \cup {RES_SCHEDULER}, GetResource(r) PROVE CeilInv'
    BY <1>6, ResourceSplit, GetCeil
  <1>7. CASE Interrupt
    <2>1. ASSUME NEW d \in Task, NEW m \in Mask, IsrSetEvent(d, m) PROVE CeilInv'
      BY <2>1, BitsCeil DEF IsrSetEvent, InIsr, Mask
    <2>2. QED BY <1>7, <2>1, EnterCeil, LeaveCeil DEF Interrupt
  <1>8. QED
    BY ObservedNext, <1>1, <1>2, <1>3, <1>4, <1>5, <1>6, <1>7, Zenon DEF ObservedNext

LEMMA CeilStutter == ASSUME CeilInv, UNCHANGED observedVars PROVE CeilInv'
  <1>1. PrioInv'
    BY PrioStutter DEF CeilInv
  <1>2. UNCHANGED <<os, resourceHead, halted>>
    BY DEF observedVars, vars
  <1>3. QED BY <1>1, <1>2, CeilStill

LEMMA CeilStart == ASSUME NoInternal, Init PROVE CeilInv
  <1>1. PrioInv
    BY PrioStart
  <1>2. PICK heads : heads = resourceHead
    OBVIOUS
  <1>3. heads = [t \in Task |-> << >>]
    BY <1>2 DEF Init
  <1>4. \A t \in Task : heads[t] = << >>
    BY <1>3
  <1>5. Risen(heads)
    <2>1. ASSUME NEW t \in Task PROVE Rising(<< >>, t)
      <3>1. << >> \in Seq(AnyResource) /\ Len(<< >>) = 0 /\ 0 \in 0..Len(<< >>)
        BY EmptySeq
      <3>2. Level(<< >>, t, 0) \in Int
        BY <3>1, LevelTyped
      <3>3. \A i \in 0..Len(<< >>) : i = 0
        BY <3>1
      <3>4. QED BY <3>2, <3>3 DEF Rising
    <2>2. QED BY <1>4, <2>1 DEF Risen
  <1>6. Stacked(os, heads)
    <2>1. PICK k : k = StartRecord(Idle)
      OBVIOUS
    <2>2. PICK top : top = TaskGetTop(k)
      OBVIOUS
    <2>3. /\ Sound(k) /\ top \in Task /\ k.state[top] \in Busy /\ k.prio = prio
          /\ \A u \in Task : k.state[u] \in Busy => k.prio[u] <= k.prio[top]
      BY <2>1, <2>2, StartSound, TopOfList DEF StartRecord
    <2>4. os = SwapTo(k, top)
      BY <2>1, <2>2, <2>3, StartSound DEF Init
    <2>5. PICK n : n = SwapTo(k, top)
      OBVIOUS
    <2>6. n.curr = top /\ SameRest(n, k) /\ SamePriorities(n, k) /\ n.ready = k.ready
      <3>1. k \in KernelRecord
        BY <2>3 DEF Sound
      <3>2. QED BY <2>3, <2>5, <3>1, Swapped, SwapKeepsList DEF NoInternal
    <2>7. Queued(n, heads)
      <3> SUFFICES ASSUME NEW u \in Task, top # u, n.state[u] \in Busy, prio[top] <= n.prio[u]
                   PROVE  Ahead(n.ready, top, u)
        BY <1>4, <2>6 DEF Queued, Begun
      <3>1. k.state[u] \in Busy /\ k.prio[u] <= k.prio[top] /\ k.prio[top] <= k.prio[u]
        BY <2>3, <2>6 DEF SameRest, SamePriorities
      <3>2. k.prio[u] \in Int /\ k.prio[top] \in Int
        BY <2>3, PrioritiesTyped DEF Sound
      <3>3. k.prio[u] = k.prio[top]
        BY <3>1, <3>2
      <3>4. QED BY <2>2, <2>3, <2>6, <3>1, <3>3, TopIsAhead
    <2>8. Below(n, heads) /\ Apart(n, heads)
      BY <1>4 DEF Below, Apart
    <2>9. QED BY <2>4, <2>5, <2>7, <2>8 DEF Stacked
  <1>7. QED BY <1>1, <1>2, <1>5, <1>6 DEF CeilInv

LEMMA CeilInvariant == ASSUME NoInternal PROVE ObservedSpec => []CeilInv
  <1>1. ObservedInit => CeilInv
    BY CeilStart DEF ObservedInit
  <1>2. CeilInv /\ [ObservedNext]_observedVars => CeilInv'
    BY CeilStep, CeilStutter
  <1>3. QED BY <1>1, <1>2, PTL DEF ObservedSpec

\* Without internal resources, nobody runs who may take a resource that another
\* task holds: the ceiling of a resource keeps its users from running while it is
\* held, whatever is activated, woken or interrupted (os_resource.c:100-265,
\* os_task.c:295-343).
THEOREM CeilingKeepsOut == ASSUME NoInternal PROVE ObservedSpec => []CeilingExcludes
  <1>1. CeilInv => CeilingExcludes
    <2> SUFFICES ASSUME CeilInv, ~halted, NEW t \in Task \ {os.curr}, NEW r \in Held(t),
                        r = RES_SCHEDULER \/ r \in resourceAccess[os.curr]
                 PROVE  FALSE
      BY DEF CeilingExcludes, AtTaskLevel, curr
    <2>1. PICK held : held = resourceHead[t]
      OBVIOUS
    <2>2. /\ PrioInv /\ os.curr \in Task /\ os \in KernelRecord
          /\ held \in Seq(AnyResource) /\ Holds(os, held, t)
          /\ Rising(held, t) /\ Stacked(os, resourceHead)
      BY <2>1, Found DEF Agree, Risen
    <2>3. PICK i \in 1..Len(held) : r = held[i]
      BY <2>1, <2>2 DEF Held
    <2>4. r \in AnyResource /\ held # << >> /\ os.owner[r] = t
      BY <2>2, <2>3, EmptySeq, ElementOfSeq DEF Holds
    <2>5. r # RES_SCHEDULER
      BY <2>2, <2>4, KernelAssumption DEF PrioInv
    <2>6. prio[os.curr] <= ceiling_priority[r] /\ ceiling_priority[r] \in Int
      BY <2>2, <2>4, <2>5, CeilingTyped, NumbersTyped
    <2>7. ceiling_priority[r] <= os.prio[t]
      BY <2>2, <2>3, CeilingReached
    <2>8. os.prio[t] < prio[os.curr]
      BY <2>1, <2>2, <2>4 DEF Stacked, Below
    <2>9. prio[os.curr] \in Int /\ os.prio[t] \in Int
      BY <2>2, PrioritiesTyped
    <2>10. QED BY <2>6, <2>7, <2>8, <2>9
  <1>2. QED BY <1>1, CeilInvariant, PTL

-----------------------------------------------------------------------------
(* The asserts of the kernel, for applications that respect what it leaves    *)
(* to them.                                                                   *)

\* A context saved inside TerminateTask or ChainTask is not to be resumed.
Dead == {"TerminateTask", "ChainTask"}
\* Started with the system, and it never ends.
Standing(t) == Started(t) /\ Calls[t] \cap Ends = {}

\* A task with activations left, or that chains to itself, starts anew only when
\* it is still the first of the highest priority; a SetEvent is completed
\* although its target may have ended meanwhile; a task that returns gives up
\* one resource.  In pwc all four hold: no task is non-preemptive, chains, takes a
\* resource or calls SetEvent (Os_Cfg.c:171-233, Rte.c:66-104, Tasks.c:28-38).
WellBuilt ==
    /\ \A t \in Task \cap NonPreemptive :
          Calls[t] \cap Ends # {} => activationLimit[t] = 1 /\ "ChainTask" \notin Calls[t]
    /\ \A t, u \in Task :
          "ChainTask" \in Calls[t] /\ activationLimit[t] > 1 /\ prio[t] < prio[u] => Standing(u)
    /\ \A t \in Task :
          {"return", "GetResource"} \subseteq Calls[t] =>
             resourceAccess[t] = {} /\ activationLimit[t] = 1
    /\ (\E t \in Task : "SetEvent" \in Calls[t]) => \A u \in Extended : Calls[u] \cap Ends = {}

\* Nobody is to be resumed in a dead context.
LivePlaces(k, at) == \A t \in Task : k.state[t] # "SUSPENDED" => at[t] \notin Dead

\* The target of a SetEvent that has been validated is still there.
LiveTargets(k, at, args) ==
    \A t \in Task : at[t] = "SetEvent" =>
       /\ "SetEvent" \in Calls[t] /\ args[t].dest \in Task
       /\ args[t].dest \in Extended /\ k.state[args[t].dest] # "SUSPENDED"

\* The owner of the scheduler resource has it among what it holds.
SchedulerHeld(k, heads) ==
    \A t \in Task : k.owner[RES_SCHEDULER] = t =>
       \E i \in 1..Len(heads[t]) : heads[t][i] = RES_SCHEDULER

\* What is held has been taken, by a task that may take it.
TakenByUser(heads) ==
    \A t \in Task : \A i \in 1..Len(heads[t]) :
       "GetResource" \in Calls[t] /\ heads[t][i] \in resourceAccess[t] \cup {RES_SCHEDULER}

Alive ==
    /\ ~halted /\ LivePlaces(os, context) /\ LiveTargets(os, context, pending)
    /\ SchedulerHeld(os, resourceHead) /\ TakenByUser(resourceHead)

AssertInv == CeilInv /\ Counted /\ Alive

\* A service leaves n to the dispatcher and the places at.
Leaves(n, at) ==
    /\ Sound(n) /\ n.curr = os.curr /\ at \in [Task -> Context] /\ UNCHANGED pending
    /\ \/ Dispatch(n, at) /\ n.owner[RES_SCHEDULER] = None
       \/ Continue(n, at)

\* Who is suspended was before or may end; whoever goes on does so alive.
Fits(n, at) ==
    \A t \in Task :
       /\ n.state[t] = "SUSPENDED" => os.state[t] = "SUSPENDED" \/ Calls[t] \cap Ends # {}
       /\ n.state[t] # "SUSPENDED" /\ at[t] \in Dead =>
             t = os.curr /\ Dispatch(n, at) /\ Restarts(n)
       /\ at[t] = "SetEvent" => context[t] = "SetEvent"

LEMMA TargetsLive ==
    ASSUME WellBuilt, NEW k, NEW n, NEW at, NEW places, LiveTargets(k, at, pending),
           \A t \in Task : places[t] = "SetEvent" => at[t] = "SetEvent",
           \A t \in Task : n.state[t] = "SUSPENDED" =>
              k.state[t] = "SUSPENDED" \/ Calls[t] \cap Ends # {}
    PROVE  LiveTargets(n, places, pending)
  <1> SUFFICES ASSUME NEW t \in Task, places[t] = "SetEvent"
               PROVE  /\ "SetEvent" \in Calls[t] /\ pending[t].dest \in Task
                      /\ pending[t].dest \in Extended /\ n.state[pending[t].dest] # "SUSPENDED"
    BY DEF LiveTargets
  <1>1. PICK d : d = pending[t].dest
    OBVIOUS
  <1>2. "SetEvent" \in Calls[t] /\ d \in Task /\ d \in Extended /\ k.state[d] # "SUSPENDED"
    BY <1>1 DEF LiveTargets
  <1>3. Calls[d] \cap Ends = {}
    BY <1>2 DEF WellBuilt
  <1>4. QED BY <1>1, <1>2, <1>3

\* No assert fails in the rest of a service.
LEMMA ServiceLives ==
    ASSUME NoInternal, WellBuilt, AssertInv, NEW n, NEW at, Leaves(n, at), Fits(n, at),
           SchedulerHeld(n, resourceHead'), TakenByUser(resourceHead')
    PROVE  Alive'
  <1>1. /\ ~halted /\ os.curr \in Task /\ LiveTargets(os, context, pending)
    BY Found DEF AssertInv, Alive
  <1>2. TakenByUser(resourceHead)'
    BY DEF TakenByUser
  <1>3. CASE Continue(n, at)
    <2>1. os' = n /\ context' = at /\ ~halted' /\ UNCHANGED pending
      BY <1>1, <1>3 DEF Continue, Leaves
    <2>2. \A t \in Task : n.state[t] # "SUSPENDED" => at[t] \notin Dead
      <3>1. Dispatch(n, at) /\ Restarts(n) => at[os.curr] \notin Dead
        <4> SUFFICES ASSUME Dispatch(n, at), Restarts(n) PROVE at[os.curr] \notin Dead
          OBVIOUS
        <4>1. context' = [at EXCEPT ![os.curr] = "entry"]
          BY DEF Dispatch, curr
        <4>2. context'[os.curr] = "entry"
          BY <1>1, <4>1 DEF Leaves
        <4>3. QED BY <2>1, <4>2 DEF Dead
      <3>2. QED BY <3>1 DEF Fits
    <2>3. LiveTargets(n, at, pending)
      BY <1>1, TargetsLive DEF Fits
    <2>4. LivePlaces(os, context)' /\ LiveTargets(os, context, pending)'
      BY <2>1, <2>2, <2>3 DEF LivePlaces, LiveTargets
    <2>5. SchedulerHeld(os, resourceHead)'
      BY <2>1 DEF SchedulerHeld
    <2>6. QED BY <1>2, <2>1, <2>4, <2>5 DEF Alive
  <1>4. CASE Dispatch(n, at) /\ n.owner[RES_SCHEDULER] = None
    <2>1. PICK m : m = Dispatched(n)
      OBVIOUS
    <2>2. PICK places : places = [at EXCEPT ![os.curr] = IF Restarts(n) THEN "entry" ELSE @]
      OBVIOUS
    <2>3. /\ os' = m /\ context' = places /\ UNCHANGED pending
          /\ halted' = (\/ ~SchedulerResourceIsFree(n)
                        \/ ~Restarts(n) /\ ~OwnsInternal(n)
                        \/ ResumesDead(places, m))
      BY <1>4, <2>1, <2>2, Zenon DEF Dispatch, Leaves, curr
    <2>4. m.curr = TaskGetTop(n) /\ SameRest(m, n) /\ SamePriorities(m, n)
      BY <2>1, DispatchedSound DEF Leaves, NoInternal
    <2>5. /\ at \in [Task -> Context]
          /\ \A t \in Task \ {os.curr} : places[t] = at[t]
          /\ places[os.curr] = IF Restarts(n) THEN "entry" ELSE at[os.curr]
      BY <1>1, <2>2 DEF Leaves
    <2>6. \A t \in Task : n.state[t] # "SUSPENDED" => places[t] \notin Dead
      BY <2>5 DEF Fits, Dead
    <2>7. \A t \in Task : m.state[t] = "SUSPENDED" <=> n.state[t] = "SUSPENDED"
      BY <2>4 DEF SameRest, Busy
    <2>8. LivePlaces(m, places)
      BY <2>6, <2>7 DEF LivePlaces
    <2>9. LiveTargets(m, places, pending)
      <3>1. \A t \in Task : places[t] = "SetEvent" => context[t] = "SetEvent"
        BY <2>5 DEF Fits
      <3>2. \A t \in Task : m.state[t] = "SUSPENDED" =>
               os.state[t] = "SUSPENDED" \/ Calls[t] \cap Ends # {}
        BY <2>7 DEF Fits
      <3>3. QED BY <1>1, <3>1, <3>2, TargetsLive
    <2>10. ~halted'
      <3>1. SchedulerResourceIsFree(n) /\ OwnsInternal(n)
        BY <1>1, <1>4 DEF SchedulerResourceIsFree, OwnsInternal, NoInternal, Leaves
      <3>2. ~ResumesDead(places, m)
        <4>1. TaskGetTop(n) \in Task /\ n.state[TaskGetTop(n)] \in Busy
          BY TopOfList DEF Leaves
        <4>2. places[m.curr] \notin Dead
          BY <2>4, <2>6, <4>1 DEF Busy
        <4>3. QED BY <4>2 DEF ResumesDead, Dead
      <3>3. QED BY <2>3, <3>1, <3>2
    <2>11. SchedulerHeld(m, resourceHead')
      BY <2>4 DEF SchedulerHeld, SamePriorities
    <2>12. /\ LivePlaces(os, context)' /\ LiveTargets(os, context, pending)'
           /\ SchedulerHeld(os, resourceHead)'
      BY <2>3, <2>8, <2>9, <2>11 DEF LivePlaces, LiveTargets, SchedulerHeld
    <2>13. QED BY <1>2, <2>10, <2>12 DEF Alive
  <1>5. QED BY <1>3, <1>4 DEF Leaves

\* What a service finds when no assert has failed.
LEMMA FoundAlive ==
    ASSUME AssertInv
    PROVE  /\ CeilInv /\ PrioInv /\ KernelInv /\ Counted /\ ~halted /\ Sound(os)
           /\ os.curr \in Task /\ os.state[os.curr] = "RUNNING" /\ os.state[os.curr] \in Busy
           /\ resourceHead \in [Task -> Seq(AnyResource)]
           /\ Agree(os, resourceHead) /\ Stacked(os, resourceHead) /\ Levels(os, resourceHead)
           /\ LivePlaces(os, context) /\ LiveTargets(os, context, pending)
           /\ SchedulerHeld(os, resourceHead) /\ TakenByUser(resourceHead)
  BY Found DEF AssertInv, Alive

\* A task that holds nothing does not hold the scheduler, and then nobody does.
LEMMA SchedulerFree ==
    ASSUME AssertInv, resourceHead[os.curr] = << >>
    PROVE  os.owner[RES_SCHEDULER] = None
  <1>1. os.owner[RES_SCHEDULER] \in {None, os.curr}
    BY FoundAlive DEF PrioInv
  <1>2. os.owner[RES_SCHEDULER] # os.curr
    <2> SUFFICES ASSUME os.owner[RES_SCHEDULER] = os.curr PROVE FALSE
      OBVIOUS
    <2>1. PICK i \in 1..Len(resourceHead[os.curr]) : TRUE
      BY FoundAlive DEF SchedulerHeld
    <2>2. QED BY <2>1, EmptySeq
  <1>3. QED BY <1>1, <1>2

LEMMA HeldSame ==
    ASSUME AssertInv, NEW n, SamePriorities(n, os), UNCHANGED resourceHead
    PROVE  SchedulerHeld(n, resourceHead') /\ TakenByUser(resourceHead')
  BY FoundAlive DEF SamePriorities, SchedulerHeld, TakenByUser

\* A service after which the running task, or the interrupted one, goes on.
LEMMA BodyFits ==
    ASSUME AssertInv, NEW n, Quiet(n, os), NEW at, at = From("body")
    PROVE  Fits(n, at) /\ at \in [Task -> Context]
  <1>1. at \in [Task -> Context] /\ context \in [Task -> Context]
    BY FoundAlive, Before, PlaceTyped DEF Context
  <1>2. \A t \in Task : at[t] = context[t] \/ at[t] = "body"
    BY <1>1 DEF From, curr
  <1>3. \A t \in Task : n.state[t] # "SUSPENDED" => context[t] \notin Dead
    BY FoundAlive DEF Quiet, LivePlaces
  <1>4. QED BY <1>1, <1>2, <1>3 DEF Fits, Quiet, Dead

LEMMA PlainLives ==
    ASSUME NoInternal, WellBuilt, AssertInv, NEW n, Sound(n), n.curr = os.curr, Quiet(n, os),
           SchedulerHeld(n, resourceHead'), TakenByUser(resourceHead'), UNCHANGED pending,
           \/ Dispatch(n, From("body")) /\ n.owner[RES_SCHEDULER] = None
           \/ Continue(n, From("body"))
    PROVE  Alive'
  <1>1. PICK at : at = From("body")
    OBVIOUS
  <1>2. Fits(n, at) /\ at \in [Task -> Context]
    BY <1>1, BodyFits
  <1>3. Leaves(n, at)
    BY <1>1, <1>2 DEF Leaves
  <1>4. QED BY <1>2, <1>3, ServiceLives

LEMMA ScheduleLives == ASSUME NoInternal, WellBuilt, AssertInv, Schedule PROVE Alive'
  <1>1. PICK n : n = RunningToReady(os, os.curr)
    OBVIOUS
  <1>2. /\ Dispatch(n, From("body")) /\ resourceHead[os.curr] = << >>
        /\ UNCHANGED <<resourceHead, pending>>
    BY <1>1 DEF Schedule, curr
  <1>3. /\ Sound(n) /\ n.curr = os.curr /\ SamePriorities(n, os) /\ SameRest(n, os)
    BY <1>1, FoundAlive, StillReady
  <1>4. Quiet(n, os)
    BY <1>3 DEF Quiet, SameRest, Busy
  <1>5. n.owner[RES_SCHEDULER] = None
    BY <1>2, <1>3, SchedulerFree DEF SamePriorities
  <1>6. QED BY <1>2, <1>3, <1>4, <1>5, HeldSame, PlainLives

LEMMA WaitLives ==
    ASSUME NoInternal, WellBuilt, AssertInv, NEW m \in Mask, WaitEvent(m)
    PROVE  Alive'
  <1>1. PICK n : n = Unlist(os, os.curr, "WAITING")
    OBVIOUS
  <1>2. /\ Calls[os.curr] # {} /\ Waiter(os.curr) /\ resourceHead[os.curr] = << >>
        /\ UNCHANGED <<resourceHead, pending>>
        /\ Continue(os, From("body")) \/ Dispatch(n, From("body"))
    BY <1>1 DEF WaitEvent, Calling, curr, Waiter
  <1>3. CASE Continue(os, From("body"))
    <2>1. SamePriorities(os, os) /\ Quiet(os, os)
      BY QuietSame DEF SamePriorities
    <2>2. QED BY <1>2, <1>3, <2>1, FoundAlive, HeldSame, PlainLives
  <1>4. CASE Dispatch(n, From("body"))
    <2>1. /\ Sound(n) /\ n.curr = os.curr /\ SamePriorities(n, os)
          /\ n.state[os.curr] = "WAITING" /\ \A u \in Task \ {os.curr} : n.state[u] = os.state[u]
      BY <1>1, <1>2, FoundAlive, IdleTask, Unlisted
    <2>2. Quiet(n, os)
      BY <1>2, <2>1, FoundAlive DEF Quiet
    <2>3. n.owner[RES_SCHEDULER] = None
      BY <1>2, <2>1, SchedulerFree DEF SamePriorities
    <2>4. QED BY <1>2, <1>4, <2>1, <2>2, <2>3, HeldSame, PlainLives
  <1>5. QED BY <1>2, <1>3, <1>4

\* The target of a SetEvent is not suspended, so that no assert is reached.
LEMMA BitsLive ==
    ASSUME NoInternal, WellBuilt, AssertInv, NEW d \in Task, NEW m, os.state[d] # "SUSPENDED",
           SetBits(d, m)
    PROVE  Alive'
  <1>1. PICK k : k = IF os.state[d] = "WAITING" /\ m \cap ev_wait[d] # {} THEN MakeReady(os, d)
                     ELSE os
    OBVIOUS
  <1>2. /\ UNCHANGED <<resourceHead, pending>>
        /\ \/ Preempts(k, d) /\ Dispatch(RunningToReady(k, os.curr), From("body"))
           \/ Continue(k, From("body"))
    BY <1>1 DEF SetBits, curr
  <1>3. /\ Sound(k) /\ k.curr = os.curr /\ SamePriorities(k, os)
        /\ \A t \in Task \ {d} : k.state[t] = os.state[t]
    BY <1>1, FoundAlive, ReadyAgrees
  <1>4. k.state[os.curr] = "RUNNING" /\ k.state[os.curr] \in Busy
    BY <1>1, FoundAlive, ReadyFound DEF Busy
  <1>5. Quiet(k, os)
    <2>1. k = os \/ k.state[d] \in Busy
      BY <1>1, FoundAlive, MadeReady
    <2>2. CASE k = os
      BY <2>2, QuietSame
    <2>3. CASE k.state[d] \in Busy
      BY <1>3, <2>3 DEF Quiet, Busy
    <2>4. QED BY <2>1, <2>2, <2>3
  <1>6. CASE Continue(k, From("body"))
    BY <1>2, <1>3, <1>5, <1>6, HeldSame, PlainLives
  <1>7. CASE Preempts(k, d) /\ Dispatch(RunningToReady(k, os.curr), From("body"))
    <2>1. PICK n : n = RunningToReady(k, os.curr)
      OBVIOUS
    <2>2. /\ Sound(n) /\ n.curr = k.curr /\ SamePriorities(n, k) /\ SameRest(n, k)
      BY <1>3, <1>4, <2>1, FoundAlive, StillReady
    <2>3. Quiet(n, os) /\ SamePriorities(n, os)
      BY <1>3, <1>5, <2>2, QuietThrough DEF SamePriorities
    <2>4. n.owner[RES_SCHEDULER] = None
      BY <1>7, <2>2 DEF Preempts, SchedulerResourceIsFree, SamePriorities
    <2>5. QED BY <1>2, <1>3, <1>7, <2>1, <2>2, <2>3, <2>4, HeldSame, PlainLives
  <1>8. QED BY <1>2, <1>6, <1>7

LEMMA SetEventLives == ASSUME NoInternal, WellBuilt, AssertInv, SetEvent PROVE Alive'
  <1>1. PICK d : d = pending[os.curr].dest
    OBVIOUS
  <1>2. context[os.curr] = "SetEvent" /\ SetBits(d, pending[os.curr].mask)
    BY <1>1 DEF SetEvent, curr
  <1>3. d \in Task /\ os.state[d] # "SUSPENDED"
    BY <1>1, <1>2, FoundAlive DEF LiveTargets
  <1>4. QED BY <1>2, <1>3, BitsLive

LEMMA ValidatedLives ==
    ASSUME NoInternal, WellBuilt, AssertInv, NEW d \in Task, NEW m \in Mask,
           SetEventValidated(d, m)
    PROVE  Alive'
  <1>1. /\ "SetEvent" \in Calls[os.curr] /\ d \in Extended /\ os.state[d] # "SUSPENDED"
        /\ context' = [context EXCEPT ![os.curr] = "SetEvent"]
        /\ pending' = [pending EXCEPT ![os.curr] = [dest |-> d, mask |-> m]]
        /\ UNCHANGED <<os, resourceHead, halted>>
    BY DEF SetEventValidated, Calling, Settable, From, curr
  <1>2. context \in [Task -> Context] /\ os.curr \in Task
        /\ pending \in [Task -> [dest : Task, mask : SUBSET Event]]
    BY FoundAlive, Before
  <1>3. /\ context'[os.curr] = "SetEvent" /\ pending'[os.curr].dest = d
        /\ \A t \in Task \ {os.curr} : context'[t] = context[t] /\ pending'[t] = pending[t]
    BY <1>1, <1>2
  <1>4. LivePlaces(os, context)'
    BY <1>1, <1>3, FoundAlive DEF LivePlaces, Dead
  <1>5. LiveTargets(os, context, pending)'
    BY <1>1, <1>3, FoundAlive DEF LiveTargets
  <1>6. SchedulerHeld(os, resourceHead)' /\ TakenByUser(resourceHead)'
    BY <1>1, FoundAlive DEF SchedulerHeld, TakenByUser
  <1>7. QED BY <1>1, <1>4, <1>5, <1>6, FoundAlive DEF Alive

LEMMA ClearLives ==
    ASSUME NoInternal, WellBuilt, AssertInv, NEW m \in Mask, ClearEvent(m)
    PROVE  Alive'
  <1>1. Continue(os, From("body")) /\ UNCHANGED <<resourceHead, pending>>
    BY DEF ClearEvent, Continue
  <1>2. SamePriorities(os, os) /\ Quiet(os, os)
    BY QuietSame DEF SamePriorities
  <1>3. QED BY <1>1, <1>2, FoundAlive, HeldSame, PlainLives

\* A sequence without its last element.
LEMMA ShorterBy ==
    ASSUME NEW held \in Seq(AnyResource), held # << >>,
           NEW less, less = SubSeq(held, 1, Len(held) - 1)
    PROVE  Shorter(less, held)
  <1>1. Len(held) \in Nat /\ Len(held) # 0
    BY EmptySeq
  <1>2. PICK m : m = Len(held) - 1
    OBVIOUS
  <1>3. m \in Nat /\ m <= Len(held)
    BY <1>1, <1>2
  <1>4. /\ SubSeq(held, 1, m) \in Seq(AnyResource) /\ Len(SubSeq(held, 1, m)) = m
        /\ \A i \in 1..m : SubSeq(held, 1, m)[i] = held[i]
    BY <1>3
  <1>5. QED BY <1>2, <1>4 DEF Shorter

\* Resources: taken, and given back innermost first.
LEMMA GetLives ==
    ASSUME NoInternal, WellBuilt, AssertInv, NEW r \in AnyResource, GetResource(r)
    PROVE  Alive'
  <1>c. PICK c : c = os.curr
    OBVIOUS
  <1>h. PICK held : held = resourceHead[c]
    OBVIOUS
  <1>m. PICK more : more = Append(held, r)
    OBVIOUS
  <1>1. PICK k : k = ResourceAdd(os, r, c)
    OBVIOUS
  <1>2. PICK heads : heads = resourceHead'
    OBVIOUS
  <1>3. /\ "GetResource" \in Calls[c] /\ r \in resourceAccess[c] \cup {RES_SCHEDULER}
        /\ Continue(k, From("body")) /\ heads = [resourceHead EXCEPT ![c] = more]
        /\ UNCHANGED pending
    BY <1>c, <1>h, <1>m, <1>1, <1>2 DEF GetResource, Calling, MayTake, curr
  <1>4. /\ c \in Task /\ os \in KernelRecord /\ Sound(os)
        /\ resourceHead \in [Task -> Seq(AnyResource)] /\ held \in Seq(AnyResource)
        /\ SchedulerHeld(os, resourceHead) /\ TakenByUser(resourceHead)
        /\ os.owner[RES_SCHEDULER] \in {None, c}
    BY <1>c, <1>h, FoundAlive, Before DEF PrioInv
  <1>5. /\ Len(held) \in Nat /\ Len(more) = Len(held) + 1 /\ more[Len(held) + 1] = r
        /\ \A i \in 1..Len(held) : more[i] = held[i]
    BY <1>m, <1>4
  <1>6. heads[c] = more /\ \A t \in Task \ {c} : heads[t] = resourceHead[t]
    BY <1>3, <1>4
  <1>7. SchedulerHeld(k, heads)
    <2>1. k.owner[r] = c /\ \A s \in AnyResource \ {r} : k.owner[s] = os.owner[s]
      BY <1>1, <1>4, ResourceAdded
    <2>2. \A t \in Task : k.owner[RES_SCHEDULER] = t => t = c
      BY <1>4, <2>1, ResourceSplit, KernelAssumption
    <2>3. ASSUME k.owner[RES_SCHEDULER] = c
          PROVE  \E i \in 1..Len(more) : more[i] = RES_SCHEDULER
      <3>1. CASE r = RES_SCHEDULER
        BY <1>5, <3>1
      <3>2. CASE r # RES_SCHEDULER
        <4>1. os.owner[RES_SCHEDULER] = c
          BY <2>1, <2>3, <3>2, ResourceSplit
        <4>2. PICK i \in 1..Len(held) : held[i] = RES_SCHEDULER
          BY <1>h, <1>4, <4>1 DEF SchedulerHeld
        <4>3. i \in 1..Len(more) /\ more[i] = RES_SCHEDULER
          BY <1>5, <4>2
        <4>4. QED BY <4>3
      <3>3. QED BY <3>1, <3>2
    <2>4. QED BY <1>6, <2>2, <2>3 DEF SchedulerHeld
  <1>8. TakenByUser(heads)
    <2>1. \A i \in 1..Len(held) : held[i] \in resourceAccess[c] \cup {RES_SCHEDULER}
      BY <1>h, <1>4 DEF TakenByUser
    <2>2. \A i \in 1..Len(more) : i \in 1..Len(held) \/ i = Len(held) + 1
      BY <1>5
    <2>3. \A i \in 1..Len(more) : more[i] \in resourceAccess[c] \cup {RES_SCHEDULER}
      BY <1>3, <1>5, <2>1, <2>2
    <2>4. QED BY <1>3, <1>4, <1>6, <2>3 DEF TakenByUser
  <1>9. Sound(k) /\ k.curr = os.curr /\ k.state = os.state
    BY <1>c, <1>1, <1>4, ResourcesTyped
  <1>10. Quiet(k, os)
    BY <1>9, QuietSame
  <1>11. SchedulerHeld(k, resourceHead') /\ TakenByUser(resourceHead')
    BY <1>2, <1>7, <1>8
  <1>12. QED BY <1>3, <1>9, <1>10, <1>11, PlainLives

\* What is left to hold when the innermost resource has been given back.
LEMMA ReleasedHeld ==
    ASSUME AssertInv, resourceHead[os.curr] # << >>,
           NEW k, k = ResourceRemove(os, Innermost, os.curr),
           NEW less, Shorter(less, resourceHead[os.curr]),
           NEW heads, heads = [resourceHead EXCEPT ![os.curr] = less]
    PROVE  SchedulerHeld(k, heads) /\ TakenByUser(heads)
  <1>c. PICK c : c = os.curr
    OBVIOUS
  <1>h. PICK held : held = resourceHead[c]
    OBVIOUS
  <1>r. PICK r : r = held[Len(held)]
    OBVIOUS
  <1>1. /\ c \in Task /\ os \in KernelRecord
        /\ resourceHead \in [Task -> Seq(AnyResource)] /\ held \in Seq(AnyResource)
        /\ held # << >> /\ SchedulerHeld(os, resourceHead) /\ TakenByUser(resourceHead)
        /\ k = ResourceRemove(os, r, c) /\ heads = [resourceHead EXCEPT ![c] = less]
    BY <1>c, <1>h, <1>r, FoundAlive, Before DEF Innermost
  <1>2. /\ Len(held) \in Nat /\ Len(held) >= 1 /\ Len(less) = Len(held) - 1
        /\ \A i \in 1..(Len(held) - 1) : less[i] = held[i]
    BY <1>c, <1>h, <1>1 DEF Shorter
  <1>3. heads[c] = less /\ \A t \in Task \ {c} : heads[t] = resourceHead[t]
    BY <1>1
  <1>4. /\ r \in AnyResource /\ k.owner[r] = None
        /\ \A s \in AnyResource \ {r} : k.owner[s] = os.owner[s]
    <2>1. r \in AnyResource
      BY <1>r, <1>1, <1>2
    <2>2. QED BY <1>1, <2>1, ResourceRemoved
  <1>5. SchedulerHeld(k, heads)
    <2> SUFFICES ASSUME NEW t \in Task, k.owner[RES_SCHEDULER] = t
                 PROVE  \E i \in 1..Len(heads[t]) : heads[t][i] = RES_SCHEDULER
      BY DEF SchedulerHeld
    <2>1. RES_SCHEDULER # r /\ os.owner[RES_SCHEDULER] = t
      BY <1>4, ResourceSplit, KernelAssumption
    <2>2. CASE t # c
      BY <1>1, <1>3, <2>1, <2>2 DEF SchedulerHeld
    <2>3. CASE t = c
      <3>1. PICK i \in 1..Len(held) : held[i] = RES_SCHEDULER
        BY <1>h, <1>1, <2>1, <2>3 DEF SchedulerHeld
      <3>2. i # Len(held)
        BY <1>r, <2>1, <3>1
      <3>3. i \in 1..Len(less) /\ less[i] = RES_SCHEDULER
        BY <1>2, <3>1, <3>2
      <3>4. QED BY <1>3, <2>3, <3>3
    <2>4. QED BY <2>2, <2>3
  <1>6. TakenByUser(heads)
    <2>1. \A i \in 1..Len(held) :
             "GetResource" \in Calls[c] /\ held[i] \in resourceAccess[c] \cup {RES_SCHEDULER}
      BY <1>h, <1>1 DEF TakenByUser
    <2>2. \A i \in 1..Len(less) : i \in 1..Len(held) /\ less[i] = held[i]
      BY <1>2
    <2>3. \A i \in 1..Len(less) :
             "GetResource" \in Calls[c] /\ less[i] \in resourceAccess[c] \cup {RES_SCHEDULER}
      BY <2>1, <2>2
    <2>4. QED BY <1>1, <1>3, <2>3 DEF TakenByUser
  <1>7. QED BY <1>5, <1>6

LEMMA ReleaseLives == ASSUME NoInternal, WellBuilt, AssertInv, ReleaseResource PROVE Alive'
  <1>1. PICK held : held = resourceHead[os.curr]
    OBVIOUS
  <1>2. PICK k : k = ResourceRemove(os, Innermost, os.curr)
    OBVIOUS
  <1>3. PICK less : less = SubSeq(held, 1, Len(held) - 1)
    OBVIOUS
  <1>4. PICK heads : heads = [resourceHead EXCEPT ![os.curr] = less]
    OBVIOUS
  <1>5. /\ held # << >> /\ heads = resourceHead' /\ UNCHANGED pending
        /\ \/ Preempts(k, TaskGetTop(k)) /\ Dispatch(RunningToReady(k, os.curr), From("body"))
           \/ Continue(k, From("body"))
    BY <1>1, <1>2, <1>3, <1>4 DEF ReleaseResource, curr, Innermost
  <1>6. held \in Seq(AnyResource)
    BY <1>1, FoundAlive
  <1>7. Shorter(less, held)
    BY <1>3, <1>5, <1>6, ShorterBy
  <1>8. /\ Sound(k) /\ k.curr = os.curr /\ k.state[k.curr] = "RUNNING" /\ k.state = os.state
    <2>1. KernelInv /\ Sound(os) /\ os.curr \in Task /\ os.state[os.curr] = "RUNNING"
      BY FoundAlive
    <2>2. Innermost \in AnyResource
      BY <1>1, <1>5, <1>6 DEF Innermost
    <2>3. QED BY <1>2, <2>1, <2>2, ResourcesTyped
  <1>9. SchedulerHeld(k, heads) /\ TakenByUser(heads)
    BY <1>1, <1>2, <1>4, <1>5, <1>7, ReleasedHeld
  <1>10. Quiet(k, os)
    BY <1>8, QuietSame
  <1>11. CASE Continue(k, From("body"))
    BY <1>5, <1>8, <1>9, <1>10, <1>11, PlainLives
  <1>12. CASE Preempts(k, TaskGetTop(k)) /\ Dispatch(RunningToReady(k, os.curr), From("body"))
    <2>1. PICK n : n = RunningToReady(k, k.curr)
      OBVIOUS
    <2>2. k.curr \in Task /\ k.state[k.curr] \in Busy
      BY <1>8, FieldsTyped DEF Sound, Busy
    <2>3. Sound(n) /\ n.curr = k.curr /\ SamePriorities(n, k) /\ SameRest(n, k)
      BY <1>8, <2>1, <2>2, StillReady
    <2>4. Quiet(n, os)
      BY <1>10, <2>3, QuietThrough
    <2>5. n.owner[RES_SCHEDULER] = None
      BY <1>12, <2>3 DEF Preempts, SchedulerResourceIsFree, SamePriorities
    <2>6. SchedulerHeld(n, heads)
      BY <1>9, <2>3 DEF SchedulerHeld, SamePriorities
    <2>7. QED BY <1>5, <1>8, <1>9, <1>12, <2>1, <2>3, <2>4, <2>5, <2>6, PlainLives
  <1>13. QED BY <1>5, <1>11, <1>12

\* Interrupts.
LEMMA EnterLives == ASSUME AssertInv, EnterIsr PROVE Alive'
  <1>1. UNCHANGED <<os, resourceHead, context, pending, halted>>
    BY DEF EnterIsr
  <1>2. QED
    BY <1>1, FoundAlive
       DEF Alive, LivePlaces, LiveTargets, SchedulerHeld, TakenByUser

LEMMA LeaveLives == ASSUME NoInternal, AssertInv, LeaveIsr PROVE Alive'
  <1>1. PICK k : k = RunningToReady(os, os.curr)
    OBVIOUS
  <1>2. /\ os' = IF intNestCnt = 1 THEN TailChaining(k) ELSE os
        /\ halted' = (intNestCnt = 1 /\ ResumesDead(context, os'))
        /\ UNCHANGED <<resourceHead, context, pending>>
    BY <1>1, Zenon DEF LeaveIsr, curr
  <1>3. PICK n : n = os'
    OBVIOUS
  <1>4. /\ n.owner = os.owner
        /\ \A t \in Task : n.state[t] = "SUSPENDED" <=> os.state[t] = "SUSPENDED"
        /\ ~halted'
    <2>1. CASE intNestCnt # 1
      BY <1>2, <1>3, <2>1
    <2>2. CASE intNestCnt = 1
      <3>1. Sound(k) /\ k.curr = os.curr /\ SamePriorities(k, os) /\ SameRest(k, os)
            /\ k.state[os.curr] \in Busy
        BY <1>1, FoundAlive, StillReady
      <3>2. PICK t : t \in {k.curr, TaskGetTop(k)} /\ os' = SwapTo(k, t)
        BY <1>2, <2>2 DEF TailChaining
      <3>3. t \in Task /\ k.state[t] \in Busy
        BY <3>1, <3>2, FoundAlive, TopOfList
      <3>4. n.curr = t /\ SameRest(n, k) /\ SamePriorities(n, k)
        BY <1>3, <3>1, <3>2, <3>3, Swapped DEF NoInternal
      <3>5. \A u \in Task : n.state[u] = "SUSPENDED" <=> os.state[u] = "SUSPENDED"
        BY <3>1, <3>4 DEF SameRest, Busy
      <3>6. context[n.curr] \notin Dead
        <4>1. n.state[t] # "SUSPENDED"
          BY <3>3, <3>4 DEF SameRest, Busy
        <4>2. QED BY <3>3, <3>4, <3>5, <4>1, FoundAlive DEF LivePlaces
      <3>7. ~halted'
        BY <1>2, <1>3, <3>6 DEF ResumesDead, Dead
      <3>8. QED BY <3>1, <3>4, <3>5, <3>7 DEF SamePriorities
    <2>3. QED BY <2>1, <2>2
  <1>5. LivePlaces(n, context) /\ LiveTargets(n, context, pending)
    BY <1>4, FoundAlive DEF LivePlaces, LiveTargets
  <1>6. SchedulerHeld(n, resourceHead)
    BY <1>4, FoundAlive DEF SchedulerHeld
  <1>7. /\ LivePlaces(os, context)' /\ LiveTargets(os, context, pending)'
        /\ SchedulerHeld(os, resourceHead)' /\ TakenByUser(resourceHead)'
    BY <1>2, <1>3, <1>5, <1>6, FoundAlive
       DEF LivePlaces, LiveTargets, SchedulerHeld, TakenByUser
  <1>8. QED BY <1>4, <1>7 DEF Alive

\* Activations.
LEMMA ActivateLives ==
    ASSUME NoInternal, WellBuilt, AssertInv, NEW d \in Task, ActivateTask(d)
    PROVE  Alive'
  <1>1. PICK k : k = ReadyFor(d)
    OBVIOUS
  <1>2. PICK at : at = IF os.state[d] = "SUSPENDED" THEN [From("body") EXCEPT ![d] = "entry"]
                       ELSE From("body")
    OBVIOUS
  <1>3. /\ \/ Preempts(k, d) /\ Dispatch(k, at)
           \/ Continue(k, at)
        /\ UNCHANGED <<resourceHead, pending>>
    BY <1>1, <1>2 DEF ActivateTask, ReadyFor
  <1>4. /\ Sound(k) /\ k.curr = os.curr /\ SamePriorities(k, os)
        /\ \A t \in Task \ {d} : k.state[t] = os.state[t]
        /\ k.state[d] # "SUSPENDED" /\ (os.state[d] # "SUSPENDED" => k = os)
    BY <1>1, FoundAlive, ActivatedReady, ReadyAgrees DEF ReadyFor
  <1>5. PICK body : body = From("body")
    OBVIOUS
  <1>6. Fits(os, body) /\ body \in [Task -> Context]
    BY <1>5, QuietSame, BodyFits
  <1>7. at \in [Task -> Context]
    BY <1>2, <1>5, <1>6 DEF Context
  <1>8. Fits(k, at)
    <2>1. \A t \in Task : at[t] = IF t = d /\ os.state[d] = "SUSPENDED" THEN "entry" ELSE body[t]
      BY <1>2, <1>5, <1>6
    <2>2. \A t \in Task : os.state[t] # "SUSPENDED" => body[t] \notin Dead
      <3>1. \A t \in Task : body[t] = context[t] \/ body[t] = "body"
        BY <1>5, FoundAlive, Before DEF From, curr
      <3>2. QED BY <3>1, FoundAlive DEF LivePlaces, Dead
    <2>3. QED BY <1>4, <1>6, <2>1, <2>2 DEF Fits, Dead
  <1>9. Leaves(k, at)
    <2>1. Preempts(k, d) => k.owner[RES_SCHEDULER] = None
      BY DEF Preempts, SchedulerResourceIsFree
    <2>2. QED BY <1>3, <1>4, <1>7, <2>1 DEF Leaves
  <1>10. QED BY <1>3, <1>4, <1>8, <1>9, HeldSame, ServiceLives

-----------------------------------------------------------------------------
(* A task that ends and starts anew.                                       *)

\* With nothing held, and nobody above it, the running task is the first of the
\* ready list.
LEMMA FirstStays ==
    ASSUME NEW k, Sound(k), NEW heads, Levels(k, heads), Stacked(k, heads),
           heads[k.curr] = << >>, k.state[k.curr] \in Busy,
           \A t \in Task : k.state[t] \in Busy => k.prio[t] <= k.prio[k.curr]
    PROVE  Restarts(k)
  <1>1. PICK top : top = TaskGetTop(k)
    OBVIOUS
  <1>2. PICK c : c = k.curr
    OBVIOUS
  <1>3. /\ top \in Task /\ k.state[top] \in Busy /\ c \in Task /\ k.state[c] \in Busy
        /\ k.prio[c] <= k.prio[top] /\ k.prio[top] <= k.prio[c]
    BY <1>1, <1>2, TopOfList, FieldsTyped DEF Sound
  <1>4. /\ k.prio[c] \in Int /\ k.prio[top] \in Int /\ k.prio[c] = prio[c]
    BY <1>2, <1>3 DEF Levels
  <1>5. k.prio[c] = k.prio[top] /\ prio[c] <= k.prio[top]
    BY <1>3, <1>4
  <1>6. ASSUME top # c PROVE FALSE
    <2>1. Ahead(k.ready, top, c)
      BY <1>1, <1>3, <1>5, <1>6, TopIsAhead
    <2>2. Ahead(k.ready, c, top)
      BY <1>2, <1>3, <1>5, <1>6 DEF Stacked, Queued, Begun
    <2>3. QED BY <2>1, <2>2, AheadOnce
  <1>7. QED BY <1>1, <1>2, <1>6 DEF Restarts

LEMMA CurrFirst ==
    ASSUME AssertInv, intNestCnt = 0, resourceHead[os.curr] = << >>, os.curr \notin NonPreemptive
    PROVE  /\ \A t \in Task : os.state[t] \in Busy => os.prio[t] <= os.prio[os.curr]
           /\ Restarts(os)
  <1>1. RunsTop(os)
    BY FoundAlive DEF PrioInv
  <1>2. \A t \in Task : os.state[t] \in Busy => os.prio[t] <= os.prio[os.curr]
    BY <1>1, SchedulerFree DEF RunsTop
  <1>3. QED BY <1>2, FoundAlive, FirstStays

\* One that may have activations left when it ends can be preempted.
LEMMA LeftPreempts ==
    ASSUME WellBuilt, AssertInv, Calls[os.curr] \cap Ends # {}, activations[os.curr] > 1
    PROVE  os.curr \notin NonPreemptive /\ activationLimit[os.curr] > 1
  <1>1. PICK limit : limit = activationLimit[os.curr]
    OBVIOUS
  <1>2. PICK n : n = activations[os.curr]
    OBVIOUS
  <1>3. n \in Nat /\ limit \in Nat /\ n <= limit /\ n > 1
    BY <1>1, <1>2, FoundAlive, Counts
  <1>4. limit > 1 /\ limit # 1
    BY <1>3
  <1>5. QED BY <1>1, <1>4, FoundAlive DEF WellBuilt

\* The running task ends: suspended, or at its first statement again.
LEMMA EndFits ==
    ASSUME AssertInv, NEW n, NEW at, Dispatch(n, at), Calls[os.curr] \cap Ends # {},
           \A t \in Task \ {os.curr} :
              /\ at[t] = context[t] \/ at[t] = "entry"
              /\ n.state[t] # "SUSPENDED" => os.state[t] # "SUSPENDED" \/ at[t] = "entry"
              /\ n.state[t] = "SUSPENDED" => os.state[t] = "SUSPENDED",
           at[os.curr] \in Dead, n.state[os.curr] = "SUSPENDED" \/ Restarts(n)
    PROVE  Fits(n, at)
  <1>1. ASSUME NEW t \in Task, t # os.curr
        PROVE  /\ n.state[t] = "SUSPENDED" => os.state[t] = "SUSPENDED"
               /\ n.state[t] # "SUSPENDED" => at[t] \notin Dead
               /\ at[t] = "SetEvent" => context[t] = "SetEvent"
    BY <1>1, FoundAlive DEF LivePlaces, Dead
  <1>2. at[os.curr] # "SetEvent"
    BY DEF Dead
  <1>3. QED BY <1>1, <1>2 DEF Fits

LEMMA RetireLives ==
    ASSUME NoInternal, WellBuilt, AssertInv, intNestCnt = 0, Calls[os.curr] \cap Ends # {},
           NEW k, Sound(k), k.curr = os.curr, k.state = os.state, k.owner[RES_SCHEDULER] = None,
           activations[os.curr] > 1 => Restarts(k),
           SchedulerHeld(k, resourceHead'), TakenByUser(resourceHead'), UNCHANGED pending,
           Dispatch(Retire(k), From("TerminateTask"))
    PROVE  Alive'
  <1>1. PICK n : n = Retire(k)
    OBVIOUS
  <1>2. PICK at : at = From("TerminateTask")
    OBVIOUS
  <1>3. /\ Sound(n) /\ n.curr = os.curr /\ SamePriorities(n, k)
        /\ \A t \in Task \ {os.curr} : n.state[t] = os.state[t]
        /\ IF activations[os.curr] > 1 THEN n = k ELSE n.state[os.curr] = "SUSPENDED"
    BY <1>1, FoundAlive, Retires
  <1>4. at \in [Task -> Context]
    BY <1>2, FoundAlive, PlaceTyped DEF Context
  <1>5. at[os.curr] = "TerminateTask" /\ \A t \in Task \ {os.curr} : at[t] = context[t]
    BY <1>2, FoundAlive, Before DEF From, curr
  <1>6. Fits(n, at)
    BY <1>1, <1>2, <1>3, <1>5, EndFits DEF Dead
  <1>7. n.owner[RES_SCHEDULER] = None /\ SchedulerHeld(n, resourceHead')
    BY <1>3 DEF SamePriorities, SchedulerHeld
  <1>8. Leaves(n, at)
    BY <1>1, <1>2, <1>3, <1>4, <1>7 DEF Leaves
  <1>9. QED BY <1>6, <1>7, <1>8, ServiceLives

LEMMA TerminateLives == ASSUME NoInternal, WellBuilt, AssertInv, TerminateTask PROVE Alive'
  <1>1. /\ intNestCnt = 0 /\ Calls[os.curr] \cap Ends # {} /\ resourceHead[os.curr] = << >>
        /\ Dispatch(Retire(os), From("TerminateTask")) /\ UNCHANGED <<resourceHead, pending>>
    BY DEF TerminateTask, Calling, Ends, curr
  <1>2. activations[os.curr] > 1 => Restarts(os)
    BY <1>1, LeftPreempts, CurrFirst
  <1>3. SamePriorities(os, os)
    BY DEF SamePriorities
  <1>4. SchedulerHeld(os, resourceHead') /\ TakenByUser(resourceHead')
    BY <1>1, <1>3, HeldSame
  <1>5. QED BY <1>1, <1>2, <1>4, FoundAlive, SchedulerFree, RetireLives

LEMMA ReturnLives == ASSUME NoInternal, WellBuilt, AssertInv, Return PROVE Alive'
  <1>1. PICK held : held = resourceHead[os.curr]
    OBVIOUS
  <1>2. PICK k : k = IF held = << >> THEN os ELSE ResourceRemove(os, held[1], os.curr)
    OBVIOUS
  <1>3. /\ intNestCnt = 0 /\ "return" \in Calls[os.curr] /\ Calls[os.curr] \cap Ends # {}
        /\ UNCHANGED pending
        /\ \/ Len(held) > 1
           \/ /\ resourceHead' = [resourceHead EXCEPT ![os.curr] = << >>]
              /\ Dispatch(Retire(k), From("TerminateTask"))
    BY <1>1, <1>2 DEF Return, Calling, Ends, curr
  <1>4. held \in Seq(AnyResource) /\ Len(held) \in Nat /\ os.curr \in Task
        /\ resourceHead \in [Task -> Seq(AnyResource)]
    BY <1>1, FoundAlive
  <1>5. CASE held = << >>
    <2>1. k = os /\ resourceHead' = resourceHead /\ Dispatch(Retire(os), From("TerminateTask"))
      <3>1. k = os /\ ~(Len(held) > 1)
        BY <1>2, <1>5, EmptySeq
      <3>2. [resourceHead EXCEPT ![os.curr] = << >>] = resourceHead
        BY <1>1, <1>4, <1>5
      <3>3. QED BY <1>3, <3>1, <3>2, Zenon
    <2>2. activations[os.curr] > 1 => Restarts(os)
      BY <1>1, <1>3, <1>5, LeftPreempts, CurrFirst
    <2>3. SamePriorities(os, os)
      BY DEF SamePriorities
    <2>4. SchedulerHeld(os, resourceHead') /\ TakenByUser(resourceHead')
      BY <2>1, <2>3, HeldSame
    <2>5. QED BY <1>1, <1>3, <1>5, <2>1, <2>2, <2>4, FoundAlive, SchedulerFree, RetireLives
  <1>6. CASE held # << >>
    <2>1. /\ resourceAccess[os.curr] = {} /\ activationLimit[os.curr] = 1
          /\ \A i \in 1..Len(held) : held[i] = RES_SCHEDULER
      <3>1. \A i \in 1..Len(held) :
               "GetResource" \in Calls[os.curr]
               /\ held[i] \in resourceAccess[os.curr] \cup {RES_SCHEDULER}
        BY <1>1, <1>4, FoundAlive DEF TakenByUser
      <3>2. 1 \in 1..Len(held)
        BY <1>4, <1>6, EmptySeq
      <3>3. resourceAccess[os.curr] = {} /\ activationLimit[os.curr] = 1
        BY <1>3, <1>4, <3>1, <3>2 DEF WellBuilt
      <3>4. QED BY <3>1, <3>3
    <2>2. Len(held) = 1
      <3>1. \A i, j \in 1..Len(held) : i = j
        <4>1. Holds(os, held, os.curr)
          BY <1>1, <1>4, FoundAlive DEF Agree
        <4>2. QED BY <2>1, <4>1 DEF Holds
      <3>2. PICK size : size = Len(held)
        OBVIOUS
      <3>3. size \in Nat /\ size # 0 /\ \A i, j \in 1..size : i = j
        BY <1>4, <1>6, <3>1, <3>2, EmptySeq
      <3>4. size = 1
        <4>1. 1 \in 1..size /\ size \in 1..size
          BY <3>3
        <4>2. QED BY <3>3, <4>1
      <3>5. QED BY <3>2, <3>4
    <2>3. held[1] = RES_SCHEDULER /\ k = ResourceRemove(os, RES_SCHEDULER, os.curr)
      BY <1>2, <1>6, <2>1, <2>2
    <2>4. /\ Sound(k) /\ k.curr = os.curr /\ k.state = os.state
          /\ k.owner[RES_SCHEDULER] = None
      <3>1. os \in KernelRecord
        BY FoundAlive, Before
      <3>2. QED BY <1>4, <2>3, <3>1, FoundAlive, ResourceSplit, ResourcesTyped, ResourceRemoved
    <2>5. PICK less : less = << >>
      OBVIOUS
    <2>6. PICK heads : heads = [resourceHead EXCEPT ![os.curr] = less]
      OBVIOUS
    <2>7. SchedulerHeld(k, heads) /\ TakenByUser(heads)
      <3>1. k = ResourceRemove(os, Innermost, os.curr)
        BY <1>1, <2>2, <2>3 DEF Innermost
      <3>2. Shorter(less, resourceHead[os.curr])
        BY <1>1, <2>2, <2>5, EmptySeq DEF Shorter
      <3>3. QED BY <1>1, <1>6, <2>6, <3>1, <3>2, ReleasedHeld
    <2>8. heads = resourceHead' /\ Dispatch(Retire(k), From("TerminateTask"))
      <3>1. ~(Len(held) > 1)
        BY <2>2
      <3>2. QED BY <1>3, <2>5, <2>6, <3>1, Zenon
    <2>9. ~(activations[os.curr] > 1)
      BY <1>4, <2>1, FoundAlive, Counts
    <2>10. QED BY <1>3, <2>4, <2>7, <2>8, <2>9, RetireLives
  <1>7. QED BY <1>5, <1>6

LEMMA ChainSelfLives == ASSUME NoInternal, WellBuilt, AssertInv, ChainSelf PROVE Alive'
  <1>1. PICK at : at = From("ChainTask")
    OBVIOUS
  <1>2. /\ intNestCnt = 0 /\ "ChainTask" \in Calls[os.curr] /\ Calls[os.curr] \cap Ends # {}
        /\ resourceHead[os.curr] = << >> /\ Dispatch(os, at)
        /\ UNCHANGED <<resourceHead, pending>>
    BY <1>1 DEF ChainSelf, Calling, Ends, curr
  <1>3. os.curr \notin NonPreemptive
    BY <1>2, FoundAlive DEF WellBuilt
  <1>4. Restarts(os)
    BY <1>2, <1>3, CurrFirst
  <1>5. at \in [Task -> Context]
    BY <1>1, FoundAlive, PlaceTyped DEF Context
  <1>6. at[os.curr] = "ChainTask" /\ \A t \in Task \ {os.curr} : at[t] = context[t]
    BY <1>1, <1>2, FoundAlive, Before DEF From, curr
  <1>7. Fits(os, at)
    BY <1>2, <1>4, <1>6, EndFits DEF Dead
  <1>8. Leaves(os, at)
    BY <1>2, <1>5, FoundAlive, SchedulerFree DEF Leaves
  <1>9. SamePriorities(os, os)
    BY DEF SamePriorities
  <1>10. QED BY <1>2, <1>7, <1>8, <1>9, HeldSame, ServiceLives

\* A task that chains to another and has activations left is still the first:
\* who is above it is never suspended, so that it cannot be the one activated.
LEMMA HandedRestarts ==
    ASSUME NoInternal, WellBuilt, AssertInv, NEW d \in Task, ChainTask(d),
           activations[os.curr] > 1, NEW n, n = Handed(d)
    PROVE  Restarts(n)
  <1>c. PICK c : c = os.curr
    OBVIOUS
  <1>1. PICK k : k = ReadyFor(d)
    OBVIOUS
  <1>2. PICK heads : heads = resourceHead
    OBVIOUS
  <1>3. /\ intNestCnt = 0 /\ "ChainTask" \in Calls[c] /\ Calls[c] \cap Ends # {}
        /\ heads[c] = << >> /\ d # c /\ c \in Task
    BY <1>c, <1>2, FoundAlive DEF ChainTask, Calling, Ends, curr
  <1>4. c \notin NonPreemptive /\ activationLimit[c] > 1
    BY <1>c, <1>3, LeftPreempts
  <1>5. /\ Sound(k) /\ k.curr = c /\ Agree(k, heads) /\ Stacked(k, heads)
        /\ k.state[k.curr] = "RUNNING"
    BY <1>c, <1>1, <1>2, FoundAlive, ReadyFound DEF ReadyFor
  <1>6. /\ n = RunningToReady(k, k.curr)
        /\ SamePriorities(k, os) /\ \A t \in Task \ {d} : k.state[t] = os.state[t]
        /\ os.state[d] # "SUSPENDED" => k = os
    BY <1>c, <1>1, <1>5, FoundAlive, ReadyAgrees DEF Handed, ReadyFor, curr
  <1>7. /\ Sound(n) /\ n.curr = c /\ Agree(n, heads) /\ Stacked(n, heads)
    BY <1>5, <1>6, StackedPreempted
  <1>8. /\ SamePriorities(n, k) /\ n.state[c] \in Busy
        /\ \A t \in Task \ {c} : n.state[t] = k.state[t]
    <2>1. k.state[c] \in Busy
      BY <1>5 DEF Busy
    <2>2. QED BY <1>3, <1>5, <1>6, <2>1, StillReady
  <1>9. Levels(n, heads)
    BY <1>2, <1>7, FoundAlive, LevelsHold DEF AssertInv, CeilInv, Sound
  <1>10. \A t \in Task : n.state[t] \in Busy => n.prio[t] <= n.prio[c]
    <2>1. \A t \in Task : os.state[t] \in Busy => os.prio[t] <= os.prio[c]
      BY <1>c, <1>2, <1>3, <1>4, CurrFirst
    <2>2. n.prio = os.prio
      BY <1>6, <1>8 DEF SamePriorities
    <2>3. os.state[c] \in Busy
      BY <1>c, FoundAlive
    <2>4. ASSUME NEW t \in Task, t # d, n.state[t] \in Busy PROVE os.state[t] \in Busy
      BY <1>6, <1>8, <2>3, <2>4
    <2>5. CASE os.state[d] # "SUSPENDED"
      <3>1. \A t \in Task : n.state[t] \in Busy => os.state[t] \in Busy
        BY <1>3, <1>6, <1>8, <2>4, <2>5
      <3>2. QED BY <2>1, <2>2, <3>1
    <2>6. CASE os.state[d] = "SUSPENDED"
      <3>1. heads[d] = << >>
        BY <1>2, <2>6, FoundAlive DEF Agree, Resting
      <3>2. os.prio[d] = prio[d] /\ os.prio[c] = prio[c] /\ prio[d] \in Int /\ prio[c] \in Int
        BY <1>2, <1>3, <3>1, FoundAlive DEF Levels
      <3>3. ~Standing(d)
        BY <2>6, FoundAlive DEF Counted, FitStates, Standing
      <3>4. ~(prio[c] < prio[d])
        BY <1>3, <1>4, <3>3 DEF WellBuilt
      <3>5. os.prio[d] <= os.prio[c]
        BY <3>2, <3>4
      <3>6. QED BY <2>1, <2>2, <2>4, <3>5
    <2>7. QED BY <2>5, <2>6
  <1>11. QED BY <1>3, <1>7, <1>8, <1>9, <1>10, FirstStays

LEMMA ChainLives ==
    ASSUME NoInternal, WellBuilt, AssertInv, NEW d \in Task, ChainTask(d)
    PROVE  Alive'
  <1>1. PICK n : n = Handed(d)
    OBVIOUS
  <1>2. PICK at : at = HandedAt(d)
    OBVIOUS
  <1>3. /\ intNestCnt = 0 /\ Calls[os.curr] \cap Ends # {} /\ d # os.curr
        /\ resourceHead[os.curr] = << >>
    BY DEF ChainTask, Calling, Ends, curr
  <1>4. Dispatch(n, at) /\ at \in [Task -> Context] /\ UNCHANGED <<resourceHead, pending>>
    BY <1>1, <1>2, FoundAlive, Handing
  <1>5. /\ Sound(n) /\ n.curr = os.curr
        /\ \A t \in Task \ {os.curr, d} : n.state[t] = os.state[t]
        /\ n.state[d] # "SUSPENDED"
        /\ ~(activations[os.curr] > 1) => n.state[os.curr] = "SUSPENDED"
    BY <1>1, FoundAlive, HandedSound
  <1>6. SamePriorities(n, os)
    <2>1. PICK k : k = ReadyFor(d)
      OBVIOUS
    <2>2. Sound(k) /\ k.curr = os.curr /\ SamePriorities(k, os) /\ k.state[k.curr] = "RUNNING"
      BY <2>1, FoundAlive, ReadyAgrees, ActivatedReady DEF ReadyFor
    <2>3. n = RunningToReady(k, k.curr) \/ n = Retire(k)
      BY <1>1, <2>1, <2>2 DEF Handed, curr
    <2>4. Calls[os.curr] # {} /\ KernelInv
      BY <1>3, FoundAlive
    <2>5. SamePriorities(n, k)
      BY <2>2, <2>3, <2>4, CurrPreempted, Retires
    <2>6. QED BY <2>2, <2>5 DEF SamePriorities
  <1>7. n.state[os.curr] = "SUSPENDED" \/ Restarts(n)
    BY <1>1, <1>5, HandedRestarts
  <1>8. /\ at[os.curr] = "ChainTask"
        /\ \A t \in Task \ {os.curr} :
              at[t] = IF t = d /\ os.state[d] = "SUSPENDED" THEN "entry" ELSE context[t]
    <2>1. PICK place : place = From("ChainTask")
      OBVIOUS
    <2>2. place \in [Task -> Context]
      BY <2>1, FoundAlive, PlaceTyped DEF Context
    <2>3. place[os.curr] = "ChainTask" /\ \A t \in Task \ {os.curr} : place[t] = context[t]
      BY <1>3, <2>1, FoundAlive, Before DEF From, curr
    <2>4. at = IF os.state[d] = "SUSPENDED" THEN [place EXCEPT ![d] = "entry"] ELSE place
      BY <1>2, <2>1 DEF HandedAt
    <2>5. QED BY <1>3, <2>2, <2>3, <2>4
  <1>9. Fits(n, at)
    BY <1>3, <1>4, <1>5, <1>7, <1>8, EndFits DEF Dead
  <1>10. Leaves(n, at)
    BY <1>3, <1>4, <1>5, <1>6, SchedulerFree DEF Leaves, SamePriorities
  <1>11. QED BY <1>4, <1>6, <1>9, <1>10, HeldSame, ServiceLives

LEMMA AliveStep == ASSUME NoInternal, WellBuilt, AssertInv, ObservedNext PROVE Alive'
  <1>1. ASSUME NEW d \in Task, ActivateTask(d) \/ ChainTask(d) PROVE Alive'
    BY <1>1, ActivateLives, ChainLives
  <1>2. CASE TerminateTask \/ Return \/ ChainSelf \/ Schedule
    BY <1>2, TerminateLives, ReturnLives, ChainSelfLives, ScheduleLives
  <1>3. ASSUME NEW d \in Task, NEW m \in Mask, SetEventValidated(d, m) PROVE Alive'
    BY <1>3, ValidatedLives
  <1>4. CASE SetEvent \/ ReleaseResource
    BY <1>4, SetEventLives, ReleaseLives
  <1>5. ASSUME NEW m \in Mask, ClearEvent(m) \/ WaitEvent(m) PROVE Alive'
    BY <1>5, ClearLives, WaitLives
  <1>6. ASSUME NEW r \in StandardResource \cup {RES_SCHEDULER}, GetResource(r) PROVE Alive'
    BY <1>6, ResourceSplit, GetLives
  <1>7. CASE Interrupt
    <2>1. ASSUME NEW d \in Task, NEW m \in Mask, IsrSetEvent(d, m) PROVE Alive'
      BY <2>1, BitsLive DEF IsrSetEvent, Settable
    <2>2. QED BY <1>7, <2>1, EnterLives, LeaveLives DEF Interrupt
  <1>8. QED
    BY ObservedNext, <1>1, <1>2, <1>3, <1>4, <1>5, <1>6, <1>7, Zenon DEF ObservedNext

LEMMA AliveStart == ASSUME NoInternal, Init PROVE Alive
  <1>1. /\ halted = FALSE /\ context = [t \in Task |-> "entry"]
        /\ resourceHead = [t \in Task |-> << >>]
    BY DEF Init
  <1>2. os.owner[RES_SCHEDULER] = None
    <2>1. PICK k : StartsFrom(k)
      BY StartsSound
    <2>2. k.owner = [r \in AnyResource |-> None] /\ SamePriorities(os, k)
      BY <2>1 DEF StartsFrom, NoInternal
    <2>3. QED BY <2>2, ResourceSplit DEF SamePriorities
  <1>3. LivePlaces(os, context) /\ LiveTargets(os, context, pending)
    BY <1>1 DEF LivePlaces, LiveTargets, Dead
  <1>4. SchedulerHeld(os, resourceHead)
    BY <1>2, KernelAssumption DEF SchedulerHeld
  <1>5. TakenByUser(resourceHead)
    BY <1>1, EmptySeq DEF TakenByUser
  <1>6. QED BY <1>1, <1>3, <1>4, <1>5 DEF Alive

\* No assert of the kernel fails in an application that is well built:
\* TerminateTask and ChainTask do not return (os_task.c:822 and 881), nobody waits
\* while suspended (os_event.c:166), and the scheduler resource is free at every
\* dispatch (os_task.c:413-470).
THEOREM AssertsHold == ASSUME NoInternal, WellBuilt PROVE ObservedSpec => []AssertionsHold
  <1>1. ObservedInit => AssertInv
    BY CeilStart, StartCounts, AliveStart DEF ObservedInit, AssertInv
  <1>2. AssertInv /\ [ObservedNext]_observedVars => AssertInv'
    <2>1. ASSUME AssertInv, ObservedNext PROVE AssertInv'
      <3>1. CeilInv /\ KernelInv /\ Counted
        BY <2>1, FoundAlive
      <3>2. CeilInv' /\ Counted' /\ Alive'
        BY <2>1, <3>1, CeilStep, StepCounts, AliveStep
      <3>3. QED BY <3>2 DEF AssertInv
    <2>2. ASSUME AssertInv, UNCHANGED observedVars PROVE AssertInv'
      <3>1. CeilInv' /\ Counted'
        BY <2>2, CeilStutter DEF AssertInv, observedVars, vars, Counted, FitStates, FitCounts
      <3>2. Alive'
        BY <2>2, FoundAlive
           DEF observedVars, vars, Alive, LivePlaces, LiveTargets, SchedulerHeld, TakenByUser
      <3>3. QED BY <3>1, <3>2 DEF AssertInv
    <2>3. QED BY <2>1, <2>2
  <1>3. AssertInv => AssertionsHold
    BY DEF AssertInv, Alive, AssertionsHold
  <1>4. QED BY <1>1, <1>2, <1>3, PTL DEF ObservedSpec
=============================================================================
