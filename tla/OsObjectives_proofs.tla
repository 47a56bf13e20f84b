------------------------ MODULE OsObjectives_proofs ------------------------
(* Proofs about the kernel, for any tasks, events, resources and calls.      *)
EXTENDS OsObjectives, WellFoundedInduction, FiniteSetTheorems, SequenceTheorems, TLAPS

-----------------------------------------------------------------------------
(* Numbers and lists.                                                      *)

LEMMA SmallestNumber ==
    ASSUME NEW V \in SUBSET Nat, V # {}
    PROVE  \E m \in V : \A n \in V : m <= n
  <1>1. PICK m \in V : \A n \in V : ~(<<n, m>> \in OpToRel(<, Nat))
    BY NatLessThanWellFounded, WFMin
  <1>2. ASSUME NEW n \in V PROVE m <= n
    <2> SUFFICES ASSUME n < m PROVE FALSE
      OBVIOUS
    <2>1. /\ <<n, m>> \in Nat \X Nat
          /\ <<n, m>>[1] < <<n, m>>[2]
      OBVIOUS
    <2>2. <<n, m>> \in {ss \in Nat \X Nat : ss[1] < ss[2]}
      BY <2>1, Zenon
    <2>3. QED BY <2>2, <1>1, Zenon DEF OpToRel
  <1>3. QED BY <1>2

\* Of bounded numbers one is the greatest.
LEMMA GreatestNumber ==
    ASSUME NEW N \in Nat, NEW V \in SUBSET (0..N), V # {}
    PROVE  \E m \in V : \A n \in V : n <= m
  <1> DEFINE W == {N - n : n \in V}
  <1>1. W \in SUBSET Nat /\ W # {}
    <2>1. PICK n \in V : TRUE
      OBVIOUS
    <2>2. N - n \in W
      OBVIOUS
    <2>3. QED BY <2>2
  <1>2. PICK w \in W : \A v \in W : w <= v
    <2> HIDE DEF W
    <2>1. QED BY <1>1, SmallestNumber
  <1>3. PICK m \in V : w = N - m
    OBVIOUS
  <1>4. ASSUME NEW n \in V PROVE n <= m
    <2>1. N - n \in W
      OBVIOUS
    <2>2. N - m <= N - n
      BY <2>1, <1>2, <1>3
    <2>3. m \in 0..N /\ n \in 0..N
      OBVIOUS
    <2>4. QED BY <2>2, <2>3
  <1>5. QED BY <1>4

\* What is left of a sequence without one of its elements.
LEMMA Removed ==
    ASSUME NEW S, NEW s \in Seq(S), NEW i \in 1..Len(s)
    PROVE  /\ RemoveAt(s, i) \in Seq(S)
           /\ Len(RemoveAt(s, i)) = Len(s) - 1
           /\ \A j \in 1..(Len(s) - 1) : RemoveAt(s, i)[j] = IF j < i THEN s[j] ELSE s[j + 1]
  <1> DEFINE front == SubSeq(s, 1, i - 1)
             back  == SubSeq(s, i + 1, Len(s))
             rest  == front \o back
  <1>1. front \in Seq(S) /\ Len(front) = i - 1 /\ \A j \in 1..(i - 1) : front[j] = s[j]
    OBVIOUS
  <1>2. back \in Seq(S) /\ Len(back) = Len(s) - i /\ \A j \in 1..(Len(s) - i) : back[j] = s[j + i]
    OBVIOUS
  <1>3. RemoveAt(s, i) = rest
    BY DEF RemoveAt
  <1> HIDE DEF front, back
  <1>4. /\ rest \in Seq(S)
        /\ Len(rest) = Len(front) + Len(back)
        /\ \A j \in 1..(Len(front) + Len(back)) :
              rest[j] = IF j <= Len(front) THEN front[j] ELSE back[j - Len(front)]
    BY <1>1, <1>2, ConcatProperties
  <1> HIDE DEF rest
  <1>n. Len(s) \in Nat /\ i \in Int /\ 1 <= i /\ i <= Len(s)
    OBVIOUS
  <1>5. Len(rest) = Len(s) - 1
    BY <1>n, <1>1, <1>2, <1>4
  <1>6. ASSUME NEW j \in 1..(Len(s) - 1)
        PROVE  rest[j] = IF j < i THEN s[j] ELSE s[j + 1]
    <2>1. CASE j < i
      <3>1. j \in 1..(Len(front) + Len(back)) /\ j <= Len(front) /\ j \in 1..(i - 1)
        BY <2>1, <1>n, <1>1, <1>2
      <3>2. QED BY <3>1, <2>1, <1>1, <1>4
    <2>2. CASE ~(j < i)
      <3>1. j \in 1..(Len(front) + Len(back)) /\ ~(j <= Len(front))
        BY <2>2, <1>n, <1>1, <1>2
      <3>2. rest[j] = back[j - (i - 1)]
        BY <3>1, <1>1, <1>4
      <3>3. j - (i - 1) \in 1..(Len(s) - i) /\ (j - (i - 1)) + i = j + 1
        BY <2>2, <1>n
      <3>4. QED BY <3>2, <3>3, <2>2, <1>2
    <2>3. QED BY <2>1, <2>2
  <1>7. QED BY <1>3, <1>4, <1>5, <1>6

-----------------------------------------------------------------------------
(* The scheduler's record.                                                 *)

KernelRecord ==
    [state : [Task -> TaskState], ready : Seq(Task),
     prio : [Task -> 0..OS_RES_SCHEDULER_PRIO],
     owner : [AnyResource -> Task \cup {None}],
     old_task_prio : [AnyResource -> 0..OS_RES_SCHEDULER_PRIO], curr : Task]

Busy == {"READY", "RUNNING"}

\* The task that never calls anything, so that it never leaves the ready list.
Idle == CHOOSE t \in Task : Calls[t] = {} /\ \E i \in DOMAIN autostart : autostart[i] = t

\* Nobody is in the ready list twice, and who is in it is ready or running.
Exact(k) ==
    /\ \A i, j \in 1..Len(k.ready) : k.ready[i] = k.ready[j] => i = j
    /\ \A t \in Task : k.state[t] \in Busy <=> \E i \in 1..Len(k.ready) : k.ready[i] = t

Sound(k) == k \in KernelRecord /\ Exact(k) /\ k.state[Idle] \in Busy

\* What a function on the record leaves alone.
SamePriorities(n, k) ==
    n.prio = k.prio /\ n.owner = k.owner /\ n.old_task_prio = k.old_task_prio
SameRest(n, k) ==
    \A t \in Task : n.state[t] = k.state[t] \/ {n.state[t], k.state[t]} \subseteq Busy

LEMMA IdleTask ==
    Idle \in Task /\ Calls[Idle] = {} /\ \E i \in DOMAIN autostart : autostart[i] = Idle
  <1>1. \E t \in Task : Calls[t] = {} /\ \E i \in DOMAIN autostart : autostart[i] = t
    BY KernelAssumption, ConfigAssumption
  <1>2. QED BY <1>1 DEF Idle

LEMMA CeilingTyped ==
    /\ ceiling_priority \in [AnyResource -> 0..OS_RES_SCHEDULER_PRIO]
    /\ \A r \in AnyResource, t \in Task : r \in resourceAccess[t] => prio[t] <= ceiling_priority[r]
    /\ ceiling_priority[RES_SCHEDULER] = OS_RES_SCHEDULER_PRIO
  <1>1. ASSUME NEW users, users \subseteq Task, users # {},
               NEW top, top = CHOOSE t \in users : \A u \in users : prio[u] <= prio[t]
        PROVE  top \in users /\ \A u \in users : prio[u] <= prio[top]
    <2> DEFINE V == {prio[u] : u \in users}
    <2>1. V \in SUBSET (0..31) /\ V # {}
      <3>1. PICK u \in users : TRUE
        BY <1>1
      <3>2. prio[u] \in V
        OBVIOUS
      <3>p. \A t \in Task : prio[t] \in 0..31
        BY KernelAssumption DEF OS_RES_SCHEDULER_PRIO
      <3>3. V \subseteq 0..31
        BY <1>1, <3>p
      <3>4. QED BY <3>2, <3>3
    <2>2. PICK m \in V : \A n \in V : n <= m
      <3> HIDE DEF V
      <3>1. QED BY <2>1, GreatestNumber
    <2>3. PICK t \in users : m = prio[t]
      OBVIOUS
    <2>4. \A u \in users : prio[u] <= prio[t]
      BY <2>2, <2>3
    <2>5. QED BY <2>4, <1>1
  <1>2. ASSUME NEW r \in AnyResource
        PROVE  /\ ceiling_priority[r] \in 0..OS_RES_SCHEDULER_PRIO
               /\ \A t \in Task : r \in resourceAccess[t] => prio[t] <= ceiling_priority[r]
               /\ r = RES_SCHEDULER => ceiling_priority[r] = OS_RES_SCHEDULER_PRIO
    <2> DEFINE users == {t \in Task : r \in resourceAccess[t]}
               top == CHOOSE t \in users : \A u \in users : prio[u] <= prio[t]
    <2>1. ceiling_priority[r] = IF r = RES_SCHEDULER THEN OS_RES_SCHEDULER_PRIO
                                ELSE IF users = {} THEN 0 ELSE prio[top]
      BY DEF ceiling_priority
    <2>2. users # {} => top \in users /\ \A u \in users : prio[u] <= prio[top]
      BY <1>1
    <2>3. \A t \in Task : prio[t] \in 0..31
      BY KernelAssumption DEF OS_RES_SCHEDULER_PRIO
    <2>4. users \subseteq Task
      OBVIOUS
    <2>5. \A t \in Task : r \in resourceAccess[t] => t \in users
      OBVIOUS
    <2> HIDE DEF users, top
    <2>6. QED BY <2>1, <2>2, <2>3, <2>4, <2>5 DEF OS_RES_SCHEDULER_PRIO
  <1>3. RES_SCHEDULER \in AnyResource
    BY DEF AnyResource
  <1>4. ceiling_priority = [r \in AnyResource |-> ceiling_priority[r]]
    BY DEF ceiling_priority
  <1>5. QED BY <1>2, <1>3, <1>4

\* The dispatcher finds the first task of the highest priority (os_task.c:295).
LEMMA TopPlace ==
    ASSUME NEW k, Sound(k)
    PROVE  \E first \in 1..Len(k.ready) :
              /\ TaskGetTop(k) = k.ready[first]
              /\ \A j \in 1..Len(k.ready) : k.prio[k.ready[j]] <= k.prio[k.ready[first]]
              /\ \A j \in 1..Len(k.ready) :
                    k.prio[k.ready[j]] = k.prio[k.ready[first]] => first <= j
  <1> DEFINE D == 1..Len(k.ready)
             V == {k.prio[k.ready[i]] : i \in D}
             top == {i \in D : \A j \in D : k.prio[k.ready[j]] <= k.prio[k.ready[i]]}
             first == CHOOSE i \in top : \A j \in top : i <= j
  <1>1. k \in KernelRecord /\ DOMAIN k.ready = D /\ \A i \in D : k.ready[i] \in Task
    BY DEF Sound, KernelRecord
  <1>2. \E i \in D : k.ready[i] = Idle
    BY IdleTask DEF Sound, Exact
  <1>3. V \in SUBSET (0..32) /\ V # {}
    <2>1. PICK i \in D : k.ready[i] = Idle
      BY <1>2
    <2>2. k.prio[k.ready[i]] \in V
      OBVIOUS
    <2>3. V \subseteq 0..32
      <3>1. \A t \in Task : k.prio[t] \in 0..32
        BY <1>1 DEF KernelRecord, OS_RES_SCHEDULER_PRIO
      <3>2. QED BY <3>1, <1>1
    <2>4. QED BY <2>2, <2>3
  <1>4. PICK m \in V : \A n \in V : n <= m
    <2> HIDE DEF V
    <2>1. QED BY <1>3, GreatestNumber
  <1>5. top \in SUBSET Nat /\ top # {}
    BY <1>4
  <1>6. first \in top /\ \A j \in top : first <= j
    <2> HIDE DEF top
    <2>1. \E i \in top : \A j \in top : i <= j
      BY <1>5, SmallestNumber
    <2>2. QED BY <2>1
  <1>7. TaskGetTop(k) = k.ready[first]
    BY <1>1 DEF TaskGetTop
  <1>8. first \in D /\ \A j \in D : k.prio[k.ready[j]] <= k.prio[k.ready[first]]
    <2> HIDE DEF first
    <2>1. QED BY <1>6
  <1>9. \A j \in D : k.prio[k.ready[j]] = k.prio[k.ready[first]] => first <= j
    <2> HIDE DEF first
    <2>1. \A j \in D : k.prio[k.ready[j]] = k.prio[k.ready[first]] => j \in top
      BY <1>8
    <2>2. QED BY <1>6, <2>1
  <1> HIDE DEF first, top, V
  <1>10. QED BY <1>7, <1>8, <1>9

LEMMA TopOfList ==
    ASSUME NEW k, Sound(k)
    PROVE  /\ TaskGetTop(k) \in Task /\ k.state[TaskGetTop(k)] \in Busy
           /\ \A t \in Task : k.state[t] \in Busy => k.prio[t] <= k.prio[TaskGetTop(k)]
  <1>1. k \in KernelRecord /\ \A i \in 1..Len(k.ready) : k.ready[i] \in Task
    BY DEF Sound, KernelRecord
  <1>2. PICK first \in 1..Len(k.ready) :
           /\ TaskGetTop(k) = k.ready[first]
           /\ \A j \in 1..Len(k.ready) : k.prio[k.ready[j]] <= k.prio[k.ready[first]]
    BY TopPlace
  <1>3. QED BY <1>1, <1>2 DEF Sound, Exact

-----------------------------------------------------------------------------
(* The functions on the record.                                            *)

\* The record's fields, and a record made of such fields.
Fields(n) == [state |-> n.state, ready |-> n.ready, prio |-> n.prio, owner |-> n.owner,
              old_task_prio |-> n.old_task_prio, curr |-> n.curr]

LEMMA FieldsTyped ==
    ASSUME NEW k \in KernelRecord
    PROVE  /\ k.state \in [Task -> TaskState] /\ k.ready \in Seq(Task)
           /\ k.prio \in [Task -> 0..OS_RES_SCHEDULER_PRIO]
           /\ k.owner \in [AnyResource -> Task \cup {None}]
           /\ k.old_task_prio \in [AnyResource -> 0..OS_RES_SCHEDULER_PRIO] /\ k.curr \in Task
  BY DEF KernelRecord

LEMMA RecordTyped ==
    ASSUME NEW n, n = Fields(n),
           n.state \in [Task -> TaskState], n.ready \in Seq(Task),
           n.prio \in [Task -> 0..OS_RES_SCHEDULER_PRIO],
           n.owner \in [AnyResource -> Task \cup {None}],
           n.old_task_prio \in [AnyResource -> 0..OS_RES_SCHEDULER_PRIO], n.curr \in Task
    PROVE  n \in KernelRecord
  BY DEF KernelRecord, Fields

\* A task in a new state, the list changed.
Changed(k, t, state, list) == [k EXCEPT !.state[t] = state, !.ready = list]

LEMMA StateChanged ==
    ASSUME NEW k \in KernelRecord, NEW t \in Task, NEW state \in TaskState, NEW list \in Seq(Task),
           NEW n, n = Changed(k, t, state, list)
    PROVE  /\ n \in KernelRecord /\ n.curr = k.curr /\ SamePriorities(n, k)
           /\ n.ready = list
           /\ n.state[t] = state /\ \A u \in Task \ {t} : n.state[u] = k.state[u]
  <1>1. /\ n = Fields(n)
        /\ n.state = [k.state EXCEPT ![t] = state] /\ n.ready = list /\ n.prio = k.prio
        /\ n.owner = k.owner /\ n.old_task_prio = k.old_task_prio /\ n.curr = k.curr
    BY DEF KernelRecord, Fields, Changed
  <1>2. n.state \in [Task -> TaskState]
    BY <1>1, FieldsTyped
  <1>3. n \in KernelRecord
    BY <1>1, <1>2, FieldsTyped, RecordTyped
  <1>4. n.state[t] = state /\ \A u \in Task \ {t} : n.state[u] = k.state[u]
    BY <1>1, FieldsTyped
  <1>5. QED BY <1>1, <1>3, <1>4 DEF SamePriorities

LEMMA MadeReady ==
    ASSUME NEW k, Sound(k), NEW t \in Task, NEW n, n = MakeReady(k, t)
    PROVE  /\ Sound(n) /\ n.curr = k.curr /\ SamePriorities(n, k)
           /\ n.state[t] \in Busy /\ \A u \in Task \ {t} : n.state[u] = k.state[u]
           /\ n.state[t] = "READY" \/ n = k
  <1>k. k \in KernelRecord /\ Idle \in Task
    BY IdleTask DEF Sound
  <1>1. CASE k.state[t] \in Busy
    BY <1>1 DEF MakeReady, Busy, SamePriorities
  <1>2. CASE k.state[t] \notin Busy
    <2>1. n = [k EXCEPT !.state[t] = "READY", !.ready = Append(@, t)]
      BY <1>2 DEF MakeReady, Busy
    <2>r. k.ready \in Seq(Task) /\ Append(k.ready, t) \in Seq(Task)
      BY <1>k, FieldsTyped
    <2>2. /\ n \in KernelRecord /\ n.curr = k.curr /\ SamePriorities(n, k)
          /\ n.ready = Append(k.ready, t)
          /\ n.state[t] = "READY" /\ \A u \in Task \ {t} : n.state[u] = k.state[u]
      <3>1. n = Changed(k, t, "READY", Append(k.ready, t))
        BY <2>1, <1>k DEF KernelRecord, Changed
      <3>2. "READY" \in TaskState
        BY DEF TaskState
      <3> DEFINE list == Append(k.ready, t)
      <3>3. list \in Seq(Task) /\ n = Changed(k, t, "READY", list)
        BY <2>r, <3>1
      <3> HIDE DEF list
      <3>4. /\ n \in KernelRecord /\ n.curr = k.curr /\ SamePriorities(n, k) /\ n.ready = list
            /\ n.state[t] = "READY" /\ \A u \in Task \ {t} : n.state[u] = k.state[u]
        BY <1>k, <3>2, <3>3, StateChanged
      <3>5. QED BY <3>4 DEF list
    <2>4. /\ Len(n.ready) = Len(k.ready) + 1 /\ Len(k.ready) \in Nat
          /\ n.ready[Len(k.ready) + 1] = t
          /\ \A i \in 1..Len(k.ready) : n.ready[i] = k.ready[i]
      BY <2>2, <2>r
    <2>5. \A i \in 1..Len(k.ready) : k.ready[i] # t
      BY <1>2 DEF Sound, Exact
    <2>6. Exact(n)
      <3>1. \A i \in 1..Len(n.ready) : i \in 1..Len(k.ready) \/ i = Len(n.ready)
        BY <2>4
      <3>2. \A i, j \in 1..Len(k.ready) : k.ready[i] = k.ready[j] => i = j
        BY DEF Sound, Exact
      <3>3. ASSUME NEW i \in 1..Len(n.ready), NEW j \in 1..Len(n.ready), n.ready[i] = n.ready[j]
            PROVE  i = j
        <4>1. CASE i \in 1..Len(k.ready) /\ j \in 1..Len(k.ready)
          BY <4>1, <2>4, <3>2, <3>3
        <4>2. CASE i \in 1..Len(k.ready) /\ j = Len(n.ready)
          BY <4>2, <2>4, <2>5, <3>3
        <4>3. CASE i = Len(n.ready) /\ j \in 1..Len(k.ready)
          BY <4>3, <2>4, <2>5, <3>3
        <4>4. QED BY <3>1, <4>1, <4>2, <4>3
      <3>4. 1..Len(k.ready) \subseteq 1..Len(n.ready) /\ Len(n.ready) \in 1..Len(n.ready)
        BY <2>4
      <3>5. \A u \in Task \ {t} : n.state[u] \in Busy <=> \E i \in 1..Len(n.ready) : n.ready[i] = u
        <4>1. \A u \in Task \ {t} : k.state[u] \in Busy <=> \E i \in 1..Len(k.ready) : k.ready[i] = u
          BY DEF Sound, Exact
        <4>2. QED BY <2>2, <2>4, <3>1, <3>4, <4>1
      <3>6. n.state[t] \in Busy /\ \E i \in 1..Len(n.ready) : n.ready[i] = t
        BY <2>2, <2>4, <3>4 DEF Busy
      <3>7. QED BY <3>3, <3>5, <3>6 DEF Exact
    <2>7. n.state[Idle] \in Busy
      BY <1>k, <2>2 DEF Sound, Busy
    <2>8. QED BY <2>2, <2>6, <2>7 DEF Sound, Busy
  <1>3. QED BY <1>1, <1>2

LEMMA Unlisted ==
    ASSUME NEW k, Sound(k), NEW t \in Task, t # Idle, k.state[t] \in Busy,
           NEW state \in {"WAITING", "SUSPENDED"}, NEW n, n = Unlist(k, t, state)
    PROVE  /\ Sound(n) /\ n.curr = k.curr /\ SamePriorities(n, k)
           /\ n.state[t] = state /\ \A u \in Task \ {t} : n.state[u] = k.state[u]
  <1> DEFINE place == CHOOSE i \in DOMAIN k.ready : k.ready[i] = t
  <1>k. k \in KernelRecord /\ Idle \in Task /\ k.ready \in Seq(Task) /\ DOMAIN k.ready = 1..Len(k.ready)
    BY IdleTask DEF Sound, KernelRecord
  <1>1. place \in 1..Len(k.ready) /\ k.ready[place] = t
    <2>1. \E i \in DOMAIN k.ready : k.ready[i] = t
      BY <1>k DEF Sound, Exact
    <2>2. QED BY <2>1, <1>k
  <1>2. n = [k EXCEPT !.state[t] = state, !.ready = RemoveAt(@, place)]
    BY DEF Unlist
  <1> HIDE DEF place
  <1>3. /\ RemoveAt(k.ready, place) \in Seq(Task)
        /\ Len(RemoveAt(k.ready, place)) = Len(k.ready) - 1
        /\ \A j \in 1..(Len(k.ready) - 1) :
              RemoveAt(k.ready, place)[j] = IF j < place THEN k.ready[j] ELSE k.ready[j + 1]
    BY <1>k, <1>1, Removed
  <1>4. /\ n \in KernelRecord /\ n.curr = k.curr /\ SamePriorities(n, k)
        /\ n.ready = RemoveAt(k.ready, place)
        /\ n.state[t] = state /\ \A u \in Task \ {t} : n.state[u] = k.state[u]
    <2>1. n = Changed(k, t, state, RemoveAt(k.ready, place))
      BY <1>2, <1>k DEF KernelRecord, Changed
    <2>2. state \in TaskState
      BY DEF TaskState
    <2>3. QED BY <1>k, <1>3, <2>1, <2>2, StateChanged
  <1>5. Exact(n)
    <2> DEFINE size == Len(k.ready)
    <2>1. size \in Nat /\ place \in 1..size /\ Len(n.ready) = size - 1
      BY <1>k, <1>1, <1>3, <1>4
    <2>2. \A j \in 1..(size - 1) : n.ready[j] = IF j < place THEN k.ready[j] ELSE k.ready[j + 1]
      BY <1>3, <1>4
    <2>3. \A i, j \in 1..size : k.ready[i] = k.ready[j] => i = j
      BY DEF Sound, Exact
    <2> HIDE DEF size
    <2>4. \A i, j \in 1..(size - 1) : n.ready[i] = n.ready[j] => i = j
      <3> SUFFICES ASSUME NEW i \in 1..(size - 1), NEW j \in 1..(size - 1), n.ready[i] = n.ready[j]
                   PROVE  i = j
        OBVIOUS
      <3>1. i \in 1..size /\ i + 1 \in 1..size /\ j \in 1..size /\ j + 1 \in 1..size
        BY <2>1
      <3>2. CASE i < place /\ j < place
        BY <3>1, <3>2, <2>2, <2>3
      <3>3. CASE i < place /\ ~(j < place)
        <4>1. k.ready[i] = k.ready[j + 1]
          BY <3>3, <2>2
        <4>2. i = j + 1
          BY <4>1, <3>1, <2>3
        <4>3. QED BY <4>2, <3>3, <2>1
      <3>4. CASE ~(i < place) /\ j < place
        <4>1. k.ready[i + 1] = k.ready[j]
          BY <3>4, <2>2
        <4>2. i + 1 = j
          BY <4>1, <3>1, <2>3
        <4>3. QED BY <4>2, <3>4, <2>1
      <3>5. CASE ~(i < place) /\ ~(j < place)
        <4>1. k.ready[i + 1] = k.ready[j + 1]
          BY <3>5, <2>2
        <4>2. i + 1 = j + 1
          BY <4>1, <3>1, <2>3
        <4>3. QED BY <4>2, <2>1
      <3>6. QED BY <3>2, <3>3, <3>4, <3>5
    <2>5. ASSUME NEW u \in Task \ {t}
          PROVE  n.state[u] \in Busy <=> \E i \in 1..(size - 1) : n.ready[i] = u
      <3>1. n.state[u] \in Busy <=> \E i \in 1..size : k.ready[i] = u
        BY <1>4 DEF Sound, Exact, size
      <3>2. ASSUME NEW i \in 1..size, k.ready[i] = u PROVE \E j \in 1..(size - 1) : n.ready[j] = u
        <4>1. i # place
          BY <3>2, <1>1
        <4>2. CASE i < place
          <5>1. i \in 1..(size - 1) /\ n.ready[i] = u
            BY <2>1, <2>2, <3>2, <4>2
          <5>2. QED BY <5>1
        <4>3. CASE i > place
          <5>1. i - 1 \in 1..(size - 1) /\ ~(i - 1 < place) /\ (i - 1) + 1 = i
            BY <2>1, <4>3
          <5>2. n.ready[i - 1] = u
            BY <5>1, <2>2, <3>2
          <5>3. QED BY <5>1, <5>2
        <4>4. QED BY <4>1, <4>2, <4>3, <2>1
      <3>3. ASSUME NEW j \in 1..(size - 1), n.ready[j] = u PROVE \E i \in 1..size : k.ready[i] = u
        <4>1. j \in 1..size /\ j + 1 \in 1..size
          BY <2>1
        <4>2. QED BY <4>1, <2>2, <3>3
      <3>4. QED BY <3>1, <3>2, <3>3
    <2>6. \A i \in 1..(size - 1) : n.ready[i] # t
      <3> SUFFICES ASSUME NEW i \in 1..(size - 1), n.ready[i] = t PROVE FALSE
        OBVIOUS
      <3>1. i \in 1..size /\ i + 1 \in 1..size
        BY <2>1
      <3>2. QED BY <3>1, <1>1, <2>1, <2>2, <2>3
    <2>7. n.state[t] \notin Busy
      BY <1>4 DEF Busy
    <2>8. QED BY <2>1, <2>4, <2>5, <2>6, <2>7 DEF Exact
  <1>6. n.state[Idle] \in Busy
    BY <1>k, <1>4 DEF Sound
  <1>7. QED BY <1>4, <1>5, <1>6 DEF Sound

Runs(k, t) == [k EXCEPT !.state[t] = "RUNNING"]

LEMMA StillReady ==
    ASSUME NEW k, Sound(k), NEW t \in Task, k.state[t] \in Busy,
           NEW n, n = RunningToReady(k, t) \/ n = Runs(k, t)
    PROVE  /\ Sound(n) /\ n.curr = k.curr /\ SamePriorities(n, k) /\ SameRest(n, k)
           /\ n = RunningToReady(k, t) \/ n.state[t] = "RUNNING"
           /\ n.state[t] \in Busy /\ \A u \in Task \ {t} : n.state[u] = k.state[u]
  <1>k. k \in KernelRecord /\ Idle \in Task
    BY IdleTask DEF Sound
  <1>1. /\ n \in KernelRecord /\ n.curr = k.curr /\ SamePriorities(n, k) /\ n.ready = k.ready
        /\ n.state[t] \in Busy /\ \A u \in Task \ {t} : n.state[u] = k.state[u]
        /\ n = RunningToReady(k, t) \/ n.state[t] = "RUNNING"
    <2>1. PICK state \in Busy : n = [k EXCEPT !.state[t] = state]
                                /\ (n = RunningToReady(k, t) \/ state = "RUNNING")
      BY DEF RunningToReady, Runs, Busy
    <2>2. n = Changed(k, t, state, k.ready)
      BY <2>1, <1>k DEF KernelRecord, Changed
    <2>3. state \in TaskState
      BY DEF TaskState, Busy
    <2>4. k.ready \in Seq(Task)
      BY <1>k, FieldsTyped
    <2>5. /\ n \in KernelRecord /\ n.curr = k.curr /\ SamePriorities(n, k) /\ n.ready = k.ready
          /\ n.state[t] = state /\ \A u \in Task \ {t} : n.state[u] = k.state[u]
      BY <1>k, <2>2, <2>3, <2>4, StateChanged
    <2>6. QED BY <2>1, <2>5
  <1>2. SameRest(n, k) /\ Exact(n) /\ n.state[Idle] \in Busy
    BY <1>k, <1>1 DEF SameRest, Exact, Sound
  <1>3. QED BY <1>1, <1>2 DEF Sound

\* Taking and freeing resources leaves the ready list alone.
LEMMA ResourcesTyped ==
    ASSUME NEW k, Sound(k), NEW t \in Task, NEW r \in AnyResource,
           NEW n, n = ResourceAdd(k, r, t) \/ n = ResourceRemove(k, r, t)
    PROVE  Sound(n) /\ n.curr = k.curr /\ n.state = k.state
  <1>k. k \in KernelRecord
    BY DEF Sound
  <1>1. PICK holder \in Task \cup {None}, old \in 0..OS_RES_SCHEDULER_PRIO, p \in 0..OS_RES_SCHEDULER_PRIO :
           n = [k EXCEPT !.owner[r] = holder, !.old_task_prio[r] = old, !.prio[t] = p]
    <2>1. CASE n = ResourceAdd(k, r, t)
      <3>1. k.prio[t] \in 0..OS_RES_SCHEDULER_PRIO /\ ceiling_priority[r] \in 0..OS_RES_SCHEDULER_PRIO
        BY <1>k, CeilingTyped, FieldsTyped
      <3>2. n = [k EXCEPT !.owner[r] = t, !.old_task_prio[r] = k.prio[t],
                          !.prio[t] = ceiling_priority[r]]
        BY <2>1, <1>k DEF ResourceAdd, KernelRecord
      <3>3. QED BY <3>1, <3>2
    <2>2. CASE n = ResourceRemove(k, r, t)
      <3>1. n = [k EXCEPT !.owner[r] = None, !.old_task_prio[r] = k.old_task_prio[r],
                          !.prio[t] = k.old_task_prio[r]]
        BY <2>2, <1>k DEF ResourceRemove, KernelRecord
      <3>2. PICK old \in 0..OS_RES_SCHEDULER_PRIO : old = k.old_task_prio[r]
        BY <1>k, FieldsTyped
      <3>3. n = [k EXCEPT !.owner[r] = None, !.old_task_prio[r] = old, !.prio[t] = old]
        BY <3>1, <3>2
      <3>4. QED BY <3>3
    <2>3. QED BY <2>1, <2>2
  <1>2. /\ n = Fields(n) /\ n.curr = k.curr /\ n.state = k.state /\ n.ready = k.ready
        /\ n.owner = [k.owner EXCEPT ![r] = holder]
        /\ n.old_task_prio = [k.old_task_prio EXCEPT ![r] = old]
        /\ n.prio = [k.prio EXCEPT ![t] = p]
    BY <1>k, <1>1 DEF KernelRecord, Fields
  <1>3. /\ n.owner \in [AnyResource -> Task \cup {None}]
        /\ n.old_task_prio \in [AnyResource -> 0..OS_RES_SCHEDULER_PRIO]
        /\ n.prio \in [Task -> 0..OS_RES_SCHEDULER_PRIO]
    BY <1>k, <1>2, FieldsTyped
  <1>4. n \in KernelRecord
    BY <1>k, <1>2, <1>3, FieldsTyped, RecordTyped
  <1>5. QED BY <1>2, <1>4 DEF Sound, Exact

\* Os_TaskSwapContextTo: the task runs, with its internal resource.
LEMMA Swapped ==
    ASSUME NEW k, Sound(k), NEW t \in Task, k.state[t] \in Busy, NEW n, n = SwapTo(k, t)
    PROVE  /\ Sound(n) /\ n.curr = t /\ n.state[t] = "RUNNING" /\ SameRest(n, k)
           /\ (\A u \in Task : resourceInt[u] = None) => SamePriorities(n, k)
  <1> DEFINE c == [k EXCEPT !.curr = t]
             s == GetInternal(c, t)
  <1>k. k \in KernelRecord
    BY DEF Sound
  <1>1. /\ c = Fields(c) /\ c.curr = t /\ c.state = k.state /\ c.ready = k.ready
        /\ c.prio = k.prio /\ c.owner = k.owner /\ c.old_task_prio = k.old_task_prio
    <2>1. PICK x : x = c
      OBVIOUS
    <2>2. /\ x.curr = t /\ x.state = k.state /\ x.ready = k.ready
          /\ x.prio = k.prio /\ x.owner = k.owner /\ x.old_task_prio = k.old_task_prio
      BY <1>k, <2>1 DEF KernelRecord
    <2>3. x = Fields(x)
      BY <1>k, <2>1 DEF KernelRecord, Fields
    <2> HIDE DEF c
    <2>4. QED BY <2>1, <2>2, <2>3, Zenon
  <1>2. n = Runs(s, t)
    BY DEF SwapTo, Runs
  <1> HIDE DEF c
  <1>3. c \in KernelRecord
    BY <1>k, <1>1, FieldsTyped, RecordTyped
  <1>4. Sound(c)
    BY <1>1, <1>3 DEF Sound, Exact
  <1>5. /\ Sound(s) /\ s.curr = t /\ s.state = k.state
        /\ (\A u \in Task : resourceInt[u] = None) => SamePriorities(s, k)
    <2>1. CASE resourceInt[t] = None
      BY <2>1, <1>1, <1>4 DEF GetInternal, SamePriorities
    <2>2. CASE resourceInt[t] # None
      <3>1. resourceInt[t] \in AnyResource /\ s = ResourceAdd(c, resourceInt[t], t)
        BY <2>2, KernelAssumption DEF GetInternal, AnyResource
      <3> HIDE DEF s
      <3>2. Sound(s) /\ s.curr = c.curr /\ s.state = c.state
        BY <1>4, <3>1, ResourcesTyped
      <3>3. QED BY <2>2, <3>2, <1>1
    <2>3. QED BY <2>1, <2>2
  <1> HIDE DEF s
  <1>6. /\ Sound(n) /\ n.curr = s.curr /\ SamePriorities(n, s) /\ SameRest(n, s)
        /\ n.state[t] \in Busy
    <2>1. s.state[t] \in Busy
      BY <1>5
    <2>2. QED BY <1>2, <1>5, <2>1, StillReady
  <1>7. n.state[t] = "RUNNING"
    <2>1. s \in KernelRecord
      BY <1>5 DEF Sound
    <2>2. QED BY <1>2, <2>1 DEF KernelRecord, Runs
  <1>8. QED BY <1>5, <1>6, <1>7 DEF SamePriorities, SameRest

\* Os_Dispatch: the top task runs, swapped in or started again.
LEMMA DispatchedSound ==
    ASSUME NEW k, Sound(k), NEW n, n = Dispatched(k)
    PROVE  /\ Sound(n) /\ n.curr = TaskGetTop(k) /\ n.state[n.curr] = "RUNNING" /\ SameRest(n, k)
           /\ (\A u \in Task : resourceInt[u] = None) => SamePriorities(n, k)
  <1> DEFINE top == TaskGetTop(k)
             r == ReleaseInternal(k, k.curr)
  <1>k. k \in KernelRecord /\ k.curr \in Task
    BY FieldsTyped DEF Sound
  <1>1. top \in Task /\ k.state[top] \in Busy
    BY TopOfList
  <1>2. n = IF top # k.curr THEN SwapTo(r, top) ELSE Runs(k, top)
    BY DEF Dispatched, Runs
  <1> HIDE DEF top
  <1>3. CASE top = k.curr
    <2>1. n = Runs(k, top)
      BY <1>2, <1>3
    <2>2. n.state[top] = "RUNNING"
      BY <2>1, <1>1, <1>k DEF KernelRecord, Runs
    <2>3. /\ Sound(n) /\ n.curr = k.curr /\ SamePriorities(n, k) /\ SameRest(n, k)
      BY <2>1, <1>1, StillReady
    <2>4. QED BY <1>3, <2>2, <2>3 DEF top
  <1>4. CASE top # k.curr
    <2>1. /\ Sound(r) /\ r.state = k.state
          /\ (\A u \in Task : resourceInt[u] = None) => SamePriorities(r, k)
      <3>1. CASE resourceInt[k.curr] = None
        BY <3>1 DEF ReleaseInternal, SamePriorities
      <3>2. CASE resourceInt[k.curr] # None
        <4>1. /\ resourceInt[k.curr] \in AnyResource
              /\ r = ResourceRemove(k, resourceInt[k.curr], k.curr)
          BY <3>2, <1>k, KernelAssumption DEF ReleaseInternal, AnyResource
        <4> HIDE DEF r
        <4>2. Sound(r) /\ r.state = k.state
          BY <1>k, <4>1, ResourcesTyped
        <4>3. QED BY <3>2, <4>2, <1>k
      <3>3. QED BY <3>1, <3>2
    <2> HIDE DEF r
    <2>2. n = SwapTo(r, top)
      BY <1>2, <1>4
    <2>3. /\ Sound(n) /\ n.curr = top /\ n.state[top] = "RUNNING" /\ SameRest(n, r)
          /\ (\A u \in Task : resourceInt[u] = None) => SamePriorities(n, r)
      BY <2>1, <2>2, <1>1, Swapped
    <2>4. QED BY <2>1, <2>3 DEF SamePriorities, SameRest, top
  <1>5. QED BY <1>3, <1>4

-----------------------------------------------------------------------------
(* Types, the ready list, and waiting tasks.                               *)

\* What makes the types and the promises about the ready list inductive: the
\* running task is RUNNING, and a suspended task has no activation left.
KernelInv ==
    /\ TypeOK /\ Sound(os)
    /\ os.state[os.curr] = "RUNNING"
    /\ activations \in [Task -> Nat]
    /\ \A t \in Task : os.state[t] = "SUSPENDED" => activations[t] = 0
    /\ NoLostWakeup

\* What the rest of a service leaves behind, from state k on.
Moved(k) ==
    /\ Sound(os') /\ os'.state[os'.curr] = "RUNNING" /\ SameRest(os', k)
    /\ context' \in [Task -> Context] /\ halted' \in BOOLEAN

LEMMA ServiceEnds ==
    ASSUME NEW k, Sound(k), k.curr = os.curr, NEW at \in [Task -> Context], halted \in BOOLEAN,
           Dispatch(k, at) \/ (Continue(k, at) /\ k.state[k.curr] = "RUNNING")
    PROVE  Moved(k)
  <1>1. CASE Continue(k, at) /\ k.state[k.curr] = "RUNNING"
    BY <1>1 DEF Continue, Moved, SameRest
  <1>2. CASE Dispatch(k, at)
    <2>1. os' = Dispatched(k) /\ context' = [at EXCEPT ![curr] = IF Restarts(k) THEN "entry" ELSE @]
      BY <1>2 DEF Dispatch
    <2>2. halted' \in BOOLEAN
      BY <1>2, Zenon DEF Dispatch
    <2>3. Sound(os') /\ os'.state[os'.curr] = "RUNNING" /\ SameRest(os', k)
      BY <2>1, DispatchedSound
    <2>4. context' \in [Task -> Context]
      BY <2>1 DEF Context
    <2>5. QED BY <2>2, <2>3, <2>4 DEF Moved
  <1>3. QED BY <1>1, <1>2

LEMMA PlaceTyped ==
    ASSUME KernelInv, NEW place \in Context
    PROVE  From(place) \in [Task -> Context]
  BY DEF From, KernelInv, TypeOK

\* Clearing the events of a task that begins anew.
LEMMA Cleaned ==
    ASSUME KernelInv, NEW d \in Task, NEW clean \in BOOLEAN, CleanEvents(d, clean)
    PROVE  /\ ev_set' \in [Task -> SUBSET Event] /\ ev_wait' \in [Task -> SUBSET Event]
           /\ \A t \in Task : \/ ev_set'[t] = ev_set[t] /\ ev_wait'[t] = ev_wait[t]
                             \/ ev_set'[t] = {}
  <1>1. ev_set \in [Task -> SUBSET Event] /\ ev_wait \in [Task -> SUBSET Event]
    BY DEF KernelInv, TypeOK
  <1>2. CASE clean /\ d \in Extended
    <2>1. ev_set' = [ev_set EXCEPT ![d] = {}] /\ ev_wait' = [ev_wait EXCEPT ![d] = {}]
      BY <1>2 DEF CleanEvents
    <2>2. QED BY <1>1, <2>1
  <1>3. CASE ~(clean /\ d \in Extended)
    <2>1. ev_set' = ev_set /\ ev_wait' = ev_wait
      BY <1>3 DEF CleanEvents
    <2>2. QED BY <1>1, <2>1
  <1>4. QED BY <1>2, <1>3

\* The end of an activation (os_task.c:413-470).
LEMMA Retires ==
    ASSUME KernelInv, NEW k, Sound(k), k.curr = os.curr, k.state[k.curr] = "RUNNING",
           Calls[os.curr] # {}, NEW n, n = Retire(k)
    PROVE  /\ Sound(n) /\ n.curr = k.curr /\ SamePriorities(n, k)
           /\ \A t \in Task \ {k.curr} : n.state[t] = k.state[t]
           /\ IF activations[k.curr] > 1 THEN n = k ELSE n.state[k.curr] = "SUSPENDED"
           /\ Retired \in 0..activationLimit[k.curr]
           /\ Retired = IF activations[k.curr] > 1 THEN activations[k.curr] - 1 ELSE 0
  <1>1. k.curr \in Task /\ k.curr # Idle /\ k.state[k.curr] \in Busy
    BY IdleTask, FieldsTyped DEF Sound, Busy
  <1>2. CASE activations[k.curr] > 1
    <2>1. n = k /\ Retired = activations[k.curr] - 1
      BY <1>2 DEF Retire, Retired, curr
    <2>2. /\ activations[k.curr] \in 0..activationLimit[k.curr]
          /\ activationLimit[k.curr] \in Nat
      BY <1>1, KernelAssumption DEF KernelInv, TypeOK
    <2>3. Retired \in 0..activationLimit[k.curr]
      BY <1>2, <2>1, <2>2
    <2>4. QED BY <1>2, <2>1, <2>3 DEF SamePriorities
  <1>3. CASE ~(activations[k.curr] > 1)
    <2>1. n = Unlist(k, k.curr, "SUSPENDED")
      BY <1>3 DEF Retire
    <2>2. /\ Sound(n) /\ n.curr = k.curr /\ SamePriorities(n, k)
          /\ n.state[k.curr] = "SUSPENDED" /\ \A u \in Task \ {k.curr} : n.state[u] = k.state[u]
      BY <1>1, <2>1, Unlisted
    <2>3. Retired = 0 /\ 0 \in 0..activationLimit[k.curr]
      BY <1>1, <1>3, KernelAssumption DEF Retired, curr
    <2>4. QED BY <1>3, <2>2, <2>3
  <1>4. QED BY <1>2, <1>3

\* A service that leaves k for what comes after it: its effect on activations
\* and events decides whether the invariant stays.
LEMMA InvKept ==
    ASSUME KernelInv, NEW k, Moved(k),
           activations' \in [Task -> Nat],
           \A t \in Task : activations'[t] <= activationLimit[t],
           \A t \in Task : k.state[t] = "SUSPENDED" => activations'[t] = 0,
           ev_set' \in [Task -> SUBSET Event], ev_wait' \in [Task -> SUBSET Event],
           \A t \in Task : k.state[t] = "WAITING" => ev_set'[t] \cap ev_wait'[t] = {},
           resourceHead' \in [Task -> Seq(AnyResource)],
           pending' \in [Task -> [dest : Task, mask : SUBSET Event]],
           intNestCnt' \in 0..IsrNesting
    PROVE  KernelInv'
  <1>1. Sound(os') /\ os' \in KernelRecord /\ os'.state[os'.curr] = "RUNNING"
    BY DEF Moved, Sound
  <1>2. /\ \A t \in Task : os'.state[t] = "SUSPENDED" => k.state[t] = "SUSPENDED"
        /\ \A t \in Task : os'.state[t] = "WAITING" => k.state[t] = "WAITING"
    BY DEF Moved, SameRest, Busy
  <1>3. \A t \in Task : activations'[t] \in 0..activationLimit[t]
    BY KernelAssumption
  <1>4. TypeOK'
    BY <1>1, <1>3 DEF TypeOK, KernelRecord, Moved
  <1>5. NoLostWakeup'
    BY <1>2 DEF NoLostWakeup
  <1>6. (\A t \in Task : os.state[t] = "SUSPENDED" => activations[t] = 0)'
    BY <1>2
  <1>7. Sound(os)'
    BY <1>1 DEF Sound, Exact, Idle
  <1>8. QED BY <1>1, <1>4, <1>5, <1>6, <1>7 DEF KernelInv

\* What a service finds.
LEMMA Before ==
    ASSUME KernelInv
    PROVE  /\ os \in KernelRecord /\ os.curr \in Task /\ halted \in BOOLEAN
           /\ ev_set \in [Task -> SUBSET Event] /\ ev_wait \in [Task -> SUBSET Event]
           /\ resourceHead \in [Task -> Seq(AnyResource)]
           /\ pending \in [Task -> [dest : Task, mask : SUBSET Event]]
           /\ context \in [Task -> Context]
           /\ intNestCnt \in 0..IsrNesting
           /\ \A t \in Task : os.state[t] = "WAITING" => ev_set[t] \cap ev_wait[t] = {}
  BY FieldsTyped DEF KernelInv, TypeOK, Sound, NoLostWakeup

LEMMA Counts ==
    ASSUME KernelInv
    PROVE  /\ activations \in [Task -> Nat] /\ activationLimit \in [Task -> Nat]
           /\ \A t \in Task : activations[t] <= activationLimit[t] /\ 1 <= activationLimit[t]
           /\ \A t \in Task : os.state[t] = "SUSPENDED" => activations[t] = 0
  BY KernelAssumption DEF KernelInv, TypeOK

\* A task that was suspended is in the ready list once it is activated.
ReadyFor(d) == IF os.state[d] = "SUSPENDED" THEN MakeReady(os, d) ELSE os

LEMMA ActivatedReady ==
    ASSUME KernelInv, NEW d \in Task, NEW k, k = ReadyFor(d)
    PROVE  /\ Sound(k) /\ k.curr = os.curr /\ k.state[os.curr] = "RUNNING"
           /\ k.state[d] # "SUSPENDED" /\ (os.state[d] = "SUSPENDED" => k.state[d] \in Busy)
           /\ \A t \in Task \ {d} : k.state[t] = os.state[t]
           /\ os.state[d] # "SUSPENDED" => k = os
  <1>1. CASE os.state[d] = "SUSPENDED"
    <2>1. /\ Sound(k) /\ k.curr = os.curr
          /\ k.state[d] \in Busy /\ \A u \in Task \ {d} : k.state[u] = os.state[u]
      BY <1>1, MadeReady DEF KernelInv, ReadyFor
    <2>2. os.curr # d
      BY <1>1 DEF KernelInv
    <2>3. QED BY <1>1, <2>1, <2>2, Before DEF KernelInv, Busy
  <1>2. CASE os.state[d] # "SUSPENDED"
    BY <1>2 DEF KernelInv, ReadyFor
  <1>3. QED BY <1>1, <1>2

LEMMA ActivateKeeps == ASSUME KernelInv, NEW d \in Task, ActivateTask(d) PROVE KernelInv'
  <1> DEFINE fresh == os.state[d] = "SUSPENDED"
             k == IF fresh THEN MakeReady(os, d) ELSE os
             at == IF fresh THEN [From("body") EXCEPT ![d] = "entry"] ELSE From("body")
  <1>1. /\ ~LimitReached(d)
        /\ activations' = [activations EXCEPT ![d] = @ + 1]
        /\ CleanEvents(d, fresh)
        /\ Dispatch(k, at) \/ Continue(k, at)
        /\ UNCHANGED <<resourceHead, pending, intNestCnt>>
    BY DEF ActivateTask
  <1>2. /\ Sound(k) /\ k.curr = os.curr /\ k.state[os.curr] = "RUNNING"
        /\ k.state[d] # "SUSPENDED" /\ (fresh => k.state[d] \in Busy)
        /\ \A t \in Task \ {d} : k.state[t] = os.state[t]
        /\ ~fresh => k = os
    BY ActivatedReady DEF ReadyFor
  <1>3. at \in [Task -> Context]
    BY PlaceTyped DEF Context
  <1>4. /\ ev_set' \in [Task -> SUBSET Event] /\ ev_wait' \in [Task -> SUBSET Event]
        /\ \A t \in Task : \/ ev_set'[t] = ev_set[t] /\ ev_wait'[t] = ev_wait[t]
                          \/ ev_set'[t] = {}
    <2>1. fresh \in BOOLEAN
      OBVIOUS
    <2> HIDE DEF fresh
    <2>2. QED BY <1>1, <2>1, Cleaned
  <1>5. activations[d] + 1 <= activationLimit[d]
    <2>1. fresh => activations[d] = 0
      BY Counts
    <2>2. ~fresh => ~(activations[d] >= activationLimit[d])
      BY <1>1 DEF LimitReached
    <2>3. QED BY <2>1, <2>2, Counts
  <1> HIDE DEF k, at
  <1>6. Moved(k)
    BY <1>1, <1>2, <1>3, Before, ServiceEnds
  <1>7. /\ activations' \in [Task -> Nat]
        /\ \A t \in Task : activations'[t] <= activationLimit[t]
        /\ \A t \in Task : k.state[t] = "SUSPENDED" => activations'[t] = 0
    <2>1. \A t \in Task \ {d} : activations'[t] = activations[t]
      BY <1>1, Counts
    <2>2. activations'[d] = activations[d] + 1 /\ activations' \in [Task -> Nat]
      BY <1>1, Counts
    <2>3. QED BY <1>2, <1>5, <2>1, <2>2, Counts
  <1>8. \A t \in Task : k.state[t] = "WAITING" => ev_set'[t] \cap ev_wait'[t] = {}
    <2>1. \A t \in Task : k.state[t] = "WAITING" => os.state[t] = "WAITING"
      BY <1>2 DEF Busy
    <2>2. QED BY <2>1, <1>4, Before
  <1>9. /\ resourceHead' \in [Task -> Seq(AnyResource)]
        /\ pending' \in [Task -> [dest : Task, mask : SUBSET Event]]
        /\ intNestCnt' \in 0..IsrNesting
    BY <1>1, Before
  <1>10. QED BY <1>4, <1>6, <1>7, <1>8, <1>9, InvKept

\* What a step that leaves the events alone must still show.
LEMMA Untouched ==
    ASSUME KernelInv, UNCHANGED <<pending, intNestCnt>>
    PROVE  /\ pending' \in [Task -> [dest : Task, mask : SUBSET Event]]
           /\ intNestCnt' \in 0..IsrNesting
           /\ UNCHANGED <<ev_set, ev_wait>> =>
                 ev_set' \in [Task -> SUBSET Event] /\ ev_wait' \in [Task -> SUBSET Event]
           /\ UNCHANGED resourceHead => resourceHead' \in [Task -> Seq(AnyResource)]
  BY Before

LEMMA RetireKeeps ==
    ASSUME KernelInv, NEW k, Sound(k), k.curr = os.curr, k.state = os.state, Calls[os.curr] # {},
           Dispatch(Retire(k), From("TerminateTask")),
           activations' = [activations EXCEPT ![curr] = Retired],
           resourceHead' \in [Task -> Seq(AnyResource)],
           UNCHANGED <<ev_set, ev_wait, pending, intNestCnt>>
    PROVE  KernelInv'
  <1>1. PICK n : n = Retire(k)
    OBVIOUS
  <1>2. /\ Sound(n) /\ n.curr = os.curr
        /\ \A t \in Task \ {os.curr} : n.state[t] = os.state[t]
        /\ IF activations[os.curr] > 1 THEN n = k ELSE n.state[os.curr] = "SUSPENDED"
        /\ Retired \in 0..activationLimit[os.curr]
        /\ Retired = IF activations[os.curr] > 1 THEN activations[os.curr] - 1 ELSE 0
    BY <1>1, Retires DEF KernelInv
  <1>3. From("TerminateTask") \in [Task -> Context]
    BY PlaceTyped DEF Context
  <1>4. Moved(n)
    BY <1>1, <1>2, <1>3, Before, ServiceEnds
  <1>5. /\ activations' \in [Task -> Nat] /\ activations'[os.curr] = Retired
        /\ \A t \in Task \ {os.curr} : activations'[t] = activations[t]
    <2>1. os.curr \in Task /\ Retired \in Nat
      BY <1>2, Before, Counts
    <2>2. activations' = [activations EXCEPT ![os.curr] = Retired]
      BY DEF curr
    <2>3. QED BY <2>1, <2>2, Counts
  <1>6. \A t \in Task : activations'[t] <= activationLimit[t]
    BY <1>2, <1>5, Before, Counts
  <1>7. \A t \in Task : n.state[t] = "SUSPENDED" => activations'[t] = 0
    <2>1. n.state[os.curr] = "SUSPENDED" => Retired = 0
      BY <1>2 DEF KernelInv
    <2>2. QED BY <1>2, <1>5, <2>1, Counts
  <1>8. \A t \in Task : n.state[t] = "WAITING" => ev_set'[t] \cap ev_wait'[t] = {}
    <2>1. \A t \in Task : n.state[t] = "WAITING" => os.state[t] = "WAITING"
      BY <1>2
    <2>2. QED BY <2>1, Before
  <1>9. QED BY <1>4, <1>5, <1>6, <1>7, <1>8, Untouched, InvKept

LEMMA TerminateKeeps == ASSUME KernelInv, TerminateTask PROVE KernelInv'
  <1>1. /\ Dispatch(Retire(os), From("TerminateTask")) /\ Calls[os.curr] # {}
        /\ activations' = [activations EXCEPT ![curr] = Retired]
        /\ UNCHANGED <<ev_set, ev_wait, resourceHead, pending, intNestCnt>>
    BY DEF TerminateTask, Calling, curr
  <1>2. QED BY <1>1, Untouched, RetireKeeps DEF KernelInv

\* What a task that returns still holds is freed first.
LEMMA HeldFreed ==
    ASSUME KernelInv, NEW k,
           k = IF resourceHead[os.curr] = << >> THEN os
               ELSE ResourceRemove(os, resourceHead[os.curr][1], os.curr)
    PROVE  Sound(k) /\ k.curr = os.curr /\ k.state = os.state
  <1>1. CASE resourceHead[os.curr] = << >>
    BY <1>1 DEF KernelInv
  <1>2. CASE resourceHead[os.curr] # << >>
    <2>1. PICK r : r = resourceHead[os.curr][1]
      OBVIOUS
    <2>2. r \in AnyResource /\ k = ResourceRemove(os, r, os.curr)
      BY <1>2, <2>1, Before
    <2>3. QED BY <2>2, Before, ResourcesTyped DEF KernelInv
  <1>3. QED BY <1>1, <1>2

LEMMA ReturnKeeps == ASSUME KernelInv, Return PROVE KernelInv'
  <1> DEFINE held == resourceHead[os.curr]
             k == IF held = << >> THEN os ELSE ResourceRemove(os, held[1], os.curr)
  <1>1. /\ Calls[os.curr] # {} /\ UNCHANGED <<ev_set, ev_wait, pending, intNestCnt>>
        /\ \/ halted' = TRUE /\ UNCHANGED <<os, context, activations, resourceHead>>
           \/ /\ resourceHead' = [resourceHead EXCEPT ![curr] = << >>]
              /\ activations' = [activations EXCEPT ![curr] = Retired]
              /\ Dispatch(Retire(k), From("TerminateTask"))
    BY DEF Return, Calling, curr
  <1>2. Sound(k) /\ k.curr = os.curr /\ k.state = os.state
    BY HeldFreed
  <1> HIDE DEF k
  <1>3. CASE halted' = TRUE /\ UNCHANGED <<os, context, activations, resourceHead>>
    <2>1. Moved(os)
      BY <1>3, Before DEF Moved, KernelInv, SameRest
    <2>2. QED BY <1>1, <1>3, <2>1, Before, Counts, Untouched, InvKept
  <1>4. CASE /\ resourceHead' = [resourceHead EXCEPT ![curr] = << >>]
             /\ activations' = [activations EXCEPT ![curr] = Retired]
             /\ Dispatch(Retire(k), From("TerminateTask"))
    <2>1. resourceHead' \in [Task -> Seq(AnyResource)]
      BY <1>4, Before, EmptySeq
    <2>2. QED BY <1>1, <1>2, <1>4, <2>1, RetireKeeps
  <1>5. QED BY <1>1, <1>3, <1>4

\* The scheduler's record once the running task has handed over to d, and the
\* places the tasks go on from.
Handed(d) ==
    IF activations[curr] > 1 THEN RunningToReady(ReadyFor(d), curr) ELSE Retire(ReadyFor(d))
HandedAt(d) ==
    IF os.state[d] = "SUSPENDED" THEN [From("ChainTask") EXCEPT ![d] = "entry"]
    ELSE From("ChainTask")

LEMMA Handing ==
    ASSUME KernelInv, NEW d \in Task, ChainTask(d)
    PROVE  /\ d # os.curr /\ Calls[os.curr] # {} /\ os.curr \in Task
           /\ activations[d] + 1 <= activationLimit[d]
           /\ activations' = [activations EXCEPT ![d] = @ + 1, ![os.curr] = Retired]
           /\ CleanEvents(d, os.state[d] = "SUSPENDED")
           /\ Dispatch(Handed(d), HandedAt(d)) /\ HandedAt(d) \in [Task -> Context]
           /\ UNCHANGED <<resourceHead, pending, intNestCnt>>
  <1>1. /\ d # os.curr /\ Calls[os.curr] # {} /\ os.curr \in Task
        /\ activations[d] + 1 <= activationLimit[d]
        /\ activations' = [activations EXCEPT ![d] = @ + 1, ![os.curr] = Retired]
        /\ CleanEvents(d, os.state[d] = "SUSPENDED")
        /\ UNCHANGED <<resourceHead, pending, intNestCnt>>
    BY Before DEF ChainTask, Calling, curr
  <1>2. Dispatch(Handed(d), HandedAt(d))
    BY DEF ChainTask, Handed, HandedAt, ReadyFor
  <1>3. HandedAt(d) \in [Task -> Context]
    BY PlaceTyped DEF Context, HandedAt
  <1>4. QED BY <1>1, <1>2, <1>3

LEMMA HandedSound ==
    ASSUME KernelInv, NEW d \in Task, ChainTask(d), NEW n, n = Handed(d)
    PROVE  /\ Sound(n) /\ n.curr = os.curr
           /\ \A t \in Task \ {os.curr, d} : n.state[t] = os.state[t]
           /\ n.state[d] # "SUSPENDED" /\ (n.state[d] = "WAITING" => os.state[d] = "WAITING")
           /\ IF activations[os.curr] > 1
              THEN n.state[os.curr] \in Busy /\ Retired = activations[os.curr] - 1
              ELSE n.state[os.curr] = "SUSPENDED" /\ Retired = 0
           /\ Retired \in 0..activationLimit[os.curr]
  <1>1. d # os.curr /\ Calls[os.curr] # {} /\ os.curr \in Task
    BY Handing
  <1>2. PICK k : k = ReadyFor(d)
    OBVIOUS
  <1>3. /\ Sound(k) /\ k.curr = os.curr /\ k.state[os.curr] = "RUNNING"
        /\ k.state[d] # "SUSPENDED" /\ (os.state[d] = "SUSPENDED" => k.state[d] \in Busy)
        /\ \A t \in Task \ {d} : k.state[t] = os.state[t]
        /\ os.state[d] # "SUSPENDED" => k = os
    BY <1>2, ActivatedReady
  <1>4. PICK r : r = Retire(k)
    OBVIOUS
  <1>5. /\ Sound(r) /\ r.curr = k.curr
        /\ \A t \in Task \ {k.curr} : r.state[t] = k.state[t]
        /\ IF activations[k.curr] > 1 THEN r = k ELSE r.state[k.curr] = "SUSPENDED"
        /\ Retired \in 0..activationLimit[k.curr]
        /\ Retired = IF activations[k.curr] > 1 THEN activations[k.curr] - 1 ELSE 0
    <2>1. k.state[k.curr] = "RUNNING"
      BY <1>3
    <2>2. QED BY <1>1, <1>3, <1>4, <2>1, Retires
  <1>6. n = IF activations[os.curr] > 1 THEN RunningToReady(k, os.curr) ELSE r
    BY <1>2, <1>4 DEF Handed, curr
  <1>7. /\ Sound(n) /\ n.curr = os.curr
        /\ \A t \in Task \ {os.curr} : n.state[t] = k.state[t]
        /\ IF activations[os.curr] > 1 THEN n.state[os.curr] \in Busy
                                       ELSE n.state[os.curr] = "SUSPENDED"
    <2>1. CASE activations[os.curr] > 1
      <3>1. n = RunningToReady(k, os.curr) /\ k.state[os.curr] \in Busy
        BY <1>3, <1>6, <2>1 DEF Busy
      <3>2. /\ Sound(n) /\ n.curr = k.curr
            /\ n.state[os.curr] \in Busy /\ \A u \in Task \ {os.curr} : n.state[u] = k.state[u]
        BY <1>1, <1>3, <3>1, StillReady
      <3>3. QED BY <1>3, <2>1, <3>2
    <2>2. CASE ~(activations[os.curr] > 1)
      BY <1>3, <1>5, <1>6, <2>2
    <2>3. QED BY <2>1, <2>2
  <1>8. n.state[d] # "SUSPENDED" /\ (n.state[d] = "WAITING" => os.state[d] = "WAITING")
    BY <1>1, <1>3, <1>7 DEF Busy
  <1>9. QED BY <1>3, <1>5, <1>7, <1>8

LEMMA ChainKeeps == ASSUME KernelInv, NEW d \in Task, ChainTask(d) PROVE KernelInv'
  <1>1. PICK n : n = Handed(d)
    OBVIOUS
  <1>2. PICK at \in [Task -> Context] : at = HandedAt(d)
    BY Handing
  <1>3. /\ d # os.curr /\ os.curr \in Task
        /\ activations[d] + 1 <= activationLimit[d]
        /\ activations' = [activations EXCEPT ![d] = @ + 1, ![os.curr] = Retired]
        /\ CleanEvents(d, os.state[d] = "SUSPENDED")
        /\ Dispatch(n, at)
        /\ UNCHANGED <<resourceHead, pending, intNestCnt>>
    BY <1>1, <1>2, Handing
  <1>4. /\ Sound(n) /\ n.curr = os.curr
        /\ \A t \in Task \ {os.curr, d} : n.state[t] = os.state[t]
        /\ n.state[d] # "SUSPENDED" /\ (n.state[d] = "WAITING" => os.state[d] = "WAITING")
        /\ n.state[os.curr] = "SUSPENDED" => Retired = 0
        /\ n.state[os.curr] # "WAITING"
        /\ Retired \in 0..activationLimit[os.curr]
    BY <1>1, HandedSound DEF Busy
  <1>5. /\ ev_set' \in [Task -> SUBSET Event] /\ ev_wait' \in [Task -> SUBSET Event]
        /\ \A t \in Task : \/ ev_set'[t] = ev_set[t] /\ ev_wait'[t] = ev_wait[t]
                          \/ ev_set'[t] = {}
    <2>1. PICK clean \in BOOLEAN : clean = (os.state[d] = "SUSPENDED")
      OBVIOUS
    <2>2. CleanEvents(d, clean)
      BY <1>3, <2>1
    <2>3. QED BY <2>2, Cleaned
  <1>6. Moved(n)
    BY <1>3, <1>4, Before, ServiceEnds
  <1>7. /\ activations' \in [Task -> Nat] /\ activations'[os.curr] = Retired
        /\ activations'[d] = activations[d] + 1
        /\ \A t \in Task \ {d, os.curr} : activations'[t] = activations[t]
        /\ \A t \in Task : activations'[t] <= activationLimit[t]
    <2>1. Retired \in Nat
      BY <1>3, <1>4, Counts
    <2>2. /\ activations' \in [Task -> Nat] /\ activations'[os.curr] = Retired
          /\ activations'[d] = activations[d] + 1
          /\ \A t \in Task \ {d, os.curr} : activations'[t] = activations[t]
      BY <1>3, <2>1, Counts
    <2>3. QED BY <1>3, <1>4, <2>1, <2>2, Counts
  <1>8. \A t \in Task : n.state[t] = "SUSPENDED" => activations'[t] = 0
    BY <1>4, <1>7, Counts
  <1>9. \A t \in Task : n.state[t] = "WAITING" => ev_set'[t] \cap ev_wait'[t] = {}
    <2>1. \A t \in Task : n.state[t] = "WAITING" => os.state[t] = "WAITING"
      BY <1>4
    <2>2. QED BY <2>1, <1>5, Before
  <1>10. QED BY <1>3, <1>5, <1>6, <1>7, <1>8, <1>9, Untouched, InvKept

\* A service that begins and ends no activation and no wait.
LEMMA PlainKeeps ==
    ASSUME KernelInv, NEW k, Sound(k), k.curr = os.curr,
           NEW at \in [Task -> Context],
           Dispatch(k, at) \/ (Continue(k, at) /\ k.state[k.curr] = "RUNNING"),
           \A t \in Task : k.state[t] \in {"SUSPENDED", "WAITING"} => os.state[t] = k.state[t],
           UNCHANGED <<activations, pending, intNestCnt, ev_wait>>,
           resourceHead' \in [Task -> Seq(AnyResource)],
           ev_set' \in [Task -> SUBSET Event],
           \A t \in Task : k.state[t] = "WAITING" => ev_set'[t] \cap ev_wait[t] = {}
    PROVE  KernelInv'
  <1>1. Moved(k)
    BY Before, ServiceEnds
  <1>2. \A t \in Task : k.state[t] = "SUSPENDED" => activations'[t] = 0
    BY Counts
  <1>3. ev_wait' \in [Task -> SUBSET Event] /\ activations' \in [Task -> Nat]
        /\ \A t \in Task : activations'[t] <= activationLimit[t]
    BY Before, Counts
  <1>4. \A t \in Task : k.state[t] = "WAITING" => ev_set'[t] \cap ev_wait'[t] = {}
    OBVIOUS
  <1>5. QED BY <1>1, <1>2, <1>3, <1>4, Untouched, InvKept

LEMMA CurrPreempted ==
    ASSUME NEW k, Sound(k), k.state[k.curr] = "RUNNING", NEW n, n = RunningToReady(k, k.curr)
    PROVE  /\ Sound(n) /\ n.curr = k.curr /\ SamePriorities(n, k)
           /\ \A t \in Task : n.state[t] \in {"SUSPENDED", "WAITING"} => k.state[t] = n.state[t]
  <1>1. k.curr \in Task /\ k.state[k.curr] \in Busy
    BY FieldsTyped DEF Sound, Busy
  <1>2. /\ Sound(n) /\ n.curr = k.curr /\ SamePriorities(n, k)
        /\ n.state[k.curr] \in Busy /\ \A u \in Task \ {k.curr} : n.state[u] = k.state[u]
    BY <1>1, StillReady
  <1>3. QED BY <1>1, <1>2 DEF Busy

LEMMA ChainSelfKeeps == ASSUME KernelInv, ChainSelf PROVE KernelInv'
  <1>1. /\ Dispatch(os, From("ChainTask"))
        /\ UNCHANGED <<activations, ev_set, ev_wait, resourceHead, pending, intNestCnt>>
    BY DEF ChainSelf
  <1>2. From("ChainTask") \in [Task -> Context]
    BY PlaceTyped DEF Context
  <1>3. Sound(os)
    BY DEF KernelInv
  <1>4. QED BY <1>1, <1>2, <1>3, Before, Untouched, PlainKeeps

LEMMA ScheduleKeeps == ASSUME KernelInv, Schedule PROVE KernelInv'
  <1>1. PICK k : k = RunningToReady(os, os.curr)
    OBVIOUS
  <1>2. /\ Dispatch(k, From("body"))
        /\ UNCHANGED <<activations, ev_set, ev_wait, resourceHead, pending, intNestCnt>>
    BY <1>1 DEF Schedule, curr
  <1>3. From("body") \in [Task -> Context]
    BY PlaceTyped DEF Context
  <1>4. /\ Sound(k) /\ k.curr = os.curr
        /\ \A t \in Task : k.state[t] \in {"SUSPENDED", "WAITING"} => os.state[t] = k.state[t]
    BY <1>1, CurrPreempted DEF KernelInv
  <1>5. \A t \in Task : k.state[t] = "WAITING" => ev_set'[t] \cap ev_wait[t] = {}
    BY <1>2, <1>4, Before
  <1>6. QED BY <1>2, <1>3, <1>4, <1>5, Untouched, PlainKeeps

\* An event set wakes its task if the task waits for it (os_event.c:133-170).
LEMMA BitsKeep ==
    ASSUME KernelInv, NEW d \in Task, NEW m \in SUBSET Event, SetBits(d, m)
    PROVE  KernelInv'
  <1> DEFINE wakes == os.state[d] = "WAITING" /\ m \cap ev_wait[d] # {}
             k == IF wakes THEN MakeReady(os, d) ELSE os
  <1>1. /\ ev_set' = [ev_set EXCEPT ![d] = @ \cup m]
        /\ \/ halted' = TRUE /\ UNCHANGED <<os, context>> /\ ~wakes
           \/ Dispatch(RunningToReady(k, os.curr), From("body"))
           \/ Continue(k, From("body"))
        /\ UNCHANGED <<activations, ev_wait, resourceHead, pending, intNestCnt>>
    BY DEF SetBits, curr
  <1>2. /\ Sound(k) /\ k.curr = os.curr /\ k.state[os.curr] = "RUNNING"
        /\ \A t \in Task : k.state[t] \in {"SUSPENDED", "WAITING"} => os.state[t] = k.state[t]
        /\ k.state[d] = "WAITING" => m \cap ev_wait[d] = {}
    <2>1. CASE wakes
      <3>1. /\ Sound(k) /\ k.curr = os.curr
            /\ k.state[d] \in Busy /\ \A u \in Task \ {d} : k.state[u] = os.state[u]
        BY <2>1, MadeReady DEF KernelInv
      <3>2. os.curr # d /\ os.curr \in Task
        BY <2>1, Before DEF KernelInv
      <3>3. QED BY <3>1, <3>2 DEF KernelInv, Busy
    <2>2. CASE ~wakes
      BY <2>2 DEF KernelInv
    <2>3. QED BY <2>1, <2>2
  <1>3. /\ ev_set' \in [Task -> SUBSET Event]
        /\ ev_set'[d] = ev_set[d] \cup m /\ \A t \in Task \ {d} : ev_set'[t] = ev_set[t]
    BY <1>1, Before
  <1>4. \A t \in Task : k.state[t] = "WAITING" => ev_set'[t] \cap ev_wait[t] = {}
    BY <1>2, <1>3, Before
  <1>5. From("body") \in [Task -> Context]
    BY PlaceTyped DEF Context
  <1>6. CASE halted' = TRUE /\ UNCHANGED <<os, context>> /\ ~wakes
    <2>1. Moved(os)
      BY <1>6, Before DEF Moved, KernelInv, SameRest
    <2>2. \A t \in Task : os.state[t] = "WAITING" => ev_set'[t] \cap ev_wait'[t] = {}
      BY <1>1, <1>4, <1>6
    <2>3. ev_wait' \in [Task -> SUBSET Event]
      BY <1>1, Before
    <2>4. QED BY <1>1, <1>3, <2>1, <2>2, <2>3, Counts, Untouched, InvKept
  <1> HIDE DEF k, wakes
  <1>7. CASE Continue(k, From("body"))
    <2>1. k.state[k.curr] = "RUNNING" /\ resourceHead' \in [Task -> Seq(AnyResource)]
      BY <1>1, <1>2, Before
    <2>2. QED BY <1>1, <1>2, <1>3, <1>4, <1>5, <1>7, <2>1, PlainKeeps
  <1>8. CASE Dispatch(RunningToReady(k, os.curr), From("body"))
    <2>1. PICK n : n = RunningToReady(k, os.curr)
      OBVIOUS
    <2>2. /\ Sound(n) /\ n.curr = os.curr
          /\ \A t \in Task : n.state[t] \in {"SUSPENDED", "WAITING"} => k.state[t] = n.state[t]
      BY <1>2, <2>1, CurrPreempted
    <2>3. /\ \A t \in Task : n.state[t] \in {"SUSPENDED", "WAITING"} => os.state[t] = n.state[t]
          /\ \A t \in Task : n.state[t] = "WAITING" => ev_set'[t] \cap ev_wait[t] = {}
      BY <1>2, <1>4, <2>2
    <2>4. QED BY <1>1, <1>3, <1>5, <1>8, <2>1, <2>2, <2>3, Untouched, PlainKeeps
  <1>9. QED BY <1>1, <1>6, <1>7, <1>8

LEMMA SetEventKeeps == ASSUME KernelInv, SetEvent PROVE KernelInv'
  <1>1. pending[os.curr].dest \in Task /\ pending[os.curr].mask \in SUBSET Event
    BY Before
  <1>2. SetBits(pending[os.curr].dest, pending[os.curr].mask)
    BY DEF SetEvent, curr
  <1>3. QED BY <1>1, <1>2, BitsKeep

LEMMA ValidatedKeeps ==
    ASSUME KernelInv, NEW d \in Task, NEW m \in Mask, SetEventValidated(d, m)
    PROVE  KernelInv'
  <1>1. /\ pending' = [pending EXCEPT ![os.curr] = [dest |-> d, mask |-> m]]
        /\ context' = From("SetEvent")
        /\ UNCHANGED <<os, activations, ev_set, ev_wait, resourceHead, intNestCnt, halted>>
    BY DEF SetEventValidated, curr
  <1>2. context' \in [Task -> Context]
    BY <1>1, PlaceTyped DEF Context
  <1>3. Moved(os)
    BY <1>1, <1>2, Before DEF Moved, KernelInv, SameRest
  <1>4. pending' \in [Task -> [dest : Task, mask : SUBSET Event]]
    <2>1. [dest |-> d, mask |-> m] \in [dest : Task, mask : SUBSET Event]
      BY DEF Mask
    <2>2. QED BY <1>1, <2>1, Before
  <1>5. QED BY <1>1, <1>3, <1>4, Before, Counts, InvKept

LEMMA ClearKeeps ==
    ASSUME KernelInv, NEW m \in Mask, ClearEvent(m)
    PROVE  KernelInv'
  <1>1. /\ ev_set' = [ev_set EXCEPT ![os.curr] = @ \ m]
        /\ Continue(os, From("body"))
        /\ UNCHANGED <<activations, ev_wait, resourceHead, pending, intNestCnt>>
    BY DEF ClearEvent, Continue, curr
  <1>2. From("body") \in [Task -> Context]
    BY PlaceTyped DEF Context
  <1>3. /\ ev_set' \in [Task -> SUBSET Event]
        /\ \A t \in Task : ev_set'[t] \subseteq ev_set[t]
    BY <1>1, Before
  <1>4. \A t \in Task : os.state[t] = "WAITING" => ev_set'[t] \cap ev_wait[t] = {}
    BY <1>3, Before
  <1>5. Sound(os) /\ os.state[os.curr] = "RUNNING"
    BY DEF KernelInv
  <1>6. QED BY <1>1, <1>2, <1>3, <1>4, <1>5, Untouched, PlainKeeps

\* A task waits only for events of which none is set (os_event.c:57-66).
LEMMA WaitKeeps ==
    ASSUME KernelInv, NEW m \in Mask, WaitEvent(m)
    PROVE  KernelInv'
  <1>1. /\ UNCHANGED <<activations, ev_set, resourceHead, pending, intNestCnt>>
        /\ Calls[os.curr] # {}
        /\ \/ Continue(os, From("body")) /\ UNCHANGED ev_wait
           \/ /\ ev_set[os.curr] \cap m = {}
              /\ ev_wait' = [ev_wait EXCEPT ![os.curr] = m]
              /\ Dispatch(Unlist(os, os.curr, "WAITING"), From("body"))
    BY DEF WaitEvent, Calling, curr
  <1>2. From("body") \in [Task -> Context]
    BY PlaceTyped DEF Context
  <1>3. Sound(os) /\ os.state[os.curr] = "RUNNING" /\ os.curr \in Task /\ os.curr # Idle
    BY <1>1, Before, IdleTask DEF KernelInv
  <1>4. CASE Continue(os, From("body")) /\ UNCHANGED ev_wait
    BY <1>1, <1>2, <1>3, <1>4, Before, Untouched, PlainKeeps
  <1>5. CASE /\ ev_set[os.curr] \cap m = {}
             /\ ev_wait' = [ev_wait EXCEPT ![os.curr] = m]
             /\ Dispatch(Unlist(os, os.curr, "WAITING"), From("body"))
    <2>1. PICK k : k = Unlist(os, os.curr, "WAITING")
      OBVIOUS
    <2>2. /\ Sound(k) /\ k.curr = os.curr
          /\ k.state[os.curr] = "WAITING" /\ \A u \in Task \ {os.curr} : k.state[u] = os.state[u]
      <3>1. os.state[os.curr] \in Busy
        BY <1>3 DEF Busy
      <3>2. QED BY <1>3, <2>1, <3>1, Unlisted
    <2>3. Moved(k)
      BY <1>2, <1>5, <2>1, <2>2, Before, ServiceEnds
    <2>4. /\ ev_wait' \in [Task -> SUBSET Event] /\ ev_wait'[os.curr] = m
          /\ \A t \in Task \ {os.curr} : ev_wait'[t] = ev_wait[t]
      BY <1>3, <1>5, Before DEF Mask
    <2>5. \A t \in Task : k.state[t] = "WAITING" => ev_set'[t] \cap ev_wait'[t] = {}
      BY <1>1, <1>5, <2>2, <2>4, Before
    <2>6. \A t \in Task : k.state[t] = "SUSPENDED" => activations'[t] = 0
      BY <1>1, <2>2, Counts
    <2>7. QED BY <1>1, <2>3, <2>4, <2>5, <2>6, Before, Counts, Untouched, InvKept
  <1>6. QED BY <1>1, <1>4, <1>5

LEMMA GetKeeps ==
    ASSUME KernelInv, NEW r \in AnyResource, GetResource(r)
    PROVE  KernelInv'
  <1>1. PICK k : k = ResourceAdd(os, r, os.curr)
    OBVIOUS
  <1>2. /\ Continue(k, From("body"))
        /\ resourceHead' = [resourceHead EXCEPT ![os.curr] = Append(@, r)]
        /\ UNCHANGED <<activations, ev_set, ev_wait, pending, intNestCnt>>
    BY <1>1 DEF GetResource, curr
  <1>3. Sound(k) /\ k.curr = os.curr /\ k.state = os.state
    BY <1>1, Before, ResourcesTyped DEF KernelInv
  <1>4. resourceHead' \in [Task -> Seq(AnyResource)]
    <2>1. Append(resourceHead[os.curr], r) \in Seq(AnyResource)
      BY Before
    <2>2. QED BY <1>2, <2>1, Before
  <1>5. From("body") \in [Task -> Context]
    BY PlaceTyped DEF Context
  <1>6. k.state[k.curr] = "RUNNING"
    BY <1>3 DEF KernelInv
  <1>7. QED BY <1>2, <1>3, <1>4, <1>5, <1>6, Before, Untouched, PlainKeeps

LEMMA ReleaseKeeps == ASSUME KernelInv, ReleaseResource PROVE KernelInv'
  <1> DEFINE held == resourceHead[os.curr]
             r == held[Len(held)]
  <1>1. PICK k : k = ResourceRemove(os, r, os.curr)
    OBVIOUS
  <1>2. /\ held # << >>
        /\ resourceHead' = [resourceHead EXCEPT ![os.curr] = SubSeq(held, 1, Len(held) - 1)]
        /\ \/ Dispatch(RunningToReady(k, os.curr), From("body"))
           \/ Continue(k, From("body"))
        /\ UNCHANGED <<activations, ev_set, ev_wait, pending, intNestCnt>>
    BY <1>1 DEF ReleaseResource, curr
  <1>3. held \in Seq(AnyResource)
    BY Before
  <1>4. r \in AnyResource /\ SubSeq(held, 1, Len(held) - 1) \in Seq(AnyResource)
    BY <1>2, <1>3
  <1>5. resourceHead' \in [Task -> Seq(AnyResource)]
    <2> HIDE DEF held
    <2>1. QED BY <1>2, <1>4, Before
  <1> HIDE DEF held, r
  <1>6. Sound(k) /\ k.curr = os.curr /\ k.state = os.state
    BY <1>1, <1>4, Before, ResourcesTyped DEF KernelInv
  <1>7. From("body") \in [Task -> Context]
    BY PlaceTyped DEF Context
  <1>8. k.state[k.curr] = "RUNNING"
    BY <1>6 DEF KernelInv
  <1>9. CASE Continue(k, From("body"))
    BY <1>2, <1>5, <1>6, <1>7, <1>8, <1>9, Before, Untouched, PlainKeeps
  <1>10. CASE Dispatch(RunningToReady(k, os.curr), From("body"))
    <2>1. PICK n : n = RunningToReady(k, os.curr)
      OBVIOUS
    <2>2. /\ Sound(n) /\ n.curr = os.curr
          /\ \A t \in Task : n.state[t] \in {"SUSPENDED", "WAITING"} => os.state[t] = n.state[t]
      BY <1>6, <1>8, <2>1, CurrPreempted
    <2>3. \A t \in Task : n.state[t] = "WAITING" => ev_set'[t] \cap ev_wait[t] = {}
      BY <1>2, <2>2, Before
    <2>4. QED BY <1>2, <1>5, <1>7, <1>10, <2>1, <2>2, <2>3, Before, Untouched, PlainKeeps
  <1>11. QED BY <1>2, <1>9, <1>10

LEMMA EnterKeeps == ASSUME KernelInv, EnterIsr PROVE KernelInv'
  <1>1. /\ intNestCnt < IsrNesting /\ intNestCnt' = intNestCnt + 1
        /\ UNCHANGED <<os, activations, ev_set, ev_wait, resourceHead, context, pending, halted>>
    BY DEF EnterIsr
  <1>2. Moved(os)
    BY <1>1, Before DEF Moved, KernelInv, SameRest
  <1>3. intNestCnt' \in 0..IsrNesting
    BY <1>1, Before, KernelAssumption
  <1>4. QED BY <1>1, <1>2, <1>3, Before, Counts, InvKept

\* The interrupted task, or the top one, is swapped in anew (os_isr.c:237-266).
LEMMA LeaveKeeps == ASSUME KernelInv, LeaveIsr PROVE KernelInv'
  <1>1. /\ intNestCnt > 0 /\ intNestCnt' = intNestCnt - 1
        /\ os' = IF intNestCnt = 1 THEN TailChaining(RunningToReady(os, os.curr)) ELSE os
        /\ UNCHANGED <<activations, ev_set, ev_wait, resourceHead, context, pending>>
    BY DEF LeaveIsr, curr
  <1>2. halted' \in BOOLEAN
    BY Zenon DEF LeaveIsr
  <1>3. intNestCnt' \in 0..IsrNesting
    BY <1>1, Before, KernelAssumption
  <1>4. PICK k : k = RunningToReady(os, os.curr)
    OBVIOUS
  <1>5. /\ Sound(k) /\ k.curr = os.curr
        /\ \A t \in Task : k.state[t] \in {"SUSPENDED", "WAITING"} => os.state[t] = k.state[t]
    BY <1>4, CurrPreempted DEF KernelInv
  <1>6. k.state[k.curr] \in Busy
    <2>1. os.state[os.curr] \in Busy /\ Sound(os) /\ os.curr \in Task
      BY Before DEF KernelInv, Busy
    <2>2. QED BY <1>4, <1>5, <2>1, StillReady
  <1>7. CASE intNestCnt = 1
    <2>1. PICK t \in {k.curr, TaskGetTop(k)} : os' = SwapTo(k, t)
      BY <1>1, <1>4, <1>7 DEF TailChaining
    <2>2. t \in Task /\ k.state[t] \in Busy
      BY <1>5, <1>6, Before, TopOfList
    <2>3. Sound(os') /\ os'.curr = t /\ os'.state[t] = "RUNNING" /\ SameRest(os', k)
      BY <1>5, <2>1, <2>2, Swapped
    <2>4. Moved(k)
      BY <1>1, <1>2, <2>3, Before DEF Moved
    <2>5. \A u \in Task : k.state[u] = "SUSPENDED" => activations'[u] = 0
      BY <1>1, <1>5, Counts
    <2>6. \A u \in Task : k.state[u] = "WAITING" => ev_set'[u] \cap ev_wait'[u] = {}
      BY <1>1, <1>5, Before
    <2>7. QED BY <1>1, <1>3, <2>4, <2>5, <2>6, Before, Counts, InvKept
  <1>8. CASE intNestCnt # 1
    <2>1. Moved(os)
      BY <1>1, <1>2, <1>8, Before DEF Moved, KernelInv, SameRest
    <2>2. QED BY <1>1, <1>3, <2>1, Before, Counts, InvKept
  <1>9. QED BY <1>7, <1>8

LEMMA ResourceSplit == RES_SCHEDULER \in AnyResource /\ StandardResource \subseteq AnyResource
  BY DEF AnyResource, StandardResource

LEMMA StepKeeps == ASSUME KernelInv, ObservedNext PROVE KernelInv'
  <1>1. ASSUME NEW d \in Task, ActivateTask(d) \/ ChainTask(d) PROVE KernelInv'
    BY <1>1, ActivateKeeps, ChainKeeps
  <1>2. CASE TerminateTask \/ Return \/ ChainSelf \/ Schedule
    BY <1>2, TerminateKeeps, ReturnKeeps, ChainSelfKeeps, ScheduleKeeps
  <1>3. ASSUME NEW d \in Task, NEW m \in Mask, SetEventValidated(d, m) PROVE KernelInv'
    BY <1>3, ValidatedKeeps
  <1>4. CASE SetEvent \/ ReleaseResource
    BY <1>4, SetEventKeeps, ReleaseKeeps
  <1>5. ASSUME NEW m \in Mask, ClearEvent(m) \/ WaitEvent(m) PROVE KernelInv'
    BY <1>5, ClearKeeps, WaitKeeps
  <1>6. ASSUME NEW r \in StandardResource \cup {RES_SCHEDULER}, GetResource(r) PROVE KernelInv'
    BY <1>6, ResourceSplit, GetKeeps
  <1>7. CASE Interrupt
    <2>1. ASSUME NEW d \in Task, NEW m \in Mask, IsrSetEvent(d, m) PROVE KernelInv'
      BY <2>1, BitsKeep DEF IsrSetEvent, Mask
    <2>2. QED BY <1>7, <2>1, EnterKeeps, LeaveKeeps DEF Interrupt
  <1>8. QED
    BY ObservedNext, <1>1, <1>2, <1>3, <1>4, <1>5, <1>6, <1>7, Zenon DEF ObservedNext

LEMMA StutterKeeps == ASSUME KernelInv, UNCHANGED observedVars PROVE KernelInv'
  BY DEF observedVars, vars, KernelInv, TypeOK, Sound, Exact, Idle, NoLostWakeup

\* The tasks that start with the system (os_init.c:165-260), seen before any of
\* them runs.
StartStates == [t \in Task |-> IF \E i \in DOMAIN autostart : autostart[i] = t
                              THEN "READY" ELSE "SUSPENDED"]
StartRecord(c) ==
    [state |-> StartStates, ready |-> autostart, prio |-> prio,
     owner |-> [r \in AnyResource |-> None],
     old_task_prio |-> [r \in AnyResource |-> 0], curr |-> c]

LEMMA StartSound ==
    ASSUME NEW k, k = StartRecord(Idle)
    PROVE  /\ Sound(k)
           /\ TaskGetTop(k) = TaskGetTop(AutostartTasks)
           /\ \A t \in Task : SwapTo(k, t) = SwapTo(AutostartTasks, t)
  <1>1. AutostartTasks = StartRecord(None)
    <2>1. AutostartTasks = [AtReset EXCEPT !.ready = autostart, !.state = StartStates]
      BY Zenon DEF AutostartTasks, StartStates
    <2>2. QED BY <2>1 DEF AtReset, StartRecord
  <1>3. ASSUME NEW t \in Task PROVE SwapTo(k, t) = SwapTo(AutostartTasks, t)
    <2>1. [k EXCEPT !.curr = t] = StartRecord(t)
      BY DEF StartRecord
    <2>2. [AutostartTasks EXCEPT !.curr = t] = StartRecord(t)
      BY <1>1 DEF StartRecord
    <2>3. QED BY <2>1, <2>2, Zenon DEF SwapTo
  <1>5. /\ k.ready = autostart /\ AutostartTasks.ready = autostart
        /\ k.prio = prio /\ AutostartTasks.prio = prio
    BY <1>1 DEF StartRecord
  <1>6. TaskGetTop(k) = TaskGetTop(AutostartTasks)
    BY <1>5, Zenon DEF TaskGetTop
  <1>7. /\ StartStates \in [Task -> TaskState]
        /\ \A t \in Task : StartStates[t] \in Busy <=> \E i \in DOMAIN autostart : autostart[i] = t
    BY DEF TaskState, Busy, StartStates
  <1>8. /\ autostart \in Seq(Task) /\ DOMAIN autostart = 1..Len(autostart)
        /\ \A i, j \in 1..Len(autostart) : autostart[i] = autostart[j] => i = j
    <2>1. autostart \in Seq(Task) /\ DOMAIN autostart = 1..Len(autostart)
      BY KernelAssumption
    <2>2. QED BY <2>1, ConfigAssumption
  <1>9. /\ prio \in [Task -> 0..OS_RES_SCHEDULER_PRIO]
        /\ 0 \in 0..OS_RES_SCHEDULER_PRIO
    BY KernelAssumption DEF OS_RES_SCHEDULER_PRIO
  <1>10. /\ k = Fields(k) /\ k.state = StartStates /\ k.curr = Idle
         /\ k.owner = [r \in AnyResource |-> None] /\ k.old_task_prio = [r \in AnyResource |-> 0]
    BY DEF Fields, StartRecord
  <1>11. k \in KernelRecord
    BY <1>5, <1>7, <1>8, <1>9, <1>10, IdleTask, RecordTyped
  <1>12. Exact(k)
    BY <1>5, <1>7, <1>8, <1>10 DEF Exact
  <1>13. k.state[Idle] \in Busy
    BY <1>7, <1>10, IdleTask
  <1>14. QED BY <1>3, <1>6, <1>11, <1>12, <1>13 DEF Sound

StartsFrom(k) ==
    /\ Sound(k) /\ SameRest(os, k) /\ os.curr = TaskGetTop(k)
    /\ k.prio = prio /\ k.owner = [r \in AnyResource |-> None]
    /\ (\A u \in Task : resourceInt[u] = None) => SamePriorities(os, k)

LEMMA StartsSound ==
    ASSUME Init
    PROVE  Sound(os) /\ os.state[os.curr] = "RUNNING" /\ \E k : StartsFrom(k)
  <1>1. PICK k : k = StartRecord(Idle)
    OBVIOUS
  <1>2. Sound(k) /\ TaskGetTop(k) \in Task /\ k.state[TaskGetTop(k)] \in Busy
    BY <1>1, StartSound, TopOfList
  <1>3. os = SwapTo(k, TaskGetTop(k))
    BY <1>1, <1>2, StartSound DEF Init
  <1>4. /\ Sound(os) /\ os.curr = TaskGetTop(k) /\ os.state[os.curr] = "RUNNING" /\ SameRest(os, k)
        /\ (\A u \in Task : resourceInt[u] = None) => SamePriorities(os, k)
    BY <1>2, <1>3, Swapped
  <1>5. k.prio = prio /\ k.owner = [r \in AnyResource |-> None]
    BY <1>1 DEF StartRecord
  <1>6. StartsFrom(k)
    BY <1>2, <1>4, <1>5 DEF StartsFrom
  <1>7. QED BY <1>4, <1>6

LEMMA StartKeeps == ASSUME Init PROVE KernelInv
  <1>1. Sound(os) /\ os \in KernelRecord /\ os.state[os.curr] = "RUNNING" /\ os.curr \in Task
    BY StartsSound, FieldsTyped DEF Sound
  <1>2. /\ activations = [t \in Task |-> IF t = os.curr THEN 1 ELSE 0]
        /\ ev_set = [t \in Task |-> {}] /\ ev_wait = [t \in Task |-> {}]
        /\ resourceHead = [t \in Task |-> << >>]
        /\ context = [t \in Task |-> "entry"]
        /\ pending = [t \in Task |-> [dest |-> t, mask |-> {}]]
        /\ intNestCnt = 0 /\ halted = FALSE
    BY DEF Init
  <1>3. /\ activations \in [Task -> Nat]
        /\ \A t \in Task : activations[t] \in 0..activationLimit[t]
        /\ \A t \in Task : os.state[t] = "SUSPENDED" => activations[t] = 0
    BY <1>1, <1>2, KernelAssumption
  <1>4. /\ ev_set \in [Task -> SUBSET Event] /\ ev_wait \in [Task -> SUBSET Event]
        /\ context \in [Task -> Context] /\ intNestCnt \in 0..IsrNesting /\ halted \in BOOLEAN
    <2>1. /\ ev_set \in [Task -> SUBSET Event] /\ ev_wait \in [Task -> SUBSET Event]
          /\ context \in [Task -> Context]
      BY <1>2 DEF Context
    <2>2. intNestCnt \in 0..IsrNesting
      BY <1>2, KernelAssumption
    <2>3. halted \in BOOLEAN
      BY <1>2
    <2>4. QED BY <2>1, <2>2, <2>3
  <1>5. resourceHead \in [Task -> Seq(AnyResource)]
    BY <1>2, EmptySeq
  <1>6. pending \in [Task -> [dest : Task, mask : SUBSET Event]]
    <2>1. \A t \in Task : [dest |-> t, mask |-> {}] \in [dest : Task, mask : SUBSET Event]
      OBVIOUS
    <2>2. QED BY <1>2, <2>1
  <1>7. NoLostWakeup
    BY <1>2 DEF NoLostWakeup
  <1>8. QED BY <1>1, <1>3, <1>4, <1>5, <1>6, <1>7 DEF KernelInv, TypeOK, KernelRecord

LEMMA KernelInvariant == ObservedSpec => []KernelInv
  <1>1. ObservedInit => KernelInv
    BY StartKeeps DEF ObservedInit
  <1>2. KernelInv /\ [ObservedNext]_observedVars => KernelInv'
    BY StepKeeps, StutterKeeps
  <1>3. QED BY <1>1, <1>2, PTL DEF ObservedSpec

-----------------------------------------------------------------------------

\* The kernel keeps its types: no activation is counted beyond its limit, and the
\* dispatcher always finds a task.
THEOREM KernelTyped == ObservedSpec => []TypeOK
  <1>1. KernelInv => TypeOK
    BY DEF KernelInv
  <1>2. QED BY <1>1, KernelInvariant, PTL

\* The ready list holds each ready or running task once and no other, whatever
\* services, interrupts and restarts come (os_task.c:43-98).
THEOREM ListExact == ObservedSpec => []ReadyListExact
  <1>1. KernelInv => ReadyListExact
    <2> SUFFICES ASSUME KernelInv PROVE ReadyListExact
      OBVIOUS
    <2> DEFINE size == Len(os.ready)
               place == [i \in 1..size |-> os.ready[i]]
    <2>1. /\ Exact(os) /\ os.ready \in Seq(Task) /\ size \in Nat /\ DOMAIN os.ready = 1..size
          /\ \A i \in 1..size : os.ready[i] \in Task
      BY FieldsTyped DEF KernelInv, Sound
    <2>2. Listed(os) = {t \in Task : os.state[t] \in {"READY", "RUNNING"}}
      BY <2>1 DEF Listed, Exact, Busy
    <2>3. place \in Bijection(1..size, Listed(os))
      <3>1. place \in [1..size -> Listed(os)]
        BY <2>1 DEF Listed
      <3>2. \A i, j \in 1..size : place[i] = place[j] => i = j
        BY <2>1 DEF Exact
      <3>3. \A t \in Listed(os) : \E i \in 1..size : place[i] = t
        BY <2>1 DEF Listed
      <3>4. QED BY <3>1, <3>2, <3>3 DEF Bijection, Injection, Surjection, IsInjective
    <2>4. IsFiniteSet(1..size) /\ Cardinality(1..size) = size
      BY <2>1, FS_Interval
    <2>5. Cardinality(Listed(os)) = size
      BY <2>3, <2>4, FS_Bijection DEF ExistsBijection
    <2>6. QED BY <2>2, <2>5 DEF ReadyListExact
  <1>2. QED BY <1>1, KernelInvariant, PTL

\* No task waits for an event that is set (os_event.c:57-66, 133-170), however
\* interrupts set and tasks clear events.
THEOREM WakeupsArrive == ObservedSpec => []NoLostWakeup
  <1>1. KernelInv => NoLostWakeup
    BY DEF KernelInv
  <1>2. QED BY <1>1, KernelInvariant, PTL

-----------------------------------------------------------------------------
(* Priorities, for systems without internal resources, such as pwc, whose   *)
(* tasks have none (Os_Cfg.c).                                              *)

NoInternal == \A u \in Task : resourceInt[u] = None

\* The priority a task has with only the first i of what it holds.
Level(held, t, i) == IF i = 0 THEN prio[t] ELSE ceiling_priority[held[i]]

\* t holds these, its priority is the ceiling of the last, and each has saved the
\* priority from before.
Holds(k, held, t) ==
    /\ k.prio[t] = Level(held, t, Len(held))
    /\ \A i \in 1..Len(held) :
          k.owner[held[i]] = t /\ k.old_task_prio[held[i]] = Level(held, t, i - 1)
    /\ \A i, j \in 1..Len(held) : held[i] = held[j] => i = j

LEMMA HoldsOn ==
    ASSUME NEW k, NEW n, NEW held, NEW t, Holds(k, held, t), n.prio[t] = k.prio[t],
           \A i \in 1..Len(held) : n.owner[held[i]] = k.owner[held[i]],
           \A i \in 1..Len(held) : n.old_task_prio[held[i]] = k.old_task_prio[held[i]]
    PROVE  Holds(n, held, t)
  BY DEF Holds

\* What a resource is taken by, and given back by, does to the fields.
LEMMA ResourceAdded ==
    ASSUME NEW k \in KernelRecord, NEW c \in Task, NEW r \in AnyResource,
           NEW n, n = ResourceAdd(k, r, c)
    PROVE  /\ n.prio[c] = ceiling_priority[r] /\ \A t \in Task \ {c} : n.prio[t] = k.prio[t]
           /\ n.owner[r] = c /\ \A s \in AnyResource \ {r} : n.owner[s] = k.owner[s]
           /\ n.old_task_prio[r] = k.prio[c]
           /\ \A s \in AnyResource \ {r} : n.old_task_prio[s] = k.old_task_prio[s]
  <1>1. /\ n.prio = [k.prio EXCEPT ![c] = ceiling_priority[r]]
        /\ n.owner = [k.owner EXCEPT ![r] = c]
        /\ n.old_task_prio = [k.old_task_prio EXCEPT ![r] = k.prio[c]]
    BY DEF ResourceAdd, KernelRecord
  <1>2. QED BY <1>1, FieldsTyped

LEMMA ResourceRemoved ==
    ASSUME NEW k \in KernelRecord, NEW c \in Task, NEW r \in AnyResource,
           NEW n, n = ResourceRemove(k, r, c)
    PROVE  /\ n.prio[c] = k.old_task_prio[r] /\ \A t \in Task \ {c} : n.prio[t] = k.prio[t]
           /\ n.owner[r] = None /\ \A s \in AnyResource \ {r} : n.owner[s] = k.owner[s]
           /\ n.old_task_prio = k.old_task_prio
  <1>1. /\ n.prio = [k.prio EXCEPT ![c] = k.old_task_prio[r]]
        /\ n.owner = [k.owner EXCEPT ![r] = None]
        /\ n.old_task_prio = k.old_task_prio
    BY DEF ResourceRemove, KernelRecord
  <1>2. QED BY <1>1, FieldsTyped

\* What another task holds is not touched.
OnlyOf(n, k, r) ==
    /\ \A s \in AnyResource \ {r} : n.owner[s] = k.owner[s]
    /\ \A s \in AnyResource \ {r} : n.old_task_prio[s] = k.old_task_prio[s]

Without(held, r) == held \in Seq(AnyResource) /\ \A i \in 1..Len(held) : held[i] # r

LEMMA OthersHold ==
    ASSUME NEW k, NEW n, NEW t, NEW held, NEW r,
           Holds(k, held, t), Without(held, r), OnlyOf(n, k, r), n.prio[t] = k.prio[t]
    PROVE  Holds(n, held, t)
  <1>1. \A i \in 1..Len(held) : held[i] \in AnyResource \ {r}
    BY DEF Without
  <1>2. QED BY <1>1, HoldsOn DEF OnlyOf

LEMMA HoldsMore ==
    ASSUME NEW k \in KernelRecord, NEW c \in Task, NEW held \in Seq(AnyResource),
           Holds(k, held, c), NEW r \in AnyResource, \A i \in 1..Len(held) : held[i] # r,
           NEW n, n = ResourceAdd(k, r, c), NEW more, more = Append(held, r)
    PROVE  Holds(n, more, c)
  <1>1. /\ n.prio[c] = ceiling_priority[r]
        /\ n.owner[r] = c /\ \A s \in AnyResource \ {r} : n.owner[s] = k.owner[s]
        /\ n.old_task_prio[r] = k.prio[c]
        /\ \A s \in AnyResource \ {r} : n.old_task_prio[s] = k.old_task_prio[s]
    BY ResourceAdded
  <1>2. /\ Len(held) \in Nat /\ Len(more) = Len(held) + 1 /\ more[Len(held) + 1] = r
        /\ \A i \in 1..Len(held) : more[i] = held[i] /\ held[i] \in AnyResource \ {r}
    OBVIOUS
  <1>3. /\ k.prio[c] = Level(held, c, Len(held))
        /\ \A i \in 1..Len(held) : k.owner[held[i]] = c
        /\ \A i \in 1..Len(held) : k.old_task_prio[held[i]] = Level(held, c, i - 1)
        /\ \A i, j \in 1..Len(held) : held[i] = held[j] => i = j
    BY DEF Holds
  <1>4. \A i \in 1..Len(more) : i \in 1..Len(held) \/ i = Len(held) + 1
    BY <1>2
  <1>5. \A i \in 0..Len(held) : Level(more, c, i) = Level(held, c, i)
    BY <1>2 DEF Level
  <1>6. n.prio[c] = Level(more, c, Len(more))
    BY <1>1, <1>2 DEF Level
  <1>7. ASSUME NEW i \in 1..Len(more)
        PROVE  n.owner[more[i]] = c /\ n.old_task_prio[more[i]] = Level(more, c, i - 1)
    <2>1. CASE i \in 1..Len(held)
      <3>1. i - 1 \in 0..Len(held)
        BY <2>1, <1>2
      <3>2. QED BY <1>1, <1>2, <1>3, <1>5, <2>1, <3>1
    <2>2. CASE i = Len(held) + 1
      <3>1. i - 1 = Len(held) /\ Len(held) \in 0..Len(held)
        BY <2>2, <1>2
      <3>2. QED BY <1>1, <1>2, <1>3, <1>5, <2>2, <3>1
    <2>3. QED BY <1>4, <2>1, <2>2
  <1>8. \A i, j \in 1..Len(more) : more[i] = more[j] => i = j
    BY <1>2, <1>3, <1>4
  <1>9. QED BY <1>6, <1>7, <1>8 DEF Holds

Shorter(less, held) ==
    /\ less \in Seq(AnyResource) /\ Len(less) = Len(held) - 1
    /\ \A i \in 1..(Len(held) - 1) : less[i] = held[i]

LEMMA HoldsLess ==
    ASSUME NEW k \in KernelRecord, NEW c \in Task, NEW held \in Seq(AnyResource),
           Holds(k, held, c), held # << >>, NEW r, r = held[Len(held)],
           NEW n, n = ResourceRemove(k, r, c), NEW less, Shorter(less, held)
    PROVE  Holds(n, less, c) /\ r \in AnyResource /\ k.owner[r] = c
  <1>1. /\ Len(held) \in Nat /\ Len(held) >= 1 /\ r \in AnyResource
        /\ \A i \in 1..Len(held) : held[i] \in AnyResource
        /\ Len(less) = Len(held) - 1 /\ \A i \in 1..(Len(held) - 1) : less[i] = held[i]
    BY DEF Shorter
  <1>2. /\ n.prio[c] = k.old_task_prio[r] /\ n.old_task_prio = k.old_task_prio
        /\ \A s \in AnyResource \ {r} : n.owner[s] = k.owner[s]
    BY <1>1, ResourceRemoved
  <1>3. /\ \A i \in 1..Len(held) : k.owner[held[i]] = c
        /\ \A i \in 1..Len(held) : k.old_task_prio[held[i]] = Level(held, c, i - 1)
        /\ \A i, j \in 1..Len(held) : held[i] = held[j] => i = j
    BY DEF Holds
  <1>4. /\ Len(held) \in 1..Len(held)
        /\ \A i \in 1..Len(less) : i \in 1..Len(held) /\ i # Len(held) /\ i - 1 \in 0..Len(less)
        /\ \A i \in 1..Len(less) : less[i] = held[i]
        /\ Len(less) \in 0..Len(less)
    BY <1>1
  <1>5. \A i \in 0..Len(less) : Level(less, c, i) = Level(held, c, i)
    BY <1>1 DEF Level
  <1>6. n.prio[c] = Level(less, c, Len(less))
    <2>1. n.prio[c] = Level(held, c, Len(held) - 1)
      <3>1. k.old_task_prio[held[Len(held)]] = Level(held, c, Len(held) - 1)
        BY <1>3, <1>4
      <3>2. n.prio[c] = k.old_task_prio[held[Len(held)]]
        BY <1>2
      <3>3. QED BY <3>1, <3>2, Zenon
    <2>2. Level(less, c, Len(less)) = Level(held, c, Len(less))
      BY <1>4, <1>5
    <2>3. Len(less) = Len(held) - 1
      BY <1>1
    <2>4. QED BY <2>1, <2>2, <2>3, Zenon
  <1>7. ASSUME NEW i \in 1..Len(less)
        PROVE  n.owner[less[i]] = c /\ n.old_task_prio[less[i]] = Level(less, c, i - 1)
    <2>1. /\ i \in 1..Len(held) /\ less[i] = held[i]
          /\ Level(less, c, i - 1) = Level(held, c, i - 1)
      BY <1>4, <1>5
    <2>2. held[i] \in AnyResource \ {r}
      BY <1>1, <1>3, <1>4, <2>1
    <2>3. n.owner[held[i]] = c
      BY <1>2, <1>3, <2>1, <2>2
    <2>4. n.old_task_prio[held[i]] = Level(held, c, i - 1)
      BY <1>2, <1>3, <2>1
    <2>5. QED BY <2>1, <2>3, <2>4
  <1>8. \A i, j \in 1..Len(less) : less[i] = less[j] => i = j
    BY <1>3, <1>4
  <1>9. Holds(n, less, c)
    BY <1>6, <1>7, <1>8 DEF Holds
  <1>10. QED BY <1>1, <1>3, <1>4, <1>9

-----------------------------------------------------------------------------

\* Nobody above the running task is ready, unless it cannot be preempted.
RunsTop(k) ==
    \/ k.curr \in NonPreemptive \/ k.owner[RES_SCHEDULER] # None
    \/ \A t \in Task : k.state[t] \in Busy => k.prio[t] <= k.prio[k.curr]

Resting == {"SUSPENDED", "WAITING"}

\* What a state of the scheduler and the resources held must agree on.
Agree(k, heads) ==
    /\ \A t \in Task : Holds(k, heads[t], t)
    /\ \A t \in Task : k.state[t] \in Resting => heads[t] = << >>

\* Whoever holds the scheduler resource runs.
PrioInv ==
    /\ KernelInv /\ Agree(os, resourceHead)
    /\ ~halted => os.owner[RES_SCHEDULER] \in {None, os.curr}
    /\ ~halted /\ intNestCnt = 0 => RunsTop(os)

\* The priorities are the same, and who is at rest was.
LEMMA AgreeOn ==
    ASSUME NEW k, NEW n, NEW heads, SamePriorities(n, k), Agree(k, heads),
           \A t \in Task : n.state[t] \in Resting => n.state[t] = k.state[t] \/ heads[t] = << >>
    PROVE  Agree(n, heads)
  <1>1. ASSUME NEW t \in Task PROVE Holds(n, heads[t], t)
    <2>1. n.prio = k.prio /\ n.owner = k.owner /\ n.old_task_prio = k.old_task_prio
      BY DEF SamePriorities
    <2>2. PICK held : held = heads[t]
      OBVIOUS
    <2>3. Holds(k, held, t)
      BY <2>2 DEF Agree
    <2>4. Holds(n, held, t)
      BY <2>1, <2>3, HoldsOn
    <2>5. QED BY <2>2, <2>4
  <1>2. QED BY <1>1 DEF Agree

\* What a dispatch leaves behind.
LEMMA DispatchTops ==
    ASSUME NoInternal, NEW k, Sound(k), NEW heads, Agree(k, heads), NEW n, n = Dispatched(k)
    PROVE  /\ Agree(n, heads) /\ n.owner = k.owner
           /\ \A t \in Task : n.state[t] \in Busy => n.prio[t] <= n.prio[n.curr]
  <1>1. /\ n.curr = TaskGetTop(k) /\ SameRest(n, k) /\ SamePriorities(n, k)
    BY DispatchedSound DEF NoInternal
  <1>2. \A t \in Task : n.state[t] \in Resting => n.state[t] = k.state[t]
    BY <1>1 DEF SameRest, Resting, Busy
  <1>3. \A t \in Task : n.state[t] \in Busy => k.state[t] \in Busy
    BY <1>1 DEF SameRest, Busy
  <1>4. \A t \in Task : n.state[t] \in Busy => n.prio[t] <= n.prio[n.curr]
    BY <1>1, <1>3, TopOfList DEF SamePriorities
  <1>5. Agree(n, heads)
    BY <1>1, <1>2, AgreeOn
  <1>6. QED BY <1>1, <1>4, <1>5 DEF SamePriorities

\* A service that leaves k for what comes after it.
LEMMA PrioKept ==
    ASSUME NoInternal, KernelInv', NEW k, Sound(k), Agree(k, resourceHead'),
           NEW at,
           \/ Dispatch(k, at)
           \/ /\ Continue(k, at) /\ halted' = FALSE
              /\ k.owner[RES_SCHEDULER] \in {None, k.curr}
              /\ intNestCnt' = 0 => RunsTop(k)
    PROVE  PrioInv'
  <1>1. CASE Dispatch(k, at)
    <2>1. PICK n : n = Dispatched(k)
      OBVIOUS
    <2>2. os' = n /\ (~halted' => k.owner[RES_SCHEDULER] = None)
      BY <1>1, <2>1 DEF Dispatch, SchedulerResourceIsFree
    <2>3. /\ Agree(n, resourceHead') /\ n.owner = k.owner
          /\ \A t \in Task : n.state[t] \in Busy => n.prio[t] <= n.prio[n.curr]
      BY <2>1, DispatchTops
    <2>4. Agree(os, resourceHead)'
      BY <2>2, <2>3 DEF Agree, Holds, Level
    <2>5. RunsTop(os)'
      BY <2>2, <2>3 DEF RunsTop
    <2>6. QED BY <2>2, <2>3, <2>4, <2>5 DEF PrioInv
  <1>2. CASE /\ Continue(k, at) /\ halted' = FALSE
             /\ k.owner[RES_SCHEDULER] \in {None, k.curr}
             /\ intNestCnt' = 0 => RunsTop(k)
    <2>1. os' = k
      BY <1>2 DEF Continue
    <2>2. Agree(os, resourceHead)' /\ (intNestCnt' = 0 => RunsTop(os)')
      BY <1>2, <2>1 DEF Agree, Holds, Level, RunsTop
    <2>3. QED BY <1>2, <2>1, <2>2 DEF PrioInv
  <1>3. QED BY <1>1, <1>2

\* A step that leaves the scheduler and the resources alone.
LEMMA PrioSame ==
    ASSUME PrioInv, KernelInv', UNCHANGED <<os, resourceHead>>,
           \/ halted' = TRUE
           \/ halted' = halted /\ (intNestCnt' = 0 => intNestCnt = 0)
    PROVE  PrioInv'
  <1>1. Agree(os, resourceHead)'
    BY DEF PrioInv, Agree, Holds, Level
  <1>2. RunsTop(os) => RunsTop(os)'
    BY DEF RunsTop
  <1>3. QED BY <1>1, <1>2 DEF PrioInv

\* A task that became ready and does not preempt.
LEMMA StaysTop ==
    ASSUME NEW k, Sound(os), Sound(k), k.curr = os.curr, SamePriorities(k, os), RunsTop(os),
           NEW d \in Task, \A t \in Task \ {d} : k.state[t] = os.state[t],
           intNestCnt = 0, ~Preempts(k, d)
    PROVE  RunsTop(k)
  <1>1. k.prio = os.prio /\ k.owner = os.owner
    BY DEF SamePriorities
  <1>2. CASE k.curr \in NonPreemptive \/ k.owner[RES_SCHEDULER] # None
    BY <1>2 DEF RunsTop
  <1>3. CASE ~(k.curr \in NonPreemptive \/ k.owner[RES_SCHEDULER] # None)
    <2>1. \A t \in Task : os.state[t] \in Busy => k.prio[t] <= k.prio[k.curr]
      BY <1>1, <1>3 DEF RunsTop
    <2>2. ~(k.prio[d] > k.prio[k.curr])
      BY <1>3 DEF Preempts, SchedulerResourceIsFree
    <2>3. k.prio[d] \in Int /\ k.prio[k.curr] \in Int
      <3>1. k.prio \in [Task -> 0..OS_RES_SCHEDULER_PRIO] /\ k.curr \in Task
        BY FieldsTyped DEF Sound
      <3>2. QED BY <3>1 DEF OS_RES_SCHEDULER_PRIO
    <2>4. \A t \in Task : k.state[t] \in Busy => k.prio[t] <= k.prio[k.curr]
      BY <2>1, <2>2, <2>3
    <2>5. QED BY <2>4 DEF RunsTop
  <1>4. QED BY <1>2, <1>3

\* What making a task ready changes.
LEMMA ReadyAgrees ==
    ASSUME PrioInv, NEW d \in Task, NEW k, k = os \/ k = MakeReady(os, d)
    PROVE  /\ Sound(k) /\ k.curr = os.curr /\ SamePriorities(k, os) /\ Agree(k, resourceHead)
           /\ \A t \in Task \ {d} : k.state[t] = os.state[t]
           /\ \A t \in Task : k.state[t] \in Resting => k.state[t] = os.state[t]
  <1>1. Sound(os) /\ Agree(os, resourceHead)
    BY DEF PrioInv, KernelInv
  <1>2. /\ Sound(k) /\ k.curr = os.curr /\ SamePriorities(k, os)
        /\ k = os \/ k.state[d] \in Busy
        /\ \A t \in Task \ {d} : k.state[t] = os.state[t]
    <2>1. CASE k = os
      BY <1>1, <2>1 DEF SamePriorities
    <2>2. CASE k = MakeReady(os, d)
      BY <1>1, <2>2, MadeReady
    <2>3. QED BY <2>1, <2>2
  <1>3. \A t \in Task : k.state[t] \in Resting => k.state[t] = os.state[t]
    BY <1>2 DEF Resting, Busy
  <1>4. Agree(k, resourceHead)
    BY <1>1, <1>2, <1>3, AgreeOn
  <1>5. QED BY <1>2, <1>3, <1>4

LEMMA ActivatePrio ==
    ASSUME NoInternal, PrioInv, NEW d \in Task, ActivateTask(d)
    PROVE  PrioInv'
  <1>1. PICK k : k = IF os.state[d] = "SUSPENDED" THEN MakeReady(os, d) ELSE os
    OBVIOUS
  <1>2. PICK at : at = IF os.state[d] = "SUSPENDED" THEN [From("body") EXCEPT ![d] = "entry"]
                       ELSE From("body")
    OBVIOUS
  <1>3. /\ halted = FALSE /\ UNCHANGED <<resourceHead, intNestCnt>>
        /\ \/ Dispatch(k, at)
           \/ Continue(k, at) /\ ~Preempts(k, d)
    BY <1>1, <1>2, Before DEF ActivateTask, Calling, InIsr, PrioInv
  <1>4. /\ Sound(os) /\ Sound(k) /\ k.curr = os.curr /\ SamePriorities(k, os)
        /\ Agree(k, resourceHead) /\ \A t \in Task \ {d} : k.state[t] = os.state[t]
    BY <1>1, ReadyAgrees DEF PrioInv, KernelInv
  <1>5. Agree(k, resourceHead')
    BY <1>3, <1>4 DEF Agree
  <1>6. KernelInv'
    BY ActivateKeeps DEF PrioInv
  <1>7. CASE Dispatch(k, at)
    BY <1>4, <1>5, <1>6, <1>7, PrioKept
  <1>8. CASE Continue(k, at) /\ ~Preempts(k, d)
    <2>1. halted' = FALSE /\ k.owner[RES_SCHEDULER] \in {None, k.curr}
      BY <1>3, <1>4, <1>8 DEF Continue, PrioInv, SamePriorities
    <2>2. intNestCnt' = 0 => RunsTop(k)
      BY <1>3, <1>4, <1>8, StaysTop DEF PrioInv
    <2>3. QED BY <1>4, <1>5, <1>6, <1>8, <2>1, <2>2, PrioKept
  <1>9. QED BY <1>3, <1>7, <1>8

LEMMA BitsPrio ==
    ASSUME NoInternal, PrioInv, ~halted, NEW d \in Task, NEW m \in SUBSET Event, SetBits(d, m)
    PROVE  PrioInv'
  <1>1. PICK k : k = IF os.state[d] = "WAITING" /\ m \cap ev_wait[d] # {} THEN MakeReady(os, d)
                     ELSE os
    OBVIOUS
  <1>2. /\ UNCHANGED <<resourceHead, intNestCnt>>
        /\ \/ halted' = TRUE /\ UNCHANGED <<os, context>>
           \/ Dispatch(RunningToReady(k, os.curr), From("body"))
           \/ Continue(k, From("body")) /\ (k = os \/ ~Preempts(k, d))
    BY <1>1 DEF SetBits, curr
  <1>3. /\ Sound(os) /\ Sound(k) /\ k.curr = os.curr /\ SamePriorities(k, os)
        /\ Agree(k, resourceHead) /\ \A t \in Task \ {d} : k.state[t] = os.state[t]
        /\ \A t \in Task : k.state[t] \in Resting => k.state[t] = os.state[t]
    BY <1>1, ReadyAgrees DEF PrioInv, KernelInv
  <1>4. Agree(k, resourceHead')
    BY <1>2, <1>3 DEF Agree
  <1>5. KernelInv'
    BY BitsKeep DEF PrioInv
  <1>6. CASE halted' = TRUE /\ UNCHANGED <<os, context>>
    BY <1>2, <1>5, <1>6, PrioSame
  <1>7. CASE Continue(k, From("body")) /\ (k = os \/ ~Preempts(k, d))
    <2>1. halted = FALSE /\ halted' = FALSE /\ k.owner[RES_SCHEDULER] \in {None, k.curr}
      BY <1>3, <1>7, Before DEF Continue, PrioInv, SamePriorities
    <2>2. intNestCnt' = 0 => RunsTop(k)
      BY <1>2, <1>3, <1>7, <2>1, StaysTop DEF PrioInv
    <2>3. QED BY <1>3, <1>4, <1>5, <1>7, <2>1, <2>2, PrioKept
  <1>8. CASE Dispatch(RunningToReady(k, os.curr), From("body"))
    <2>1. PICK n : n = RunningToReady(k, k.curr)
      OBVIOUS
    <2>2. k.state[k.curr] = "RUNNING"
      <3>1. os.state[os.curr] = "RUNNING" /\ os.curr \in Task
        BY Before DEF PrioInv, KernelInv
      <3>2. CASE os.curr # d
        BY <1>3, <3>1, <3>2
      <3>3. CASE os.curr = d
        BY <1>1, <1>3, <3>1, <3>3
      <3>4. QED BY <3>2, <3>3
    <2>3. /\ Sound(n) /\ SamePriorities(n, k)
          /\ \A t \in Task : n.state[t] \in {"SUSPENDED", "WAITING"} => k.state[t] = n.state[t]
      BY <1>3, <2>1, <2>2, CurrPreempted
    <2>4. Agree(n, resourceHead')
      BY <1>4, <2>3, AgreeOn DEF Resting
    <2>5. QED BY <1>3, <1>5, <1>8, <2>1, <2>3, <2>4, PrioKept
  <1>9. QED BY <1>2, <1>6, <1>7, <1>8

\* The running task ends an activation, or waits: it holds nothing then.
LEMMA LeavesAgree ==
    ASSUME NEW k, NEW n, NEW heads, NEW c \in Task, Agree(k, heads), heads[c] = << >>,
           SamePriorities(n, k), \A t \in Task \ {c} : n.state[t] = k.state[t]
    PROVE  Agree(n, heads)
  BY AgreeOn

LEMMA RetirePrio ==
    ASSUME NoInternal, PrioInv, KernelInv', NEW k, Sound(k), k.curr = os.curr,
           k.state = os.state, Calls[os.curr] # {}, Agree(k, resourceHead'),
           resourceHead'[os.curr] = << >>, Dispatch(Retire(k), From("TerminateTask"))
    PROVE  PrioInv'
  <1>1. PICK n : n = Retire(k)
    OBVIOUS
  <1>2. /\ Sound(n) /\ SamePriorities(n, k) /\ os.curr \in Task
        /\ \A t \in Task \ {os.curr} : n.state[t] = k.state[t]
    <2>1. KernelInv /\ os.state[os.curr] = "RUNNING" /\ os.curr \in Task
      BY Before DEF PrioInv, KernelInv
    <2>2. k.state[k.curr] = "RUNNING"
      BY <2>1
    <2>3. QED BY <1>1, <2>1, <2>2, Retires
  <1>3. Agree(n, resourceHead')
    BY <1>2, LeavesAgree
  <1>4. QED BY <1>1, <1>2, <1>3, PrioKept

LEMMA TerminatePrio == ASSUME NoInternal, PrioInv, TerminateTask PROVE PrioInv'
  <1>1. /\ Dispatch(Retire(os), From("TerminateTask")) /\ Calls[os.curr] # {}
        /\ resourceHead[os.curr] = << >> /\ UNCHANGED resourceHead
    BY DEF TerminateTask, Calling, curr
  <1>2. KernelInv' /\ Sound(os)
    BY TerminateKeeps DEF PrioInv, KernelInv
  <1>3. Agree(os, resourceHead') /\ resourceHead'[os.curr] = << >>
    BY <1>1 DEF PrioInv, Agree
  <1>4. QED BY <1>1, <1>2, <1>3, RetirePrio

\* A resource given back, the innermost one: the priority from before it is back.
Innermost == resourceHead[os.curr][Len(resourceHead[os.curr])]

LEMMA ReleaseAgrees ==
    ASSUME PrioInv, resourceHead[os.curr] # << >>,
           NEW k, k = ResourceRemove(os, Innermost, os.curr),
           NEW less, Shorter(less, resourceHead[os.curr]),
           NEW heads, heads = [resourceHead EXCEPT ![os.curr] = less]
    PROVE  /\ Sound(k) /\ k.curr = os.curr /\ k.state = os.state /\ Agree(k, heads)
           /\ heads[os.curr] = less
           /\ \A s \in AnyResource : k.owner[s] \in {None, os.owner[s]}
  <1>c. PICK c : c = os.curr
    OBVIOUS
  <1>h. PICK held : held = resourceHead[c]
    OBVIOUS
  <1>r. PICK r : r = held[Len(held)]
    OBVIOUS
  <1>s. /\ held # << >> /\ k = ResourceRemove(os, r, c) /\ Shorter(less, held)
        /\ heads = [resourceHead EXCEPT ![c] = less]
    BY <1>c, <1>h, <1>r DEF Innermost
  <1>1. /\ c \in Task /\ os \in KernelRecord /\ Sound(os)
        /\ resourceHead \in [Task -> Seq(AnyResource)] /\ held \in Seq(AnyResource)
        /\ \A t \in Task : Holds(os, resourceHead[t], t)
        /\ \A t \in Task : os.state[t] \in Resting => resourceHead[t] = << >>
        /\ os.state[c] = "RUNNING"
    BY <1>c, <1>h, Before DEF PrioInv, KernelInv, Agree
  <1>2. Holds(k, less, c) /\ r \in AnyResource /\ os.owner[r] = c
    <2>1. Holds(os, held, c) /\ c \in Task /\ held \in Seq(AnyResource)
      BY <1>h, <1>1
    <2>2. os \in KernelRecord
      BY <1>1
    <2>3. QED BY <1>r, <1>s, <2>1, <2>2, HoldsLess
  <1>3. /\ \A t \in Task \ {c} : k.prio[t] = os.prio[t]
        /\ k.owner[r] = None /\ \A s \in AnyResource \ {r} : k.owner[s] = os.owner[s]
        /\ k.old_task_prio = os.old_task_prio
    BY <1>s, <1>1, <1>2, ResourceRemoved
  <1>4. Sound(k) /\ k.curr = c /\ k.state = os.state
    BY <1>c, <1>s, <1>1, <1>2, ResourcesTyped
  <1>5. heads[c] = less /\ \A t \in Task \ {c} : heads[t] = resourceHead[t]
    BY <1>s, <1>1 DEF Shorter
  <1>6. ASSUME NEW t \in Task \ {c} PROVE Holds(k, heads[t], t)
    <2>1. PICK others : others = resourceHead[t]
      OBVIOUS
    <2>2. others \in Seq(AnyResource) /\ Holds(os, others, t)
      BY <1>1, <2>1
    <2>3. \A i \in 1..Len(others) : others[i] # r
      BY <1>2, <2>2 DEF Holds
    <2>4. Holds(k, others, t)
      <3>1. k.prio[t] = os.prio[t] /\ OnlyOf(k, os, r)
        BY <1>3 DEF OnlyOf
      <3>2. Without(others, r)
        BY <2>2, <2>3 DEF Without
      <3>3. QED BY <2>2, <3>1, <3>2, OthersHold
    <2>5. QED BY <1>5, <2>1, <2>4
  <1>7. \A t \in Task : k.state[t] \in Resting => heads[t] = << >>
    BY <1>1, <1>4, <1>5 DEF Resting
  <1>8. Agree(k, heads)
    BY <1>2, <1>5, <1>6, <1>7 DEF Agree
  <1>9. QED BY <1>c, <1>2, <1>3, <1>4, <1>5, <1>8

LEMMA ReturnPrio == ASSUME NoInternal, PrioInv, Return PROVE PrioInv'
  <1>1. PICK held : held = resourceHead[os.curr]
    OBVIOUS
  <1>2. PICK k : k = IF held = << >> THEN os ELSE ResourceRemove(os, held[1], os.curr)
    OBVIOUS
  <1>3. /\ Calls[os.curr] # {}
        /\ \/ Len(held) > 1 /\ halted' = TRUE /\ UNCHANGED <<os, resourceHead>>
           \/ /\ ~(Len(held) > 1)
              /\ resourceHead' = [resourceHead EXCEPT ![os.curr] = << >>]
              /\ Dispatch(Retire(k), From("TerminateTask"))
    BY <1>1, <1>2 DEF Return, Calling, curr
  <1>4. KernelInv' /\ Sound(os)
    BY ReturnKeeps DEF PrioInv, KernelInv
  <1>5. held \in Seq(AnyResource) /\ os.curr \in Task /\ resourceHead \in [Task -> Seq(AnyResource)]
    BY <1>1, Before DEF PrioInv
  <1>6. CASE Len(held) > 1 /\ halted' = TRUE /\ UNCHANGED <<os, resourceHead>>
    BY <1>4, <1>6, PrioSame
  <1>7. CASE /\ ~(Len(held) > 1)
             /\ resourceHead' = [resourceHead EXCEPT ![os.curr] = << >>]
             /\ Dispatch(Retire(k), From("TerminateTask"))
    <2>1. resourceHead'[os.curr] = << >>
      BY <1>5, <1>7
    <2>2. Sound(k) /\ k.curr = os.curr /\ k.state = os.state /\ Agree(k, resourceHead')
      <3>1. CASE held = << >>
        <4>1. resourceHead' = resourceHead /\ k = os
          BY <1>1, <1>2, <1>5, <1>7, <3>1
        <4>2. QED BY <1>4, <4>1 DEF PrioInv
      <3>2. CASE held # << >>
        <4>1. Len(held) = 1
          <5>1. ~(Len(held) > 1) /\ held \in Seq(AnyResource)
            BY <1>5, <1>7
          <5>2. QED BY <3>2, <5>1, EmptySeq
        <4>2. PICK less : less = << >>
          OBVIOUS
        <4>3. k = ResourceRemove(os, Innermost, os.curr)
          BY <1>1, <1>2, <3>2, <4>1 DEF Innermost
        <4>4. Shorter(less, resourceHead[os.curr])
          BY <1>1, <4>1, <4>2, EmptySeq DEF Shorter
        <4>5. PICK heads : heads = [resourceHead EXCEPT ![os.curr] = less]
          OBVIOUS
        <4>6. Sound(k) /\ k.curr = os.curr /\ k.state = os.state /\ Agree(k, heads)
          BY <1>1, <3>2, <4>3, <4>4, <4>5, ReleaseAgrees
        <4>7. QED BY <1>7, <4>2, <4>5, <4>6
      <3>3. QED BY <3>1, <3>2
    <2>3. QED BY <1>3, <1>4, <1>7, <2>1, <2>2, RetirePrio
  <1>8. QED BY <1>3, <1>6, <1>7

LEMMA ChainSelfPrio == ASSUME NoInternal, PrioInv, ChainSelf PROVE PrioInv'
  <1>1. Dispatch(os, From("ChainTask")) /\ UNCHANGED resourceHead
    BY DEF ChainSelf
  <1>2. KernelInv' /\ Sound(os)
    BY ChainSelfKeeps DEF PrioInv, KernelInv
  <1>3. Agree(os, resourceHead')
    BY <1>1 DEF PrioInv, Agree
  <1>4. QED BY <1>1, <1>2, <1>3, PrioKept

LEMMA ChainPrio ==
    ASSUME NoInternal, PrioInv, NEW d \in Task, ChainTask(d)
    PROVE  PrioInv'
  <1>1. PICK k : k = IF os.state[d] = "SUSPENDED" THEN MakeReady(os, d) ELSE os
    OBVIOUS
  <1>2. PICK left : left = IF activations[os.curr] > 1 THEN RunningToReady(k, os.curr)
                           ELSE Retire(k)
    OBVIOUS
  <1>3. PICK at : at = IF os.state[d] = "SUSPENDED"
                       THEN [From("ChainTask") EXCEPT ![d] = "entry"] ELSE From("ChainTask")
    OBVIOUS
  <1>4. /\ d # os.curr /\ Calls[os.curr] # {} /\ Dispatch(left, at)
        /\ resourceHead[os.curr] = << >> /\ UNCHANGED resourceHead
    BY <1>1, <1>2, <1>3 DEF ChainTask, Calling, curr
  <1>5. /\ Sound(k) /\ k.curr = os.curr /\ Agree(k, resourceHead)
        /\ \A t \in Task \ {d} : k.state[t] = os.state[t]
    BY <1>1, ReadyAgrees
  <1>6. KernelInv /\ os.curr \in Task /\ k.state[k.curr] = "RUNNING" /\ k.state[os.curr] \in Busy
    <2>1. KernelInv /\ os.curr \in Task /\ os.state[os.curr] = "RUNNING"
      BY Before DEF PrioInv, KernelInv
    <2>2. QED BY <1>4, <1>5, <2>1 DEF Busy
  <1>7. /\ Sound(left) /\ SamePriorities(left, k)
        /\ \A t \in Task \ {os.curr} : left.state[t] = k.state[t]
    <2>1. CASE activations[os.curr] > 1
      <3>1. left = RunningToReady(k, os.curr)
        BY <1>2, <2>1
      <3>2. QED BY <1>5, <1>6, <3>1, StillReady
    <2>2. CASE ~(activations[os.curr] > 1)
      <3>1. left = Retire(k)
        BY <1>2, <2>2
      <3>2. QED BY <1>4, <1>5, <1>6, <3>1, Retires
    <2>3. QED BY <2>1, <2>2
  <1>8. Agree(left, resourceHead)
    BY <1>4, <1>5, <1>6, <1>7, LeavesAgree
  <1>9. Agree(left, resourceHead')
    BY <1>4, <1>8 DEF Agree
  <1>10. KernelInv'
    BY <1>6, ChainKeeps
  <1>11. QED BY <1>4, <1>7, <1>9, <1>10, PrioKept

LEMMA SchedulePrio == ASSUME NoInternal, PrioInv, Schedule PROVE PrioInv'
  <1>1. PICK k : k = RunningToReady(os, os.curr)
    OBVIOUS
  <1>2. Dispatch(k, From("body")) /\ UNCHANGED resourceHead
    BY <1>1 DEF Schedule, curr
  <1>3. KernelInv' /\ Sound(os) /\ os.state[os.curr] = "RUNNING" /\ Agree(os, resourceHead)
    BY ScheduleKeeps DEF PrioInv, KernelInv
  <1>4. /\ Sound(k) /\ SamePriorities(k, os)
        /\ \A t \in Task : k.state[t] \in Resting => k.state[t] = os.state[t]
    BY <1>1, <1>3, CurrPreempted DEF Resting
  <1>5. Agree(k, resourceHead)
    BY <1>3, <1>4, AgreeOn
  <1>6. Agree(k, resourceHead')
    BY <1>2, <1>5 DEF Agree
  <1>7. QED BY <1>2, <1>3, <1>4, <1>6, PrioKept

LEMMA SetEventPrio == ASSUME NoInternal, PrioInv, SetEvent PROVE PrioInv'
  <1>1. pending[os.curr].dest \in Task /\ pending[os.curr].mask \in SUBSET Event
    BY Before DEF PrioInv
  <1>2. ~halted /\ SetBits(pending[os.curr].dest, pending[os.curr].mask)
    BY DEF SetEvent, curr
  <1>3. QED BY <1>1, <1>2, BitsPrio

LEMMA ValidatedPrio ==
    ASSUME PrioInv, NEW d \in Task, NEW m \in Mask, SetEventValidated(d, m)
    PROVE  PrioInv'
  <1>1. UNCHANGED <<os, resourceHead, intNestCnt, halted>>
    BY DEF SetEventValidated
  <1>2. KernelInv'
    BY ValidatedKeeps DEF PrioInv
  <1>3. QED BY <1>1, <1>2, PrioSame

LEMMA ClearPrio ==
    ASSUME PrioInv, NEW m \in Mask, ClearEvent(m)
    PROVE  PrioInv'
  <1>1. UNCHANGED <<os, resourceHead, intNestCnt, halted>>
    BY DEF ClearEvent
  <1>2. KernelInv'
    BY ClearKeeps DEF PrioInv
  <1>3. QED BY <1>1, <1>2, PrioSame

LEMMA WaitPrio ==
    ASSUME NoInternal, PrioInv, NEW m \in Mask, WaitEvent(m)
    PROVE  PrioInv'
  <1>1. /\ Calls[os.curr] # {} /\ resourceHead[os.curr] = << >>
        /\ UNCHANGED <<resourceHead, intNestCnt>>
        /\ \/ os' = os /\ halted' = halted
           \/ Dispatch(Unlist(os, os.curr, "WAITING"), From("body"))
    BY DEF WaitEvent, Calling, Continue, curr
  <1>2. KernelInv'
    BY WaitKeeps DEF PrioInv
  <1>3. CASE os' = os /\ halted' = halted
    BY <1>1, <1>2, <1>3, PrioSame
  <1>4. CASE Dispatch(Unlist(os, os.curr, "WAITING"), From("body"))
    <2>1. PICK k : k = Unlist(os, os.curr, "WAITING")
      OBVIOUS
    <2>2. /\ Sound(os) /\ os.curr \in Task /\ os.curr # Idle /\ os.state[os.curr] \in Busy
          /\ Agree(os, resourceHead)
      BY <1>1, Before, IdleTask DEF PrioInv, KernelInv, Busy
    <2>3. /\ Sound(k) /\ SamePriorities(k, os)
          /\ \A t \in Task \ {os.curr} : k.state[t] = os.state[t]
      BY <2>1, <2>2, Unlisted
    <2>4. Agree(k, resourceHead)
      BY <1>1, <2>2, <2>3, LeavesAgree
    <2>5. Agree(k, resourceHead')
      BY <1>1, <2>4 DEF Agree
    <2>6. QED BY <1>2, <1>4, <2>1, <2>3, <2>5, PrioKept
  <1>5. QED BY <1>1, <1>3, <1>4

\* GetResource leaves k and heads.
Takes(r, k, heads) ==
    /\ os.owner[r] \in {None, os.curr} /\ Without(resourceHead[os.curr], r)
    /\ k = ResourceAdd(os, r, os.curr)
    /\ heads = [resourceHead EXCEPT ![os.curr] = Append(resourceHead[os.curr], r)]

\* A resource taken: it belongs to nobody else, so no other task holds it.
LEMMA GetAgrees ==
    ASSUME PrioInv, NEW r \in AnyResource, NEW k, NEW heads, Takes(r, k, heads)
    PROVE  /\ Sound(k) /\ k.curr = os.curr /\ Agree(k, heads)
           /\ k.state = os.state /\ k.prio[os.curr] = ceiling_priority[r]
           /\ \A t \in Task \ {os.curr} : k.prio[t] = os.prio[t]
           /\ k.owner[r] = os.curr /\ \A s \in AnyResource \ {r} : k.owner[s] = os.owner[s]
  <1>c. PICK c : c = os.curr
    OBVIOUS
  <1>h. PICK held : held = resourceHead[c]
    OBVIOUS
  <1>m. PICK more : more = Append(held, r)
    OBVIOUS
  <1>s. /\ k = ResourceAdd(os, r, c) /\ heads = [resourceHead EXCEPT ![c] = more]
        /\ os.owner[r] \in {None, c} /\ Without(held, r)
    BY <1>c, <1>h, <1>m DEF Takes
  <1>1. /\ c \in Task /\ os \in KernelRecord /\ Sound(os)
        /\ resourceHead \in [Task -> Seq(AnyResource)] /\ held \in Seq(AnyResource)
        /\ \A t \in Task : Holds(os, resourceHead[t], t)
        /\ \A t \in Task : os.state[t] \in Resting => resourceHead[t] = << >>
        /\ os.state[c] = "RUNNING"
    BY <1>c, <1>h, Before DEF PrioInv, KernelInv, Agree
  <1>2. Holds(k, more, c)
    <2>1. Holds(os, held, c) /\ \A i \in 1..Len(held) : held[i] # r
      BY <1>h, <1>s, <1>1 DEF Without
    <2>2. QED BY <1>m, <1>s, <1>1, <2>1, HoldsMore
  <1>3. /\ k.prio[c] = ceiling_priority[r] /\ \A t \in Task \ {c} : k.prio[t] = os.prio[t]
        /\ k.owner[r] = c /\ \A s \in AnyResource \ {r} : k.owner[s] = os.owner[s]
        /\ \A s \in AnyResource \ {r} : k.old_task_prio[s] = os.old_task_prio[s]
    BY <1>s, <1>1, ResourceAdded
  <1>4. Sound(k) /\ k.curr = c /\ k.state = os.state
    BY <1>c, <1>s, <1>1, ResourcesTyped
  <1>5. heads[c] = more /\ \A t \in Task \ {c} : heads[t] = resourceHead[t]
    BY <1>s, <1>1
  <1>6. ASSUME NEW t \in Task \ {c} PROVE Holds(k, heads[t], t)
    <2>1. PICK others : others = resourceHead[t]
      OBVIOUS
    <2>2. others \in Seq(AnyResource) /\ Holds(os, others, t)
      BY <1>1, <2>1
    <2>3. os.owner[r] # t
      BY <1>s, KernelAssumption
    <2>4. Without(others, r)
      BY <2>2, <2>3 DEF Holds, Without
    <2>5. k.prio[t] = os.prio[t] /\ OnlyOf(k, os, r)
      BY <1>3 DEF OnlyOf
    <2>6. Holds(k, others, t)
      BY <2>2, <2>4, <2>5, OthersHold
    <2>7. QED BY <1>5, <2>1, <2>6
  <1>7. \A t \in Task : k.state[t] \in Resting => heads[t] = << >>
    BY <1>1, <1>4, <1>5 DEF Resting
  <1>8. Agree(k, heads)
    BY <1>2, <1>5, <1>6, <1>7 DEF Agree
  <1>9. QED BY <1>c, <1>3, <1>4, <1>8

LEMMA GetPrio ==
    ASSUME NoInternal, PrioInv, NEW r \in AnyResource, GetResource(r)
    PROVE  PrioInv'
  <1>1. PICK k : k = ResourceAdd(os, r, os.curr)
    OBVIOUS
  <1>2. /\ ~halted /\ intNestCnt = 0 /\ MayTake(r)
        /\ \A i \in DOMAIN resourceHead[os.curr] : resourceHead[os.curr][i] # r
        /\ Continue(k, From("body")) /\ halted' = halted
        /\ resourceHead' = [resourceHead EXCEPT ![os.curr] = Append(resourceHead[os.curr], r)]
        /\ UNCHANGED intNestCnt
    BY <1>1 DEF GetResource, Calling, Continue, curr
  <1>3. /\ KernelInv /\ os.curr \in Task /\ resourceHead[os.curr] \in Seq(AnyResource)
        /\ halted = FALSE /\ os.owner[RES_SCHEDULER] \in {None, os.curr} /\ RunsTop(os)
    BY <1>2, Before DEF PrioInv
  <1>4. Without(resourceHead[os.curr], r)
    BY <1>2, <1>3 DEF Without
  <1>5. \/ r = RES_SCHEDULER
        \/ os.owner[r] = None /\ os.prio[os.curr] <= ceiling_priority[r]
    BY <1>2 DEF MayTake, curr
  <1>6. os.owner[r] \in {None, os.curr}
    BY <1>3, <1>5
  <1>7. /\ Sound(k) /\ k.curr = os.curr /\ Agree(k, resourceHead')
        /\ k.state = os.state /\ k.prio[os.curr] = ceiling_priority[r]
        /\ \A t \in Task \ {os.curr} : k.prio[t] = os.prio[t]
        /\ k.owner[r] = os.curr /\ \A s \in AnyResource \ {r} : k.owner[s] = os.owner[s]
    <2>1. PICK heads :
             heads = [resourceHead EXCEPT ![os.curr] = Append(resourceHead[os.curr], r)]
      OBVIOUS
    <2>2. /\ Sound(k) /\ k.curr = os.curr /\ Agree(k, heads)
          /\ k.state = os.state /\ k.prio[os.curr] = ceiling_priority[r]
          /\ \A t \in Task \ {os.curr} : k.prio[t] = os.prio[t]
          /\ k.owner[r] = os.curr /\ \A s \in AnyResource \ {r} : k.owner[s] = os.owner[s]
      <3>1. Takes(r, k, heads)
        BY <1>1, <1>4, <1>6, <2>1 DEF Takes
      <3>2. QED BY <3>1, GetAgrees
    <2>3. heads = resourceHead'
      BY <1>2, <2>1
    <2>4. QED BY <2>2, <2>3
  <1>8. RES_SCHEDULER \in AnyResource
    BY DEF AnyResource
  <1>9. k.owner[RES_SCHEDULER] \in {None, k.curr}
    BY <1>3, <1>7, <1>8
  <1>10. RunsTop(k)
    <2>1. CASE k.curr \in NonPreemptive \/ k.owner[RES_SCHEDULER] # None
      BY <2>1 DEF RunsTop
    <2>2. CASE ~(k.curr \in NonPreemptive \/ k.owner[RES_SCHEDULER] # None)
      <3>1. r # RES_SCHEDULER
        BY <1>3, <1>7, <2>2, KernelAssumption
      <3>2. os.owner[RES_SCHEDULER] = None /\ os.prio[os.curr] <= ceiling_priority[r]
        BY <1>5, <1>7, <1>8, <2>2, <3>1
      <3>3. \A t \in Task : os.state[t] \in Busy => os.prio[t] <= os.prio[os.curr]
        BY <1>3, <1>7, <2>2, <3>2 DEF RunsTop
      <3>4. \A t \in Task : os.prio[t] \in Int
        <4>1. os.prio \in [Task -> 0..OS_RES_SCHEDULER_PRIO]
          BY <1>3, Before, FieldsTyped
        <4>2. QED BY <4>1 DEF OS_RES_SCHEDULER_PRIO
      <3>5. ceiling_priority[r] \in Int
        BY CeilingTyped DEF OS_RES_SCHEDULER_PRIO
      <3>6. \A t \in Task : k.state[t] \in Busy => k.prio[t] <= k.prio[k.curr]
        BY <1>3, <1>7, <3>2, <3>3, <3>4, <3>5
      <3>7. QED BY <3>6 DEF RunsTop
    <2>3. QED BY <2>1, <2>2
  <1>11. KernelInv'
    BY <1>3, GetKeeps
  <1>12. QED BY <1>2, <1>3, <1>7, <1>9, <1>10, <1>11, PrioKept

LEMMA ReleasePrio == ASSUME NoInternal, PrioInv, ReleaseResource PROVE PrioInv'
  <1>1. PICK held : held = resourceHead[os.curr]
    OBVIOUS
  <1>2. PICK k : k = ResourceRemove(os, Innermost, os.curr)
    OBVIOUS
  <1>3. PICK less : less = SubSeq(held, 1, Len(held) - 1)
    OBVIOUS
  <1>4. /\ ~halted /\ intNestCnt = 0 /\ held # << >>
        /\ resourceHead' = [resourceHead EXCEPT ![os.curr] = less]
        /\ \/ Dispatch(RunningToReady(k, os.curr), From("body"))
           \/ Continue(k, From("body")) /\ halted' = halted /\ ~Preempts(k, TaskGetTop(k))
    BY <1>1, <1>2, <1>3 DEF ReleaseResource, Calling, Continue, curr, Innermost
  <1>5. /\ os.curr \in Task /\ held \in Seq(AnyResource) /\ halted = FALSE
        /\ os.state[os.curr] = "RUNNING" /\ os.owner[RES_SCHEDULER] \in {None, os.curr}
    BY <1>1, <1>4, Before DEF PrioInv, KernelInv
  <1>6. Shorter(less, held)
    <2>1. Len(held) \in Nat /\ Len(held) # 0
      BY <1>4, <1>5, EmptySeq
    <2>2. PICK m : m = Len(held) - 1
      OBVIOUS
    <2>3. m \in Nat /\ m <= Len(held)
      BY <2>1, <2>2
    <2>4. /\ SubSeq(held, 1, m) \in Seq(AnyResource) /\ Len(SubSeq(held, 1, m)) = m
          /\ \A i \in 1..m : SubSeq(held, 1, m)[i] = held[i]
      BY <1>5, <2>3
    <2>5. QED BY <1>3, <2>2, <2>4 DEF Shorter
  <1>7. /\ Sound(k) /\ k.curr = os.curr /\ k.state = os.state /\ Agree(k, resourceHead')
        /\ \A s \in AnyResource : k.owner[s] \in {None, os.owner[s]}
    <2>1. PICK heads : heads = [resourceHead EXCEPT ![os.curr] = less]
      OBVIOUS
    <2>2. /\ Sound(k) /\ k.curr = os.curr /\ k.state = os.state /\ Agree(k, heads)
          /\ \A s \in AnyResource : k.owner[s] \in {None, os.owner[s]}
      BY <1>1, <1>2, <1>4, <1>6, <2>1, ReleaseAgrees
    <2>3. heads = resourceHead'
      BY <1>4, <2>1
    <2>4. QED BY <2>2, <2>3
  <1>8. KernelInv'
    BY ReleaseKeeps DEF PrioInv
  <1>9. CASE Dispatch(RunningToReady(k, os.curr), From("body"))
    <2>1. PICK n : n = RunningToReady(k, k.curr)
      OBVIOUS
    <2>2. /\ Sound(n) /\ SamePriorities(n, k)
          /\ \A t \in Task : n.state[t] \in Resting => n.state[t] = k.state[t]
      <3>1. k.state[k.curr] = "RUNNING"
        BY <1>5, <1>7
      <3>2. QED BY <1>7, <2>1, <3>1, CurrPreempted DEF Resting
    <2>3. Agree(n, resourceHead')
      BY <1>7, <2>2, AgreeOn
    <2>4. QED BY <1>7, <1>8, <1>9, <2>1, <2>2, <2>3, PrioKept
  <1>10. CASE Continue(k, From("body")) /\ halted' = halted /\ ~Preempts(k, TaskGetTop(k))
    <2>1. RunsTop(k)
      <3>1. PICK top : top = TaskGetTop(k)
        OBVIOUS
      <3>2. /\ top \in Task
            /\ \A t \in Task : k.state[t] \in Busy => k.prio[t] <= k.prio[top]
        BY <1>7, <3>1, TopOfList
      <3>3. CASE k.curr \in NonPreemptive \/ k.owner[RES_SCHEDULER] # None
        BY <3>3 DEF RunsTop
      <3>4. CASE ~(k.curr \in NonPreemptive \/ k.owner[RES_SCHEDULER] # None)
        <4>1. ~(k.prio[top] > k.prio[k.curr])
          BY <1>4, <1>10, <3>1, <3>4 DEF Preempts, SchedulerResourceIsFree
        <4>2. k.curr \in Task /\ \A t \in Task : k.prio[t] \in Int
          <5>1. k.prio \in [Task -> 0..OS_RES_SCHEDULER_PRIO] /\ k.curr \in Task
            BY <1>7, FieldsTyped DEF Sound
          <5>2. QED BY <5>1 DEF OS_RES_SCHEDULER_PRIO
        <4>3. \A t \in Task : k.state[t] \in Busy => k.prio[t] <= k.prio[k.curr]
          BY <3>2, <4>1, <4>2
        <4>4. QED BY <4>3 DEF RunsTop
      <3>5. QED BY <3>3, <3>4
    <2>2. k.owner[RES_SCHEDULER] \in {None, k.curr}
      BY <1>5, <1>7 DEF AnyResource
    <2>3. QED BY <1>5, <1>7, <1>8, <1>10, <2>1, <2>2, PrioKept
  <1>11. QED BY <1>4, <1>9, <1>10

LEMMA EnterPrio == ASSUME PrioInv, EnterIsr PROVE PrioInv'
  <1>1. UNCHANGED <<os, resourceHead, halted>> /\ intNestCnt' = intNestCnt + 1
    BY DEF EnterIsr
  <1>2. KernelInv' /\ intNestCnt \in Nat
    BY EnterKeeps, Before, KernelAssumption DEF PrioInv
  <1>3. intNestCnt' = 0 => intNestCnt = 0
    BY <1>1, <1>2
  <1>4. QED BY <1>1, <1>2, <1>3, PrioSame

\* After the last interrupt the top task runs, unless the interrupted one cannot
\* be preempted (os_isr.c:237-266).
LEMMA LeavePrio == ASSUME NoInternal, PrioInv, LeaveIsr PROVE PrioInv'
  <1>1. /\ ~halted /\ intNestCnt > 0 /\ intNestCnt' = intNestCnt - 1
        /\ os' = IF intNestCnt = 1 THEN TailChaining(RunningToReady(os, os.curr)) ELSE os
        /\ UNCHANGED resourceHead
    BY DEF LeaveIsr, curr
  <1>2. /\ KernelInv /\ KernelInv' /\ Sound(os) /\ os.state[os.curr] = "RUNNING"
        /\ os.curr \in Task /\ Agree(os, resourceHead) /\ intNestCnt \in Nat
        /\ halted = FALSE /\ os.owner[RES_SCHEDULER] \in {None, os.curr}
    BY <1>1, LeaveKeeps, Before, KernelAssumption DEF PrioInv, KernelInv
  <1>3. CASE intNestCnt # 1
    <2>1. halted' = FALSE
      BY <1>3, Zenon DEF LeaveIsr
    <2>2. os' = os /\ intNestCnt' # 0
      BY <1>1, <1>2, <1>3
    <2>3. QED BY <1>1, <1>2, <2>1, <2>2, PrioSame
  <1>4. CASE intNestCnt = 1
    <2>1. PICK k : k = RunningToReady(os, os.curr)
      OBVIOUS
    <2>2. PICK t : t = IF k.curr \in NonPreemptive \/ ~SchedulerResourceIsFree(k)
                       THEN k.curr ELSE TaskGetTop(k)
      OBVIOUS
    <2>3. os' = SwapTo(k, t)
      BY <1>1, <1>4, <2>1, <2>2 DEF TailChaining
    <2>4. /\ Sound(k) /\ k.curr = os.curr /\ SamePriorities(k, os)
          /\ \A u \in Task : k.state[u] \in Resting => k.state[u] = os.state[u]
      BY <1>2, <2>1, CurrPreempted DEF Resting
    <2>5. k.state[k.curr] \in Busy
      <3>1. os.state[os.curr] \in Busy
        BY <1>2 DEF Busy
      <3>2. QED BY <1>2, <2>1, <2>4, <3>1, StillReady
    <2>6. /\ TaskGetTop(k) \in Task /\ k.state[TaskGetTop(k)] \in Busy
          /\ \A u \in Task : k.state[u] \in Busy => k.prio[u] <= k.prio[TaskGetTop(k)]
      BY <2>4, TopOfList
    <2>7. t \in Task /\ k.state[t] \in Busy
      BY <1>2, <2>2, <2>4, <2>5, <2>6
    <2>8. PICK n : n = os'
      OBVIOUS
    <2>9. /\ Sound(n) /\ n.curr = t /\ SameRest(n, k) /\ SamePriorities(n, k)
      BY <2>3, <2>4, <2>7, <2>8, Swapped DEF NoInternal
    <2>10. Agree(n, resourceHead)
      <3>1. Agree(k, resourceHead)
        BY <1>2, <2>4, AgreeOn
      <3>2. \A u \in Task : n.state[u] \in Resting => n.state[u] = k.state[u]
        BY <2>9 DEF SameRest, Resting, Busy
      <3>3. QED BY <2>9, <3>1, <3>2, AgreeOn
    <2>11. n.owner[RES_SCHEDULER] \in {None, n.curr}
      BY <1>2, <2>2, <2>4, <2>9 DEF SamePriorities, SchedulerResourceIsFree
    <2>12. RunsTop(n)
      <3>1. CASE k.curr \in NonPreemptive \/ ~SchedulerResourceIsFree(k)
        BY <2>2, <2>9, <3>1 DEF RunsTop, SamePriorities, SchedulerResourceIsFree
      <3>2. CASE ~(k.curr \in NonPreemptive \/ ~SchedulerResourceIsFree(k))
        <4>1. t = TaskGetTop(k)
          BY <2>2, <3>2
        <4>2. \A u \in Task : n.state[u] \in Busy => k.state[u] \in Busy
          BY <2>9 DEF SameRest
        <4>3. \A u \in Task : n.state[u] \in Busy => n.prio[u] <= n.prio[n.curr]
          BY <2>6, <2>9, <4>1, <4>2 DEF SamePriorities
        <4>4. QED BY <4>3 DEF RunsTop
      <3>3. QED BY <3>1, <3>2
    <2>13. Agree(os, resourceHead)' /\ RunsTop(os)' /\ os'.owner[RES_SCHEDULER] \in {None, os'.curr}
      BY <1>1, <2>8, <2>10, <2>11, <2>12 DEF Agree, Holds, Level, RunsTop
    <2>14. QED BY <1>2, <2>13 DEF PrioInv
  <1>5. QED BY <1>3, <1>4

LEMMA PrioStep == ASSUME NoInternal, PrioInv, ObservedNext PROVE PrioInv'
  <1>1. ASSUME NEW d \in Task, ActivateTask(d) \/ ChainTask(d) PROVE PrioInv'
    BY <1>1, ActivatePrio, ChainPrio
  <1>2. CASE TerminateTask \/ Return \/ ChainSelf \/ Schedule
    BY <1>2, TerminatePrio, ReturnPrio, ChainSelfPrio, SchedulePrio
  <1>3. ASSUME NEW d \in Task, NEW m \in Mask, SetEventValidated(d, m) PROVE PrioInv'
    BY <1>3, ValidatedPrio
  <1>4. CASE SetEvent \/ ReleaseResource
    BY <1>4, SetEventPrio, ReleasePrio
  <1>5. ASSUME NEW m \in Mask, ClearEvent(m) \/ WaitEvent(m) PROVE PrioInv'
    BY <1>5, ClearPrio, WaitPrio
  <1>6. ASSUME NEW r \in StandardResource \cup {RES_SCHEDULER}, GetResource(r) PROVE PrioInv'
    BY <1>6, ResourceSplit, GetPrio
  <1>7. CASE Interrupt
    <2>1. ASSUME NEW d \in Task, NEW m \in Mask, IsrSetEvent(d, m) PROVE PrioInv'
      BY <2>1, BitsPrio DEF IsrSetEvent, InIsr, Mask
    <2>2. QED BY <1>7, <2>1, EnterPrio, LeavePrio DEF Interrupt
  <1>8. QED
    BY ObservedNext, <1>1, <1>2, <1>3, <1>4, <1>5, <1>6, <1>7, Zenon DEF ObservedNext

LEMMA PrioStutter == ASSUME PrioInv, UNCHANGED observedVars PROVE PrioInv'
  <1>1. KernelInv'
    BY StutterKeeps DEF PrioInv
  <1>2. UNCHANGED <<os, resourceHead, intNestCnt, halted>>
    BY DEF observedVars, vars
  <1>3. QED BY <1>1, <1>2, PrioSame

LEMMA PrioStart == ASSUME NoInternal, Init PROVE PrioInv
  <1>1. KernelInv
    BY StartKeeps
  <1>p. PICK k : StartsFrom(k)
    BY StartsSound
  <1>2. /\ Sound(k) /\ SameRest(os, k) /\ os.curr = TaskGetTop(k)
        /\ k.prio = prio /\ k.owner = [r \in AnyResource |-> None] /\ SamePriorities(os, k)
    BY <1>p DEF StartsFrom, NoInternal
  <1>3. resourceHead = [t \in Task |-> << >>]
    BY DEF Init
  <1>4. os.prio = prio /\ os.owner[RES_SCHEDULER] = None
    BY <1>2 DEF SamePriorities, AnyResource
  <1>5. Agree(os, resourceHead)
    <2>1. ASSUME NEW t \in Task PROVE Holds(os, << >>, t)
      BY <1>4 DEF Holds, Level
    <2>2. QED BY <1>3, <2>1 DEF Agree
  <1>6. RunsTop(os)
    <2>1. \A t \in Task : os.state[t] \in Busy => k.state[t] \in Busy
      BY <1>2 DEF SameRest
    <2>2. \A t \in Task : k.state[t] \in Busy => k.prio[t] <= k.prio[os.curr]
      BY <1>2, TopOfList
    <2>3. QED BY <1>2, <2>1, <2>2 DEF RunsTop, SamePriorities
  <1>7. QED BY <1>1, <1>4, <1>5, <1>6 DEF PrioInv

LEMMA PrioInvariant == ASSUME NoInternal PROVE ObservedSpec => []PrioInv
  <1>1. ObservedInit => PrioInv
    BY PrioStart DEF ObservedInit
  <1>2. PrioInv /\ [ObservedNext]_observedVars => PrioInv'
    BY PrioStep, PrioStutter
  <1>3. QED BY <1>1, <1>2, PTL DEF ObservedSpec

\* Without internal resources, the processor runs a task of the highest active
\* priority unless the one it runs cannot be preempted: whatever is activated,
\* woken, released or interrupted (os_task.c:295-343, os_isr.c:237-266).
THEOREM HighestRuns == ASSUME NoInternal PROVE ObservedSpec => []HighestPriorityRuns
  <1>1. PrioInv => HighestPriorityRuns
    <2> SUFFICES ASSUME PrioInv, ~halted, intNestCnt = 0 PROVE HighestPriorityRuns
      BY DEF HighestPriorityRuns, AtTaskLevel
    <2>1. RunsTop(os) /\ Exact(os) /\ os.ready \in Seq(Task)
      BY FieldsTyped DEF PrioInv, KernelInv, Sound
    <2>2. \A t \in Listed(os) : t \in Task /\ os.state[t] \in Busy
      <3>1. \A i \in DOMAIN os.ready : i \in 1..Len(os.ready) /\ os.ready[i] \in Task
        BY <2>1
      <3>2. QED BY <2>1, <3>1 DEF Listed, Exact
    <2>3. QED BY <2>1, <2>2
            DEF RunsTop, HighestPriorityRuns, SchedulerResourceIsFree, curr
  <1>2. QED BY <1>1, PrioInvariant, PTL

\* Without internal resources, a task that ended or waits has its own priority
\* again, after any nesting of the resources it took (os_resource.c:233-265,
\* os_task_i.h:292-305).
THEOREM PrioritiesBack == ASSUME NoInternal PROVE ObservedSpec => []PriorityRestored
  <1>1. PrioInv => PriorityRestored
    <2> SUFFICES ASSUME PrioInv, NEW t \in Task, os.state[t] \in {"SUSPENDED", "WAITING"}
                 PROVE  os.prio[t] = prio[t]
      BY DEF PriorityRestored
    <2>1. Holds(os, resourceHead[t], t) /\ resourceHead[t] = << >>
      BY DEF PrioInv, Agree, Resting
    <2>2. QED BY <2>1 DEF Holds, Level
  <1>2. QED BY <1>1, PrioInvariant, PTL
-----------------------------------------------------------------------------
(* Activations and restarts.                                               *)

Ends == {"TerminateTask", "ChainTask", "return"}
Started(t) == \E i \in DOMAIN autostart : autostart[i] = t
\* Started with the system, but not the first to run: its activation is not
\* registered.
Late(t) == Started(t) /\ t # TaskGetTop(AutostartTasks)
\* No activation of such a task ever ends.
LateEndless == \A t \in Task : Late(t) => Calls[t] \cap Ends = {}
\* Nobody activates a task: in pwc no task calls ActivateTask or ChainTask, and all
\* alarms set events (Os_Cfg.c:101-152).
Unactivated ==
    /\ \A t \in Task : Calls[t] \cap {"ActivateTask", "ChainTask"} = {}
    /\ "ActivateTask" \notin IsrCalls
\* Such a task never waits, or, as in pwc, no task activates another.
LateActive ==
    \/ \A t \in Task : "ActivateTask" \notin Calls[t]
    \/ \A t \in Task : Late(t) => "WaitEvent" \notin Calls[t]

\* Who may be where, and what is known of the activations of the others.
Waiter(t) == t \in Extended /\ "WaitEvent" \in Calls[t]
FitStates(k) ==
    /\ \A t \in Task : k.state[t] = "WAITING" => Waiter(t)
    /\ \A t \in Task : Started(t) /\ Calls[t] \cap Ends = {} => k.state[t] # "SUSPENDED"
FitCounts(known, counted, k) ==
    \A t \in Task : \/ Late(t)
                    \/ /\ known[t] = counted[t]
                       /\ k.state[t] # "SUSPENDED" => 1 <= counted[t]
Counted ==
    /\ FitStates(os) /\ accepted \in [Task -> Int]
    /\ ~halted => FitCounts(accepted, activations, os)

\* The same tasks are suspended in n and in k, and only waiters wait.
Quiet(n, k) ==
    \A t \in Task : /\ n.state[t] = "SUSPENDED" <=> k.state[t] = "SUSPENDED"
                    /\ n.state[t] = "WAITING" => k.state[t] = "WAITING" \/ Waiter(t)

\* No task goes back to its first statement unless it was suspended.
NoNewEntry ==
    \A t \in Task : context'[t] = "entry" /\ context[t] # "entry" => os.state[t] = "SUSPENDED"

LEMMA CountedOn ==
    ASSUME NEW k, SameRest(os', k), FitStates(k), accepted' \in [Task -> Int],
           halted' = FALSE => FitCounts(accepted', activations', k), halted' \in BOOLEAN
    PROVE  Counted'
  <1>1. \A t \in Task : /\ os'.state[t] = "SUSPENDED" <=> k.state[t] = "SUSPENDED"
                        /\ os'.state[t] = "WAITING" <=> k.state[t] = "WAITING"
    BY DEF SameRest, Busy
  <1>2. FitStates(os')
    BY <1>1 DEF FitStates
  <1>3. halted' = FALSE => FitCounts(accepted', activations', os')
    BY <1>1 DEF FitCounts
  <1>4. QED BY <1>2, <1>3 DEF Counted, FitStates, FitCounts

LEMMA CountedQuiet ==
    ASSUME Counted, Quiet(os', os), UNCHANGED <<activations, accepted>>, ~halted,
           halted' \in BOOLEAN
    PROVE  Counted'
  <1>1. FitStates(os')
    BY DEF Counted, FitStates, Quiet
  <1>2. FitCounts(accepted', activations', os')
    BY DEF Counted, FitCounts, Quiet
  <1>3. SameRest(os', os')
    BY DEF SameRest
  <1>4. accepted' \in [Task -> Int]
    BY DEF Counted
  <1>5. QED BY <1>1, <1>2, <1>3, <1>4, CountedOn

LEMMA QuietThrough ==
    ASSUME NEW n, NEW k, NEW m, Quiet(k, m), SameRest(n, k)
    PROVE  Quiet(n, m)
  BY DEF Quiet, SameRest, Busy

\* A task of higher priority than the running one is dispatched instead of it.
LEMMA HigherWins ==
    ASSUME NEW k, Sound(k), NEW t \in Task, k.state[t] \in Busy, k.prio[k.curr] < k.prio[t]
    PROVE  ~Restarts(k)
  <1>1. /\ k.prio \in [Task -> 0..OS_RES_SCHEDULER_PRIO] /\ k.curr \in Task
        /\ OS_RES_SCHEDULER_PRIO \in Nat
    BY FieldsTyped DEF Sound, OS_RES_SCHEDULER_PRIO
  <1>2. PICK top \in Task : top = TaskGetTop(k) /\ k.prio[t] <= k.prio[top]
    BY TopOfList
  <1>3. top # k.curr
    BY <1>1, <1>2
  <1>4. QED BY <1>2, <1>3 DEF Restarts

\* Neither does a task that is at rest run on.
LEMMA RestingYields ==
    ASSUME NEW k, Sound(k), k.state[k.curr] \in Resting
    PROVE  ~Restarts(k)
  <1>1. k.state[TaskGetTop(k)] \in Busy
    BY TopOfList
  <1>2. QED BY <1>1 DEF Restarts, Busy, Resting

\* A service that does not start the running task again leaves every place as
\* it chose it.
LEMMA PlacesKept ==
    ASSUME KernelInv, NEW k, NEW at \in [Task -> Context],
           Continue(k, at) \/ (Dispatch(k, at) /\ ~Restarts(k))
    PROVE  context' = at
  <1>1. CASE Continue(k, at)
    BY <1>1 DEF Continue
  <1>2. CASE Dispatch(k, at) /\ ~Restarts(k)
    <2>1. context' = [at EXCEPT ![curr] = IF Restarts(k) THEN "entry" ELSE @]
      BY <1>2 DEF Dispatch
    <2>2. context' = [at EXCEPT ![curr] = at[curr]]
      BY <1>2, <2>1
    <2>3. QED BY <2>2
  <1>3. QED BY <1>1, <1>2

LEMMA FromKeeps ==
    ASSUME KernelInv, NEW place \in Context \ {"entry"}
    PROVE  /\ From(place) \in [Task -> Context]
           /\ \A t \in Task : From(place)[t] = "entry" => context[t] = "entry"
  BY PlaceTyped, Before DEF From, curr

\* A service that neither begins nor ends an activation: k is what it leaves to
\* the dispatcher.
LEMMA PlainCounts ==
    ASSUME KernelInv, NEW k, Sound(k), k.curr = os.curr, Quiet(k, os),
           NEW place \in Context \ {"entry"},
           \/ Dispatch(k, From(place))
           \/ Continue(k, From(place)) /\ k.state[k.curr] = "RUNNING"
    PROVE  /\ Quiet(os', os) /\ halted' \in BOOLEAN
           /\ (Continue(k, From(place)) \/ ~Restarts(k)) => NoNewEntry
  <1>1. PICK at : at = From(place)
    OBVIOUS
  <1>2. at \in [Task -> Context] /\ \A t \in Task : at[t] = "entry" => context[t] = "entry"
    BY <1>1, FromKeeps
  <1>3. Moved(k)
    BY <1>1, <1>2, Before, ServiceEnds
  <1>4. Quiet(os', os) /\ halted' \in BOOLEAN
    BY <1>3, QuietThrough DEF Moved
  <1>5. ASSUME Continue(k, From(place)) \/ ~Restarts(k) PROVE NoNewEntry
    <2>1. context' = at
      BY <1>1, <1>2, <1>5, PlacesKept
    <2>2. QED BY <1>2, <2>1 DEF NoNewEntry
  <1>6. QED BY <1>4, <1>5

\* What the step of a service that is over must show.
Plain == Quiet(os', os) /\ halted' \in BOOLEAN /\ NoNewEntry

LEMMA QuietSame == ASSUME NEW n, NEW k, n.state = k.state PROVE Quiet(n, k)
  BY DEF Quiet

LEMMA ChainSelfQuiet == ASSUME KernelInv, ChainSelf PROVE Quiet(os', os) /\ halted' \in BOOLEAN
  <1>1. Dispatch(os, From("ChainTask")) /\ "ChainTask" \in Context \ {"entry"}
    BY DEF ChainSelf, Context
  <1>2. Sound(os) /\ Quiet(os, os)
    BY QuietSame DEF KernelInv
  <1>3. QED BY <1>1, <1>2, PlainCounts

\* The running task makes way for one of higher priority.
LEMMA YieldPlain ==
    ASSUME KernelInv, NEW k, Sound(k), k.curr = os.curr, k.state[os.curr] = "RUNNING",
           Quiet(k, os), NEW t \in Task, k.state[t] \in Busy, k.prio[k.curr] < k.prio[t],
           Dispatch(RunningToReady(k, os.curr), From("body"))
    PROVE  Plain
  <1>1. PICK n : n = RunningToReady(k, os.curr)
    OBVIOUS
  <1>2. /\ Sound(n) /\ n.curr = os.curr /\ SamePriorities(n, k) /\ SameRest(n, k)
    <2>1. os.curr \in Task /\ k.state[os.curr] \in Busy
      BY Before DEF Busy
    <2>2. QED BY <1>1, <2>1, StillReady
  <1>3. Quiet(n, os)
    BY <1>2, QuietThrough
  <1>4. n.state[t] \in Busy /\ n.prio[n.curr] < n.prio[t]
    BY <1>2 DEF SamePriorities, SameRest
  <1>5. ~Restarts(n)
    BY <1>2, <1>4, HigherWins
  <1>6. Dispatch(n, From("body")) /\ "body" \in Context \ {"entry"}
    BY <1>1 DEF Context
  <1>7. QED BY <1>2, <1>3, <1>5, <1>6, PlainCounts DEF Plain

\* The top of a ready list, when it is above the running task.
LEMMA TopAbove ==
    ASSUME NEW k, Sound(k), k.prio[TaskGetTop(k)] > k.prio[k.curr]
    PROVE  \E t \in Task : k.state[t] \in Busy /\ k.prio[k.curr] < k.prio[t]
  <1>1. /\ k.prio \in [Task -> 0..OS_RES_SCHEDULER_PRIO] /\ k.curr \in Task
        /\ OS_RES_SCHEDULER_PRIO \in Nat
    BY FieldsTyped DEF Sound, OS_RES_SCHEDULER_PRIO
  <1>2. PICK t \in Task : t = TaskGetTop(k) /\ k.state[t] \in Busy
    BY TopOfList
  <1>3. k.prio[k.curr] < k.prio[t]
    BY <1>1, <1>2
  <1>4. QED BY <1>2, <1>3

LEMMA SchedulePlain == ASSUME KernelInv, Schedule PROVE Plain
  <1>1. /\ Dispatch(RunningToReady(os, os.curr), From("body"))
        /\ os.prio[TaskGetTop(os)] > os.prio[os.curr]
    BY DEF Schedule, curr
  <1>2. Sound(os) /\ os.state[os.curr] = "RUNNING" /\ Quiet(os, os)
    BY QuietSame DEF KernelInv
  <1>3. PICK t \in Task : os.state[t] \in Busy /\ os.prio[os.curr] < os.prio[t]
    BY <1>1, <1>2, TopAbove
  <1>4. QED BY <1>1, <1>2, <1>3, YieldPlain

LEMMA BitsPlain ==
    ASSUME KernelInv, NEW d \in Task, NEW m, SetBits(d, m)
    PROVE  (halted' = TRUE /\ UNCHANGED <<os, context>>) \/ Plain
  <1> DEFINE wakes == os.state[d] = "WAITING" /\ m \cap ev_wait[d] # {}
             k == IF wakes THEN MakeReady(os, d) ELSE os
  <1>1. \/ halted' = TRUE /\ UNCHANGED <<os, context>>
        \/ k # os /\ Preempts(k, d) /\ Dispatch(RunningToReady(k, os.curr), From("body"))
        \/ Continue(k, From("body"))
    BY DEF SetBits, curr
  <1>2. /\ Sound(k) /\ k.curr = os.curr /\ k.state[os.curr] = "RUNNING" /\ Quiet(k, os)
        /\ k # os => k.state[d] \in Busy
    <2>1. CASE wakes
      <3>1. /\ Sound(k) /\ k.curr = os.curr
            /\ k.state[d] \in Busy /\ \A u \in Task \ {d} : k.state[u] = os.state[u]
        BY <2>1, MadeReady DEF KernelInv
      <3>2. os.curr # d /\ os.curr \in Task
        BY <2>1, Before DEF KernelInv
      <3>3. QED BY <2>1, <3>1, <3>2 DEF KernelInv, Busy, Quiet
    <2>2. CASE ~wakes
      BY <2>2, QuietSame DEF KernelInv
    <2>3. QED BY <2>1, <2>2
  <1> HIDE DEF k, wakes
  <1>3. CASE Continue(k, From("body"))
    BY <1>2, <1>3, PlainCounts DEF Plain, Context
  <1>4. CASE k # os /\ Preempts(k, d) /\ Dispatch(RunningToReady(k, os.curr), From("body"))
    <2>1. k.prio[d] > k.prio[k.curr]
      BY <1>4 DEF Preempts
    <2>2. k.prio[k.curr] < k.prio[d]
      <3>1. /\ k.prio \in [Task -> 0..OS_RES_SCHEDULER_PRIO] /\ k.curr \in Task
            /\ OS_RES_SCHEDULER_PRIO \in Nat
        BY <1>2, FieldsTyped DEF Sound, OS_RES_SCHEDULER_PRIO
      <3>2. QED BY <2>1, <3>1
    <2>3. QED BY <1>2, <1>4, <2>2, YieldPlain
  <1>5. QED BY <1>1, <1>3, <1>4

LEMMA ReleasePlain == ASSUME KernelInv, ReleaseResource PROVE Plain
  <1> DEFINE held == resourceHead[os.curr]
             r == held[Len(held)]
  <1>1. PICK k : k = ResourceRemove(os, r, os.curr)
    OBVIOUS
  <1>2. /\ held # << >>
        /\ \/ Preempts(k, TaskGetTop(k)) /\ Dispatch(RunningToReady(k, os.curr), From("body"))
           \/ Continue(k, From("body"))
    BY <1>1 DEF ReleaseResource, curr
  <1>3. r \in AnyResource
    <2>1. held \in Seq(AnyResource)
      BY Before
    <2>2. QED BY <1>2, <2>1
  <1> HIDE DEF held, r
  <1>4. Sound(k) /\ k.curr = os.curr /\ k.state = os.state
    BY <1>1, <1>3, Before, ResourcesTyped DEF KernelInv
  <1>5. k.state[os.curr] = "RUNNING" /\ Quiet(k, os)
    BY <1>4, QuietSame DEF KernelInv
  <1>6. CASE Continue(k, From("body"))
    BY <1>4, <1>5, <1>6, PlainCounts DEF Plain, Context
  <1>7. CASE Preempts(k, TaskGetTop(k)) /\ Dispatch(RunningToReady(k, os.curr), From("body"))
    <2>1. k.prio[TaskGetTop(k)] > k.prio[k.curr]
      BY <1>7 DEF Preempts
    <2>2. PICK t \in Task : k.state[t] \in Busy /\ k.prio[k.curr] < k.prio[t]
      BY <1>4, <2>1, TopAbove
    <2>3. QED BY <1>4, <1>5, <1>7, <2>2, YieldPlain
  <1>8. QED BY <1>2, <1>6, <1>7

LEMMA GetPlain == ASSUME KernelInv, NEW r \in AnyResource, GetResource(r) PROVE Plain
  <1>1. PICK k : k = ResourceAdd(os, r, os.curr)
    OBVIOUS
  <1>2. Continue(k, From("body"))
    BY <1>1 DEF GetResource, curr
  <1>3. Sound(k) /\ k.curr = os.curr /\ k.state = os.state
    BY <1>1, Before, ResourcesTyped DEF KernelInv
  <1>4. k.state[k.curr] = "RUNNING" /\ Quiet(k, os)
    BY <1>3, QuietSame DEF KernelInv
  <1>5. QED BY <1>2, <1>3, <1>4, PlainCounts DEF Plain, Context

LEMMA EventPlain ==
    ASSUME KernelInv, NEW d \in Task, NEW m \in Mask, SetEventValidated(d, m) \/ ClearEvent(m)
    PROVE  Plain
  <1>1. PICK place \in {"SetEvent", "body"} : Continue(os, From(place))
    BY DEF SetEventValidated, ClearEvent, Continue
  <1>2. Sound(os) /\ os.state[os.curr] = "RUNNING" /\ Quiet(os, os)
    BY QuietSame DEF KernelInv
  <1>3. QED BY <1>1, <1>2, PlainCounts DEF Plain, Context

LEMMA WaitPlain == ASSUME KernelInv, NEW m \in Mask, WaitEvent(m) PROVE Plain
  <1>1. /\ Calls[os.curr] # {} /\ Waiter(os.curr)
        /\ Continue(os, From("body")) \/ Dispatch(Unlist(os, os.curr, "WAITING"), From("body"))
    BY DEF WaitEvent, Calling, curr, Waiter
  <1>2. Sound(os) /\ os.state[os.curr] = "RUNNING" /\ os.curr \in Task /\ os.curr # Idle
    BY <1>1, Before, IdleTask DEF KernelInv
  <1>3. "body" \in Context \ {"entry"} /\ Quiet(os, os)
    BY QuietSame DEF Context
  <1>4. CASE Continue(os, From("body"))
    BY <1>2, <1>3, <1>4, PlainCounts DEF Plain
  <1>5. CASE Dispatch(Unlist(os, os.curr, "WAITING"), From("body"))
    <2>1. PICK k : k = Unlist(os, os.curr, "WAITING")
      OBVIOUS
    <2>2. /\ Sound(k) /\ k.curr = os.curr
          /\ k.state[os.curr] = "WAITING" /\ \A u \in Task \ {os.curr} : k.state[u] = os.state[u]
      <3>1. os.state[os.curr] \in Busy
        BY <1>2 DEF Busy
      <3>2. QED BY <1>2, <2>1, <3>1, Unlisted
    <2>3. Quiet(k, os)
      BY <1>1, <1>2, <2>2 DEF Quiet
    <2>4. ~Restarts(k)
      BY <2>2, RestingYields DEF Resting
    <2>5. QED BY <1>3, <1>5, <2>1, <2>2, <2>3, <2>4, PlainCounts DEF Plain
  <1>6. QED BY <1>1, <1>4, <1>5

LEMMA InterruptPlain == ASSUME KernelInv, EnterIsr \/ LeaveIsr PROVE Plain
  <1>1. UNCHANGED context /\ halted' \in BOOLEAN
    <2>1. CASE EnterIsr
      BY <2>1, Before DEF EnterIsr
    <2>2. CASE LeaveIsr
      <3>1. halted' \in BOOLEAN
        BY <2>2, Zenon DEF LeaveIsr
      <3>2. QED BY <2>2, <3>1 DEF LeaveIsr
    <2>3. QED BY <2>1, <2>2
  <1>2. NoNewEntry
    BY <1>1 DEF NoNewEntry
  <1>3. CASE UNCHANGED os
    BY <1>1, <1>2, <1>3, QuietSame DEF Plain
  <1>4. CASE ~UNCHANGED os
    <2>1. PICK k : k = RunningToReady(os, os.curr)
      OBVIOUS
    <2>2. os' = TailChaining(k)
      BY <1>4, <2>1 DEF EnterIsr, LeaveIsr, curr
    <2>3. os.state[os.curr] \in Busy /\ Sound(os) /\ os.curr \in Task
      BY Before DEF KernelInv, Busy
    <2>4. Sound(k) /\ k.curr = os.curr /\ SameRest(k, os) /\ k.state[k.curr] \in Busy
      BY <2>1, <2>3, StillReady
    <2>5. PICK t \in {k.curr, TaskGetTop(k)} : os' = SwapTo(k, t)
      BY <2>2 DEF TailChaining
    <2>6. t \in Task /\ k.state[t] \in Busy
      BY <2>3, <2>4, <2>5, TopOfList
    <2>7. SameRest(os', k)
      BY <2>4, <2>5, <2>6, Swapped
    <2>8. Quiet(k, os)
      BY <2>4 DEF Quiet, SameRest, Busy
    <2>9. Quiet(os', os)
      BY <2>7, <2>8, QuietThrough
    <2>10. QED BY <1>1, <1>2, <2>9 DEF Plain
  <1>5. QED BY <1>3, <1>4

\* The services that neither begin nor end an activation.
OtherService ==
    \/ Schedule \/ SetEvent \/ ReleaseResource
    \/ \E d \in Task, m \in Mask : SetEventValidated(d, m)
    \/ \E m \in Mask : ClearEvent(m) \/ WaitEvent(m)
    \/ \E r \in StandardResource \cup {RES_SCHEDULER} : GetResource(r)
    \/ Interrupt
Serviced ==
    /\ ~halted /\ UNCHANGED activations
    /\ \/ halted' = TRUE /\ UNCHANGED os
       \/ Quiet(os', os) /\ halted' \in BOOLEAN

LEMMA OthersPlain ==
    ASSUME KernelInv, OtherService
    PROVE  (halted' = TRUE /\ UNCHANGED <<os, context>>) \/ Plain
  <1>1. CASE Schedule \/ ReleaseResource
    BY <1>1, SchedulePlain, ReleasePlain
  <1>2. CASE SetEvent
    BY <1>2, Before, BitsPlain DEF SetEvent, curr
  <1>3. ASSUME NEW d \in Task, NEW m \in Mask, SetEventValidated(d, m) PROVE Plain
    BY <1>3, EventPlain
  <1>4. ASSUME NEW m \in Mask, ClearEvent(m) \/ WaitEvent(m) PROVE Plain
    BY <1>4, Before, EventPlain, WaitPlain
  <1>5. ASSUME NEW r \in StandardResource \cup {RES_SCHEDULER}, GetResource(r) PROVE Plain
    BY <1>5, ResourceSplit, GetPlain
  <1>6. CASE Interrupt
    <2>1. ASSUME NEW d \in Task, NEW m \in Mask, IsrSetEvent(d, m)
          PROVE  (halted' = TRUE /\ UNCHANGED <<os, context>>) \/ Plain
      BY <2>1, BitsPlain DEF IsrSetEvent
    <2>2. QED BY <1>6, <2>1, InterruptPlain DEF Interrupt
  <1>7. QED BY <1>1, <1>2, <1>3, <1>4, <1>5, <1>6, Zenon DEF OtherService

LEMMA ServicesPlain == ASSUME KernelInv, ChainSelf \/ OtherService PROVE Serviced
  <1>1. CASE ChainSelf
    <2>1. ~halted /\ UNCHANGED activations
      BY <1>1 DEF ChainSelf, Calling
    <2>2. QED BY <1>1, <2>1, ChainSelfQuiet DEF Serviced
  <1>2. CASE OtherService
    <2>1. ~halted
      BY <1>2 DEF OtherService, Schedule, SetEvent, ReleaseResource, SetEventValidated, ClearEvent,
             WaitEvent, GetResource, Interrupt, EnterIsr, LeaveIsr, IsrSetEvent, Calling, InIsr
    <2>2. UNCHANGED activations
      BY <1>2 DEF OtherService, Schedule, SetEvent, ReleaseResource, SetEventValidated, ClearEvent,
             WaitEvent, GetResource, Interrupt, EnterIsr, LeaveIsr, IsrSetEvent, SetBits
    <2>3. QED BY <1>2, <2>1, <2>2, OthersPlain DEF Plain, Serviced
  <1>3. QED BY <1>1, <1>2

-----------------------------------------------------------------------------
(* Each accepted activation is counted until it is over.                   *)

LEMMA ActivateCounts ==
    ASSUME KernelInv, Counted, NEW d \in Task, ActivateTask(d), Accept(d)
    PROVE  Counted'
  <1>1. PICK k : k = ReadyFor(d)
    OBVIOUS
  <1>2. PICK at : at = IF os.state[d] = "SUSPENDED" THEN [From("body") EXCEPT ![d] = "entry"]
                       ELSE From("body")
    OBVIOUS
  <1>3. /\ activations' = [activations EXCEPT ![d] = @ + 1]
        /\ Dispatch(k, at) \/ Continue(k, at)
        /\ halted = FALSE
    BY <1>1, <1>2, Before DEF ActivateTask, ReadyFor, Calling, InIsr
  <1>4. /\ Sound(k) /\ k.curr = os.curr /\ k.state[os.curr] = "RUNNING"
        /\ k.state[d] # "SUSPENDED" /\ (os.state[d] = "SUSPENDED" => k.state[d] \in Busy)
        /\ \A t \in Task \ {d} : k.state[t] = os.state[t]
        /\ os.state[d] # "SUSPENDED" => k = os
    BY <1>1, ActivatedReady
  <1>5. at \in [Task -> Context]
    BY <1>2, PlaceTyped DEF Context
  <1>6. Moved(k)
    BY <1>3, <1>4, <1>5, Before, ServiceEnds
  <1>7. FitStates(k)
    BY <1>4 DEF Counted, FitStates, Busy
  <1>8. /\ accepted' \in [Task -> Int] /\ accepted'[d] = accepted[d] + 1
        /\ \A t \in Task \ {d} : accepted'[t] = accepted[t]
    BY DEF Accept, Counted
  <1>9. activations'[d] = activations[d] + 1 /\ 1 <= activations'[d]
        /\ \A t \in Task \ {d} : activations'[t] = activations[t]
    BY <1>3, Counts
  <1>10. FitCounts(accepted', activations', k)
    BY <1>3, <1>4, <1>8, <1>9 DEF Counted, FitCounts
  <1>11. QED BY <1>6, <1>7, <1>8, <1>10, CountedOn DEF Moved

LEMMA RetireCounts ==
    ASSUME KernelInv, Counted, NEW k, Sound(k), k.curr = os.curr, k.state = os.state,
           Calls[os.curr] \cap Ends # {}, Dispatch(Retire(k), From("TerminateTask")), ~halted,
           activations' = [activations EXCEPT ![curr] = Retired], Perform
    PROVE  Counted'
  <1>1. PICK n : n = Retire(k)
    OBVIOUS
  <1>2. /\ Sound(n) /\ n.curr = os.curr
        /\ \A t \in Task \ {os.curr} : n.state[t] = os.state[t]
        /\ IF activations[os.curr] > 1 THEN n = k ELSE n.state[os.curr] = "SUSPENDED"
        /\ Retired = IF activations[os.curr] > 1 THEN activations[os.curr] - 1 ELSE 0
    BY <1>1, Retires DEF KernelInv
  <1>3. From("TerminateTask") \in [Task -> Context]
    BY PlaceTyped DEF Context
  <1>4. Moved(n)
    BY <1>1, <1>2, <1>3, Before, ServiceEnds
  <1>5. os.curr \in Task /\ os.state[os.curr] = "RUNNING" /\ activations[os.curr] \in Nat
    BY Before, Counts DEF KernelInv
  <1>6. FitStates(n)
    <2>1. n.state[os.curr] # "WAITING"
      BY <1>2, <1>5
    <2>2. QED BY <1>2, <2>1 DEF Counted, FitStates
  <1>7. /\ accepted' \in [Task -> Int] /\ accepted'[os.curr] = accepted[os.curr] - 1
        /\ \A t \in Task \ {os.curr} : accepted'[t] = accepted[t]
    BY <1>5 DEF Perform, Counted, curr
  <1>8. /\ activations'[os.curr] = Retired
        /\ \A t \in Task \ {os.curr} : activations'[t] = activations[t]
    BY <1>5, Counts DEF curr
  <1>9. FitCounts(accepted', activations', n)
    <2>1. FitCounts(accepted, activations, os)
      BY DEF Counted
    <2>2. ASSUME ~Late(os.curr)
          PROVE  /\ accepted'[os.curr] = activations'[os.curr]
                 /\ n.state[os.curr] # "SUSPENDED" => 1 <= activations'[os.curr]
      <3>1. accepted[os.curr] = activations[os.curr] /\ 1 <= activations[os.curr]
        BY <1>5, <2>1, <2>2 DEF FitCounts
      <3>2. QED BY <1>2, <1>5, <1>7, <1>8, <3>1
    <2>3. QED BY <1>2, <1>7, <1>8, <2>1, <2>2 DEF FitCounts
  <1>10. QED BY <1>4, <1>6, <1>7, <1>9, CountedOn DEF Moved

LEMMA TerminateCounts ==
    ASSUME KernelInv, Counted, TerminateTask, Perform PROVE Counted'
  <1>1. /\ Dispatch(Retire(os), From("TerminateTask")) /\ ~halted
        /\ Calls[os.curr] \cap Ends # {}
        /\ activations' = [activations EXCEPT ![curr] = Retired]
    BY DEF TerminateTask, Calling, curr, Ends
  <1>2. QED BY <1>1, RetireCounts DEF KernelInv

LEMMA ReturnCounts == ASSUME KernelInv, Counted, Return, Perform PROVE Counted'
  <1> DEFINE held == resourceHead[os.curr]
             k == IF held = << >> THEN os ELSE ResourceRemove(os, held[1], os.curr)
  <1>1. /\ Calls[os.curr] \cap Ends # {} /\ ~halted
        /\ \/ halted' = TRUE /\ UNCHANGED <<os, context, activations, resourceHead>>
           \/ /\ activations' = [activations EXCEPT ![curr] = Retired]
              /\ Dispatch(Retire(k), From("TerminateTask"))
    BY DEF Return, Calling, curr, Ends
  <1>2. Sound(k) /\ k.curr = os.curr /\ k.state = os.state
    BY HeldFreed
  <1> HIDE DEF k, held
  <1>3. CASE halted' = TRUE /\ UNCHANGED os
    <2>1. SameRest(os', os) /\ os.curr \in Task
      BY <1>3, Before DEF SameRest
    <2>2. accepted' \in [Task -> Int]
      BY <2>1 DEF Perform, Counted, curr
    <2>3. QED BY <1>3, <2>1, <2>2, CountedOn DEF Counted
  <1>4. CASE /\ activations' = [activations EXCEPT ![curr] = Retired]
             /\ Dispatch(Retire(k), From("TerminateTask"))
    BY <1>1, <1>2, <1>4, RetireCounts
  <1>5. QED BY <1>1, <1>3, <1>4

LEMMA ChainCounts ==
    ASSUME KernelInv, Counted, NEW d \in Task, ChainTask(d),
           accepted' = [accepted EXCEPT ![d] = @ + 1, ![curr] = @ - 1]
    PROVE  Counted'
  <1>1. PICK n : n = Handed(d)
    OBVIOUS
  <1>2. PICK at \in [Task -> Context] : at = HandedAt(d)
    BY Handing
  <1>3. /\ d # os.curr /\ os.curr \in Task /\ ~halted /\ Calls[os.curr] \cap Ends # {}
        /\ activations' = [activations EXCEPT ![d] = @ + 1, ![os.curr] = Retired]
        /\ Dispatch(n, at)
    BY <1>1, <1>2, Handing DEF ChainTask, Calling, curr, Ends
  <1>4. /\ Sound(n) /\ n.curr = os.curr
        /\ \A t \in Task \ {os.curr, d} : n.state[t] = os.state[t]
        /\ n.state[d] # "SUSPENDED" /\ (n.state[d] = "WAITING" => os.state[d] = "WAITING")
        /\ IF activations[os.curr] > 1
           THEN n.state[os.curr] \in Busy /\ Retired = activations[os.curr] - 1
           ELSE n.state[os.curr] = "SUSPENDED" /\ Retired = 0
        /\ Retired \in 0..activationLimit[os.curr]
    BY <1>1, HandedSound
  <1>5. Moved(n)
    BY <1>3, <1>4, Before, ServiceEnds
  <1>6. FitStates(n)
    <2>1. n.state[os.curr] # "WAITING"
      BY <1>4 DEF Busy
    <2>2. QED BY <1>3, <1>4, <2>1 DEF Counted, FitStates
  <1>7. /\ accepted' \in [Task -> Int] /\ accepted'[os.curr] = accepted[os.curr] - 1
        /\ accepted'[d] = accepted[d] + 1
        /\ \A t \in Task \ {d, os.curr} : accepted'[t] = accepted[t]
    BY <1>3 DEF Counted, curr
  <1>8. /\ activations'[os.curr] = Retired /\ activations'[d] = activations[d] + 1
        /\ \A t \in Task \ {d, os.curr} : activations'[t] = activations[t]
    <2>1. Retired \in Nat
      BY <1>3, <1>4, Counts
    <2>2. QED BY <1>3, <2>1, Counts
  <1>9. FitCounts(accepted', activations', n)
    <2>1. FitCounts(accepted, activations, os)
      BY <1>3 DEF Counted
    <2>2. activations[os.curr] \in Nat /\ activations[d] \in Nat
          /\ os.state[os.curr] # "SUSPENDED"
      BY <1>3, Counts DEF KernelInv
    <2>3. ASSUME ~Late(os.curr)
          PROVE  /\ accepted'[os.curr] = activations'[os.curr]
                 /\ n.state[os.curr] # "SUSPENDED" => 1 <= activations'[os.curr]
      <3>1. accepted[os.curr] = activations[os.curr] /\ 1 <= activations[os.curr]
        BY <1>3, <2>1, <2>2, <2>3 DEF FitCounts
      <3>2. QED BY <1>4, <1>7, <1>8, <2>2, <3>1
    <2>4. ASSUME ~Late(d)
          PROVE  accepted'[d] = activations'[d] /\ 1 <= activations'[d]
      <3>1. accepted[d] = activations[d]
        BY <2>1, <2>4 DEF FitCounts
      <3>2. QED BY <1>7, <1>8, <2>2, <3>1
    <2>5. QED BY <1>4, <1>7, <1>8, <2>1, <2>3, <2>4 DEF FitCounts
  <1>10. QED BY <1>5, <1>6, <1>7, <1>9, CountedOn DEF Moved

LEMMA StepCounts == ASSUME KernelInv, Counted, ObservedNext PROVE Counted'
  <1>1. ASSUME NEW d \in Task, ActivateTask(d), Accept(d) PROVE Counted'
    BY <1>1, ActivateCounts
  <1>2. ASSUME NEW d \in Task, ChainTask(d),
               accepted' = [accepted EXCEPT ![d] = @ + 1, ![curr] = @ - 1]
        PROVE  Counted'
    BY <1>2, ChainCounts
  <1>3. CASE (TerminateTask \/ Return) /\ Perform
    BY <1>3, TerminateCounts, ReturnCounts
  <1>4. CASE /\ \/ ChainSelf \/ Schedule \/ SetEvent \/ ReleaseResource
                \/ \E d \in Task, m \in Mask : SetEventValidated(d, m)
                \/ \E m \in Mask : ClearEvent(m) \/ WaitEvent(m)
                \/ \E r \in StandardResource \cup {RES_SCHEDULER} : GetResource(r)
                \/ Interrupt
             /\ UNCHANGED accepted
    <2>1. ChainSelf \/ OtherService
      BY <1>4, Zenon DEF OtherService
    <2>2. Serviced
      BY <2>1, ServicesPlain
    <2>3. CASE halted' = TRUE /\ UNCHANGED os
      <3>1. SameRest(os', os) /\ accepted' \in [Task -> Int]
        BY <1>4, <2>3 DEF SameRest, Counted
      <3>2. QED BY <2>3, <3>1, CountedOn DEF Counted
    <2>4. CASE Quiet(os', os) /\ halted' \in BOOLEAN
      BY <1>4, <2>2, <2>4, CountedQuiet DEF Serviced
    <2>5. QED BY <2>2, <2>3, <2>4 DEF Serviced
  <1>5. QED BY <1>1, <1>2, <1>3, <1>4, Zenon DEF ObservedNext

\* The first task runs, the others started with the system are ready.
LEMMA StartsTop ==
    ASSUME Init
    PROVE  /\ TaskGetTop(AutostartTasks) \in Task /\ os.curr = TaskGetTop(AutostartTasks)
           /\ \A t \in Task : /\ os.state[t] # "WAITING"
                              /\ os.state[t] # "SUSPENDED" <=> Started(t)
  <1>1. PICK k : k = StartRecord(Idle)
    OBVIOUS
  <1>2. Sound(k) /\ TaskGetTop(k) = TaskGetTop(AutostartTasks)
        /\ TaskGetTop(k) \in Task /\ k.state[TaskGetTop(k)] \in Busy
    BY <1>1, StartSound, TopOfList
  <1>3. os = SwapTo(k, TaskGetTop(k))
    BY <1>1, <1>2, StartSound DEF Init
  <1>4. os.curr = TaskGetTop(k) /\ SameRest(os, k)
    BY <1>2, <1>3, Swapped
  <1>5. \A t \in Task : k.state[t] = IF Started(t) THEN "READY" ELSE "SUSPENDED"
    BY <1>1 DEF StartRecord, StartStates, Started
  <1>6. \A t \in Task : /\ os.state[t] # "WAITING"
                        /\ os.state[t] # "SUSPENDED" <=> Started(t)
    BY <1>4, <1>5 DEF SameRest, Busy
  <1>7. QED BY <1>2, <1>4, <1>6

LEMMA StartCounts == ASSUME ObservedInit PROVE Counted
  <1>2. PICK first \in Task : first = TaskGetTop(AutostartTasks) /\ os.curr = first
    BY StartsTop DEF ObservedInit
  <1>3. \A t \in Task : /\ os.state[t] # "WAITING"
                        /\ os.state[t] # "SUSPENDED" <=> Started(t)
    BY StartsTop DEF ObservedInit
  <1>4. /\ accepted = [t \in Task |-> IF Started(t) THEN 1 ELSE 0]
        /\ activations = [t \in Task |-> IF t = os.curr THEN 1 ELSE 0] /\ halted = FALSE
    BY DEF ObservedInit, Init, Started
  <1>5. FitStates(os)
    BY <1>3 DEF FitStates
  <1>6. Started(first)
    BY <1>2, <1>3, StartKeeps DEF ObservedInit, KernelInv
  <1>7. FitCounts(accepted, activations, os)
    BY <1>2, <1>3, <1>4, <1>6 DEF FitCounts, Late
  <1>8. accepted \in [Task -> Int]
    BY <1>4
  <1>9. QED BY <1>5, <1>7, <1>8 DEF Counted

LEMMA CountedInvariant == ObservedSpec => [](KernelInv /\ Counted)
  <1>1. ObservedInit => KernelInv /\ Counted
    BY StartKeeps, StartCounts DEF ObservedInit
  <1>2. KernelInv /\ Counted /\ [ObservedNext]_observedVars => (KernelInv /\ Counted)'
    <2>1. KernelInv /\ Counted /\ UNCHANGED observedVars => Counted'
      BY DEF observedVars, vars, Counted, FitStates, FitCounts
    <2>2. QED BY <2>1, StepKeeps, StepCounts, StutterKeeps
  <1>3. QED BY <1>1, <1>2, PTL DEF ObservedSpec

\* Where nobody activates a task, it has the activation it was started with until
\* it ends, registered or not.
Single ==
    \A t \in Task :
       /\ activations[t] <= 1
       /\ ~halted => accepted[t] = IF os.state[t] = "SUSPENDED" THEN 0 ELSE 1

LEMMA RetireSingle ==
    ASSUME KernelInv, Counted, Single, NEW k, Sound(k), k.curr = os.curr, k.state = os.state,
           Calls[os.curr] # {}, Dispatch(Retire(k), From("TerminateTask")), ~halted,
           activations' = [activations EXCEPT ![curr] = Retired], Perform
    PROVE  Single'
  <1>1. PICK n : n = Retire(k)
    OBVIOUS
  <1>2. /\ os.curr \in Task /\ os.state[os.curr] = "RUNNING"
        /\ activations[os.curr] \in Nat /\ activations[os.curr] <= 1
    BY Before, Counts DEF KernelInv, Single
  <1>3. /\ Sound(n) /\ n.curr = os.curr /\ n.state[os.curr] = "SUSPENDED" /\ Retired = 0
        /\ \A t \in Task \ {os.curr} : n.state[t] = os.state[t]
    BY <1>1, <1>2, Retires DEF KernelInv
  <1>4. From("TerminateTask") \in [Task -> Context]
    BY PlaceTyped DEF Context
  <1>5. SameRest(os', n)
    BY <1>1, <1>3, <1>4, Before, ServiceEnds DEF Moved
  <1>6. \A t \in Task : os'.state[t] = "SUSPENDED" <=> n.state[t] = "SUSPENDED"
    BY <1>5 DEF SameRest, Busy
  <1>7. /\ accepted'[os.curr] = accepted[os.curr] - 1
        /\ \A t \in Task \ {os.curr} : accepted'[t] = accepted[t]
    BY <1>2 DEF Perform, Counted, curr
  <1>8. /\ activations'[os.curr] = 0
        /\ \A t \in Task \ {os.curr} : activations'[t] = activations[t]
    BY <1>2, <1>3, Counts DEF curr
  <1>9. accepted[os.curr] = 1
    BY <1>2 DEF Single
  <1>10. QED BY <1>3, <1>6, <1>7, <1>8, <1>9 DEF Single

LEMMA StepSingle ==
    ASSUME Unactivated, KernelInv, Counted, Single, ObservedNext
    PROVE  Single'
  <1> DEFINE held == resourceHead[os.curr]
             k == IF held = << >> THEN os ELSE ResourceRemove(os, held[1], os.curr)
  <1>1. os.curr \in Task
    BY Before
  <1>2. ASSUME NEW d \in Task, ActivateTask(d) \/ ChainTask(d) PROVE FALSE
    BY <1>1, <1>2 DEF ActivateTask, ChainTask, Calling, InIsr, Unactivated, curr
  <1>3. CASE TerminateTask /\ Perform
    <2>1. /\ Dispatch(Retire(os), From("TerminateTask")) /\ ~halted /\ Calls[os.curr] # {}
          /\ activations' = [activations EXCEPT ![curr] = Retired]
      BY <1>3 DEF TerminateTask, Calling, curr
    <2>2. QED BY <1>3, <2>1, RetireSingle DEF KernelInv
  <1>4. CASE Return /\ Perform
    <2>1. /\ ~halted /\ Calls[os.curr] # {}
          /\ \/ halted' = TRUE /\ UNCHANGED activations
             \/ /\ activations' = [activations EXCEPT ![curr] = Retired]
                /\ Dispatch(Retire(k), From("TerminateTask"))
      BY <1>4 DEF Return, Calling, curr
    <2>2. Sound(k) /\ k.curr = os.curr /\ k.state = os.state
      BY HeldFreed
    <2> HIDE DEF k, held
    <2>3. CASE halted' = TRUE /\ UNCHANGED activations
      BY <2>3 DEF Single
    <2>4. QED BY <1>4, <2>1, <2>2, <2>3, RetireSingle
  <1>5. CASE /\ \/ ChainSelf \/ Schedule \/ SetEvent \/ ReleaseResource
                \/ \E d \in Task, m \in Mask : SetEventValidated(d, m)
                \/ \E m \in Mask : ClearEvent(m) \/ WaitEvent(m)
                \/ \E r \in StandardResource \cup {RES_SCHEDULER} : GetResource(r)
                \/ Interrupt
             /\ UNCHANGED accepted
    <2>1. ChainSelf \/ OtherService
      BY <1>5, Zenon DEF OtherService
    <2>2. Serviced
      BY <2>1, ServicesPlain
    <2>3. QED BY <1>5, <2>2 DEF Serviced, Single, Quiet
  <1>6. QED BY <1>2, <1>3, <1>4, <1>5, Zenon DEF ObservedNext

LEMMA SingleInvariant == ASSUME Unactivated PROVE ObservedSpec => []Single
  <1>1. ObservedInit => Single
    <2> SUFFICES ASSUME ObservedInit PROVE Single
      OBVIOUS
    <2>1. \A t \in Task : os.state[t] # "SUSPENDED" <=> Started(t)
      BY StartsTop DEF ObservedInit
    <2>2. /\ accepted = [t \in Task |-> IF Started(t) THEN 1 ELSE 0]
          /\ activations = [t \in Task |-> IF t = os.curr THEN 1 ELSE 0]
      BY DEF ObservedInit, Init, Started
    <2>3. QED BY <2>1, <2>2 DEF Single
  <1>2. KernelInv /\ Counted /\ Single /\ [ObservedNext]_observedVars => Single'
    BY StepSingle DEF observedVars, vars, Single
  <1>3. QED BY <1>1, <1>2, CountedInvariant, PTL DEF ObservedSpec

\* Every activation that was accepted is performed (os_task.c:413-470, 622-700):
\* a task is suspended only when none is left.  A task started with the system
\* without being the first to run is not counted (os_init.c:165-260), so such a
\* task must never end, or nobody may activate it.  In pwc OsTask_Main is one: it
\* returns (Tasks.c:28-38), but nobody activates a task there.
THEOREM AllPerformed ==
    ASSUME LateEndless \/ Unactivated PROVE ObservedSpec => []ActivationsPerformed
  <1>1. CASE LateEndless
    <2>1. KernelInv /\ Counted => ActivationsPerformed
      <3> SUFFICES ASSUME KernelInv, Counted, ~halted, NEW t \in Task, os.state[t] = "SUSPENDED"
                   PROVE  accepted[t] = 0
        BY DEF ActivationsPerformed
      <3>1. ~Late(t)
        BY <1>1 DEF Counted, FitStates, Late, LateEndless
      <3>2. accepted[t] = activations[t]
        BY <3>1 DEF Counted, FitCounts
      <3>3. QED BY <3>2, Counts
    <2>2. QED BY <2>1, CountedInvariant, PTL
  <1>2. CASE Unactivated
    <2>1. ObservedSpec => []Single
      BY <1>2, SingleInvariant
    <2>2. Single => ActivationsPerformed
      BY DEF Single, ActivationsPerformed
    <2>3. QED BY <2>1, <2>2, PTL
  <1>3. QED BY <1>1, <1>2

-----------------------------------------------------------------------------
(* A task begins anew only when it has ended.                              *)

\* Activating a task that runs, is ready or waits starts nobody anew.
LEMMA ActivateRestarts ==
    ASSUME LateActive, KernelInv, Counted, NEW d \in Task, ActivateTask(d)
    PROVE  NoNewEntry
  <1>1. PICK k : k = ReadyFor(d)
    OBVIOUS
  <1>2. PICK at : at = IF os.state[d] = "SUSPENDED" THEN [From("body") EXCEPT ![d] = "entry"]
                       ELSE From("body")
    OBVIOUS
  <1>3. /\ IF Preempts(k, d) THEN Dispatch(k, at) ELSE Continue(k, at)
        /\ ~LimitReached(d) /\ ~halted
        /\ intNestCnt = 0 => "ActivateTask" \in Calls[os.curr]
    BY <1>1, <1>2, Before DEF ActivateTask, ReadyFor, Calling, InIsr, curr
  <1>4. /\ Sound(k) /\ k.curr = os.curr
        /\ os.state[d] = "SUSPENDED" => k.state[d] \in Busy
        /\ os.state[d] # "SUSPENDED" => k = os
    BY <1>1, ActivatedReady
  <1>5. /\ at \in [Task -> Context]
        /\ \A t \in Task : at[t] = "entry" /\ context[t] # "entry" => os.state[t] = "SUSPENDED"
    <2>1. /\ From("body") \in [Task -> Context]
          /\ \A t \in Task : From("body")[t] = "entry" => context[t] = "entry"
      BY FromKeeps DEF Context
    <2>2. QED BY <1>2, <2>1 DEF Context
  <1>6. ASSUME Preempts(k, d) PROVE ~Restarts(k)
    <2>1. k.prio[d] > k.prio[k.curr] /\ intNestCnt = 0
      BY <1>6 DEF Preempts
    <2>2. k.prio[k.curr] < k.prio[d]
      <3>1. /\ k.prio \in [Task -> 0..OS_RES_SCHEDULER_PRIO] /\ k.curr \in Task
            /\ OS_RES_SCHEDULER_PRIO \in Nat
        BY <1>4, FieldsTyped DEF Sound, OS_RES_SCHEDULER_PRIO
      <3>2. QED BY <2>1, <3>1
    <2>3. os.state[d] # "WAITING"
      <3> SUFFICES ASSUME os.state[d] = "WAITING" PROVE FALSE
        OBVIOUS
      <3>1. d \in Extended /\ "WaitEvent" \in Calls[d]
        BY DEF Counted, FitStates, Waiter
      <3>2. activationLimit[d] = 1
        BY <3>1, ConfigAssumption
      <3>3. activations[d] = 0
        BY <1>3, <3>2, Counts DEF LimitReached
      <3>4. ~Late(d)
        BY <1>3, <2>1, <3>1, Before DEF LateActive
      <3>5. QED BY <1>3, <3>3, <3>4 DEF Counted, FitCounts
    <2>4. k.state[d] \in Busy
      BY <1>4, <2>3, Before, FieldsTyped DEF TaskState, Busy
    <2>5. QED BY <1>4, <2>2, <2>4, HigherWins
  <1>7. context' = at
    BY <1>3, <1>5, <1>6, PlacesKept
  <1>8. QED BY <1>5, <1>7 DEF NoNewEntry

Ending == TerminateTask \/ Return \/ ChainSelf \/ \E d \in Task : ChainTask(d)

\* A task that ends is the only one it can start anew, but for the suspended one
\* it chains to.
LEMMA EndingRestarts ==
    ASSUME KernelInv, Ending
    PROVE  \A t \in Task \ {os.curr} : context'[t] = "entry" /\ context[t] # "entry"
                                       => os.state[t] = "SUSPENDED"
  <1>1. ASSUME NEW place \in Context
        PROVE  \A t \in Task \ {os.curr} : From(place)[t] = context[t]
    BY Before DEF From, curr
  <1>2. PICK k, at : /\ \A t \in Task \ {os.curr} : at[t] = "entry" /\ context[t] # "entry"
                                                    => os.state[t] = "SUSPENDED"
                     /\ at \in [Task -> Context]
                     /\ Dispatch(k, at) \/ UNCHANGED context
    <2>1. CASE TerminateTask
      <3>1. Dispatch(Retire(os), From("TerminateTask"))
        BY <2>1 DEF TerminateTask
      <3>2. QED BY <1>1, <3>1, PlaceTyped DEF Context
    <2>2. CASE Return
      <3>1. \E k : Dispatch(k, From("TerminateTask")) \/ UNCHANGED context
        BY <2>2 DEF Return
      <3>2. QED BY <1>1, <3>1, PlaceTyped DEF Context
    <2>3. CASE ChainSelf
      <3>1. Dispatch(os, From("ChainTask"))
        BY <2>3 DEF ChainSelf
      <3>2. QED BY <1>1, <3>1, PlaceTyped DEF Context
    <2>4. ASSUME NEW d \in Task, ChainTask(d)
          PROVE  \E k, at : /\ \A t \in Task \ {os.curr} : at[t] = "entry" /\ context[t] # "entry"
                                                           => os.state[t] = "SUSPENDED"
                            /\ at \in [Task -> Context]
                            /\ Dispatch(k, at) \/ UNCHANGED context
      <3>1. Dispatch(Handed(d), HandedAt(d)) /\ HandedAt(d) \in [Task -> Context]
        BY <2>4, Handing
      <3>2. \A t \in Task \ {os.curr} : HandedAt(d)[t] = "entry" /\ context[t] # "entry"
                                        => os.state[t] = "SUSPENDED"
        <4>1. "ChainTask" \in Context /\ From("ChainTask") \in [Task -> Context]
          BY PlaceTyped DEF Context
        <4>2. QED BY <1>1, <4>1 DEF HandedAt
      <3>3. QED BY <3>1, <3>2
    <2>5. QED BY <2>1, <2>2, <2>3, <2>4 DEF Ending
  <1>3. CASE UNCHANGED context
    BY <1>3
  <1>4. CASE Dispatch(k, at)
    <2>1. context' = [at EXCEPT ![os.curr] = IF Restarts(k) THEN "entry" ELSE @]
      BY <1>4 DEF Dispatch, curr
    <2>2. \A t \in Task \ {os.curr} : context'[t] = at[t]
      BY <1>2, <2>1
    <2>3. QED BY <1>2, <2>2
  <1>5. QED BY <1>2, <1>3, <1>4

\* A task goes back to its first statement only when it has ended: no dispatch
\* on the way, of a service or an interrupt, starts it anew (os_task.c:413-470).
\* As the activation of a task started behind the first is not counted, it could be
\* activated while it waits, so either such tasks do not wait or, as in pwc, no task
\* activates another.
THEOREM OnlyEndedRestart == ASSUME LateActive PROVE ObservedSpec => RestartsOnlyWhenEnded
  <1> DEFINE Step == \A t \in Task : context'[t] = "entry" /\ context[t] # "entry" =>
          \/ os.state[t] = "SUSPENDED"
          \/ t = curr /\ (TerminateTask \/ Return \/ ChainSelf \/ \E d \in Task : ChainTask(d))
  <1>1. KernelInv /\ Counted /\ [ObservedNext]_observedVars => [Step]_observedVars
    <2> SUFFICES ASSUME KernelInv, Counted, ObservedNext PROVE Step
      OBVIOUS
    <2>1. ASSUME NEW d \in Task, ActivateTask(d) PROVE Step
      BY <2>1, ActivateRestarts DEF NoNewEntry
    <2>2. CASE Ending
      BY <2>2, EndingRestarts, Zenon DEF Ending, curr
    <2>3. CASE OtherService
      <3>1. UNCHANGED context \/ NoNewEntry
        BY <2>3, OthersPlain DEF Plain
      <3>2. QED BY <3>1 DEF NoNewEntry
    <2>4. (\E d \in Task : ActivateTask(d)) \/ Ending \/ OtherService
      BY Zenon DEF ObservedNext, Ending, OtherService
    <2>5. QED BY <2>1, <2>2, <2>3, <2>4
  <1>2. QED BY <1>1, CountedInvariant, PTL DEF RestartsOnlyWhenEnded, ObservedSpec
=============================================================================
