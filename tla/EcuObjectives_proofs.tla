------------------------ MODULE EcuObjectives_proofs ------------------------
(* Proofs about the ECU state manager, for any users, any wake-up sources    *)
(* and any times.                                                            *)
EXTENDS EcuObjectives, WellFoundedInduction, TLAPS

-----------------------------------------------------------------------------
(* Types.                                                                  *)

\* The longest of the validation times is one of them.
LEMMA LongestTime ==
    ASSUME NEW sources \in SUBSET (Source \ NoValidation)
    PROVE  Longest({0} \cup {ValidationTime[s] : s \in sources}) \in Nat
  <1> DEFINE times == {0} \cup {ValidationTime[s] : s \in sources}
             bounds == {n \in Nat : \A t \in times : t <= n}
  <1>1. times \subseteq Nat /\ 0 \in times
    BY EcuAssumption
  <1>2. bounds # {}
    <2>1. CASE Source \ NoValidation = {}
      <3>1. times = {0}
        BY <2>1
      <3>2. 0 \in bounds
        BY <3>1
      <3>3. QED BY <3>2
    <2>2. CASE Source \ NoValidation # {}
      <3>1. PICK s \in Source \ NoValidation :
               \A t \in Source \ NoValidation : ValidationTime[t] <= ValidationTime[s]
        BY <2>2, EcuAssumption
      <3>2. ValidationTime[s] \in Nat
        BY EcuAssumption
      <3>3. \A t \in times : t <= ValidationTime[s]
        BY <3>1, <3>2
      <3>4. ValidationTime[s] \in bounds
        BY <3>2, <3>3
      <3>5. QED BY <3>4
    <2>3. QED BY <2>1, <2>2
  <1>3. PICK m \in bounds : \A n \in bounds : ~(<<n, m>> \in OpToRel(<, Nat))
    <2>1. bounds \subseteq Nat
      OBVIOUS
    <2> HIDE DEF bounds
    <2>2. QED BY <1>2, <2>1, NatLessThanWellFounded, WFMin
  <1>4. m \in Nat /\ \A t \in times : t <= m
    BY <1>3
  <1>5. ASSUME NEW n \in bounds PROVE m <= n
    <2> SUFFICES ASSUME n < m PROVE FALSE
      BY <1>4
    <2>1. /\ <<n, m>> \in Nat \X Nat
          /\ <<n, m>>[1] < <<n, m>>[2]
      BY <1>4
    <2>2. <<n, m>> \in {ss \in Nat \X Nat : ss[1] < ss[2]}
      BY <2>1, Zenon
    <2>3. QED BY <2>2, <1>3, Zenon DEF OpToRel
  <1>6. m \in times
    <2>1. CASE m = 0
      BY <2>1, <1>1
    <2>2. CASE m # 0
      <3>1. m - 1 \in Nat /\ m - 1 \notin bounds
        BY <2>2, <1>4, <1>5
      <3>2. PICK t \in times : ~(t <= m - 1)
        BY <3>1
      <3>3. t = m
        BY <1>1, <1>4, <3>1, <3>2
      <3>4. QED BY <3>3
    <2>3. QED BY <2>1, <2>2
  <1>7. QED
    <2> HIDE DEF times
    <2>1. Longest(times) \in times
      BY <1>4, <1>6 DEF Longest
    <2>2. QED BY <2>1, <1>1 DEF times

\* SetCurrentState (EcuM_Main.c:152) keeps the record.
LEMMA SetKeepsWorld ==
    ASSUME NEW w \in WorldType, NEW state \in State
    PROVE  /\ SetCurrentState(w, state) \in WorldType
           /\ SetCurrentState(w, state).current_state = state
           /\ state = "APP_RUN" => SetCurrentState(w, state).run_state_timeout = RunMinimum
           /\ SetCurrentState(w, state).requests = w.requests
           /\ SetCurrentState(w, state).killAllRequest = w.killAllRequest
  <1>1. RunMinimum \in 0..RunMinimum
    BY EcuAssumption
  <1>2. QED BY <1>1 DEF SetCurrentState, WorldType

\* A time-out that runs down stays within its range.
LEMMA LessTyped == \A bound \in Nat : \A time \in 0..bound : Less(time) \in 0..bound
  BY DEF Less

LEMMA ResetTyped == AfterInit \in WorldType
  BY EcuAssumption DEF AfterInit, WorldType, State, Asked

-----------------------------------------------------------------------------
(* What the main function and start-up may see of each other.              *)

\* Start-up is over before the main function does anything, and RUN is left for
\* good when the OS stops.
Ordered ==
    /\ starting = "not" => world.current_state = "STARTUP_ONE"
    /\ starting = "two" => world.current_state = "STARTUP_TWO"
    /\ starting \in {"not", "two"} => at = "idle"
    /\ at = "off" => world.current_state = "GO_OFF_TWO"

\* What is left of RUN's minimum time and what has passed of it make up at least
\* the whole, and who holds RUN is on record.
RunHeld ==
    /\ ran \in 0..RunMinimum
    /\ world.current_state = "APP_RUN" /\ starting # "run" =>
          ran + world.run_state_timeout >= RunMinimum
    /\ ~torn => granted \subseteq world.requests["RUN"]

\* On its way out of RUN or POST_RUN the main function has found the minimum
\* time over and no request, so whoever holds RUN got it since.
LeavesRun ==
    /\ at = "leavingRun" => early \/ ran >= RunMinimum
    /\ at \in Leaving => torn \/ granted \subseteq late

EcuInv == TypeOK /\ Ordered /\ RunHeld /\ LeavesRun

-----------------------------------------------------------------------------
(* The main function.                                                      *)

\* What a step does to the record, the requests, and RUN.
KeepsRequests ==
    /\ world' \in WorldType
    /\ world'.requests = world.requests

LEMMA MainKeeps ==
    ASSUME EcuInv, MainFunction
    PROVE  /\ KeepsRequests
           /\ TypeOK' /\ Ordered'
           /\ starting' = starting /\ starting \notin {"not", "two"}
           /\ world.current_state = "APP_RUN" =>
                 IF world'.current_state = "APP_RUN"
                 THEN world'.run_state_timeout = Less(world.run_state_timeout)
                 ELSE at = "leavingRun"
           /\ world.current_state # "APP_RUN" /\ world'.current_state = "APP_RUN" =>
                 world'.run_state_timeout = RunMinimum
           /\ at' = "leavingRun" =>
                 world.current_state = "APP_RUN" /\ Less(world.run_state_timeout) = 0
           /\ at' \in Leaving => at \in Leaving \/ world.requests["RUN"] = {}
           /\ Becomes("APP_POST_RUN") \/ Becomes("PREP_SHUTDOWN") => at \in Leaving
  <1> USE DEF EcuInv, Ordered, KeepsRequests, Leaving, Becomes
  <1>w. world \in WorldType
    BY DEF TypeOK
  <1>s. \A s \in State : /\ SetCurrentState(world, s) \in WorldType
                         /\ SetCurrentState(world, s).current_state = s
                         /\ s = "APP_RUN" => SetCurrentState(world, s).run_state_timeout = RunMinimum
                         /\ SetCurrentState(world, s).requests = world.requests
    BY <1>w, SetKeepsWorld
  <1>n. /\ RunMinimum \in Nat /\ NvramTime \in Nat
        /\ NvramTime \in 0..NvramTime /\ 0 \in 0..NvramTime
    BY EcuAssumption
  <1>1. CASE AppRun
    <2> DEFINE w == [world EXCEPT !.run_state_timeout = Less(world.run_state_timeout)]
    <2>1. /\ w \in WorldType /\ w.requests = world.requests
          /\ w.current_state = "APP_RUN"
          /\ w.run_state_timeout = Less(world.run_state_timeout)
      <3>1. Less(world.run_state_timeout) \in 0..RunMinimum
        BY <1>w, <1>n, LessTyped DEF WorldType
      <3>2. QED BY <1>1, <1>w, <3>1 DEF AppRun, Called, WorldType
    <2>2. world' = w
      BY <1>1 DEF AppRun
    <2>3. \/ at' = "idle"
          \/ at' = "leavingRun" /\ world.requests["RUN"] = {} /\ Less(world.run_state_timeout) = 0
      BY <1>1 DEF AppRun
    <2> HIDE DEF w
    <2>4. QED BY <1>1, <2>1, <2>2, <2>3 DEF AppRun, Called, TypeOK
  <1>2. CASE ExitRun
    <2>1. world' = SetCurrentState(world, "APP_POST_RUN")
      BY <1>2 DEF ExitRun
    <2>2. QED BY <1>2, <2>1, <1>s DEF ExitRun, TypeOK, State
  <1>3. CASE AppPostRun
    <2>1. /\ at = "idle" /\ world.current_state = "APP_POST_RUN" /\ world' = world
          /\ \/ at' = "returning"
             \/ at' = "noRun" /\ world.requests["RUN"] = {}
      BY <1>3 DEF AppPostRun, Called
    <2>2. QED BY <1>3, <1>w, <2>1 DEF AppPostRun, TypeOK
  <1>4. CASE ReturnToRun
    <2>1. world' = SetCurrentState(world, "APP_RUN")
      BY <1>4 DEF ReturnToRun
    <2>2. QED BY <1>4, <2>1, <1>s DEF ReturnToRun, TypeOK, State
  <1>5. CASE TestPostRun
    <2>1. /\ at = "noRun" /\ world' = world
          /\ at' = "leavingPostRun" \/ at' = "idle"
      BY <1>5 DEF TestPostRun
    <2>2. QED BY <1>5, <1>w, <2>1 DEF TestPostRun, TypeOK
  <1>6. CASE ExitPostRun
    <2>1. world' = SetCurrentState(world, "PREP_SHUTDOWN")
      BY <1>6 DEF ExitPostRun
    <2>2. QED BY <1>6, <2>1, <1>s DEF ExitPostRun, TypeOK, State
  <1>7. CASE PrepShutdown
    <2> DEFINE w == [world EXCEPT !.wakeupEvents = {}, !.validEvents = {}]
               sleep == SetCurrentState(w, "GO_SLEEP")
               off == SetCurrentState(w, "GO_OFF_ONE")
    <2>1. w \in WorldType /\ w.requests = world.requests
      BY <1>w DEF WorldType
    <2>2. /\ sleep \in WorldType /\ sleep.requests = world.requests
          /\ sleep.current_state = "GO_SLEEP"
          /\ off \in WorldType /\ off.requests = world.requests
          /\ off.current_state = "GO_OFF_ONE"
      <3> HIDE DEF w
      <3>1. QED BY <2>1, SetKeepsWorld DEF State
    <2>3. \/ world' = [sleep EXCEPT !.go_sleep_state_timeout = NvramTime]
          \/ world' = [off EXCEPT !.go_off_one_state_timeout = NvramTime]
      BY <1>7 DEF PrepShutdown
    <2> HIDE DEF sleep, off
    <2>4. /\ world' \in WorldType /\ world'.requests = world.requests
          /\ world'.current_state \in {"GO_SLEEP", "GO_OFF_ONE"}
      BY <2>2, <2>3, <1>n DEF WorldType
    <2>5. QED BY <1>7, <2>4 DEF PrepShutdown, Called, Unbroken, TypeOK
  <1>8. CASE GoOffOne
    <2> DEFINE w == [world EXCEPT !.go_off_one_state_timeout = Less(world.go_off_one_state_timeout)]
    <2>1. w \in WorldType /\ w.requests = world.requests /\ w.current_state = "GO_OFF_ONE"
      <3>1. Less(world.go_off_one_state_timeout) \in 0..NvramTime
        BY <1>w, <1>n, LessTyped DEF WorldType
      <3>2. QED BY <1>8, <1>w, <3>1 DEF GoOffOne, Called, WorldType
    <2>2. \/ at' = "off" /\ world' = SetCurrentState(w, "GO_OFF_TWO")
          \/ world' = w /\ UNCHANGED at
      BY <1>8 DEF GoOffOne
    <2> HIDE DEF w
    <2>3. /\ world' \in WorldType /\ world'.requests = world.requests
          /\ \/ at' = "off" /\ world'.current_state = "GO_OFF_TWO"
             \/ UNCHANGED at /\ world'.current_state = "GO_OFF_ONE"
      BY <2>1, <2>2, SetKeepsWorld DEF State
    <2>4. QED BY <1>8, <2>3 DEF GoOffOne, Called, TypeOK
  <1>9. CASE GoSleep
    <2>1. PICK left \in {Less(world.go_sleep_state_timeout), 0} :
             LET w == [world EXCEPT !.go_sleep_state_timeout = left]
             IN  \/ /\ left = 0
                    /\ world' = SetCurrentState(w, "SLEEP") /\ at' = "asleep" /\ locked' = TRUE
                 \/ /\ left # 0 /\ world.wakeupEvents # {}
                    /\ world' = SetCurrentState(w, "SLEEP") /\ at' = "asleep" /\ UNCHANGED locked
                 \/ /\ left # 0 /\ world.wakeupEvents = {}
                    /\ world' = w /\ UNCHANGED <<at, locked>>
      BY <1>9 DEF GoSleep
    <2> DEFINE w == [world EXCEPT !.go_sleep_state_timeout = left]
    <2>2. w \in WorldType /\ w.requests = world.requests /\ w.current_state = "GO_SLEEP"
      <3>1. left \in 0..NvramTime
        BY <1>w, <1>n, LessTyped DEF WorldType
      <3>2. QED BY <1>9, <1>w, <3>1 DEF GoSleep, Called, WorldType
    <2>3. \/ world' = SetCurrentState(w, "SLEEP") /\ at' = "asleep"
          \/ world' = w /\ at' = at
      BY <2>1
    <2>4. locked' \in BOOLEAN /\ (at' # "asleep" => ~locked')
      <3>1. at = "idle" /\ locked = FALSE
        BY <1>9 DEF GoSleep, Called, TypeOK
      <3>2. \/ at' = "asleep" /\ locked' = TRUE
            \/ at' = "asleep" /\ locked' = locked
            \/ at' = at /\ locked' = locked
        BY <2>1, Zenon
      <3>3. (locked' = TRUE /\ at' = "asleep") \/ locked' = FALSE
        BY <3>1, <3>2
      <3>4. QED BY <3>3
    <2> HIDE DEF w
    <2>5. /\ world' \in WorldType /\ world'.requests = world.requests
          /\ \/ world'.current_state = "SLEEP" /\ at' = "asleep"
             \/ world'.current_state = "GO_SLEEP" /\ at' = at
      BY <2>2, <2>3, SetKeepsWorld DEF State
    <2>6. QED BY <1>9, <2>4, <2>5 DEF GoSleep, Called, TypeOK
  <1>10. CASE WakeupOne
    <2>1. world' = SetCurrentState(world, "WAKEUP_ONE") /\ world.wakeupEvents \subseteq Source
      BY <1>10, <1>w DEF WakeupOne, WorldType
    <2>2. QED BY <1>10, <2>1, <1>s DEF WakeupOne, TypeOK, State
  <1>11. CASE ReleaseScheduler
    <2>1. /\ world' \in WorldType /\ world'.requests = world.requests
          /\ world'.current_state = world.current_state
      BY <1>11, <1>w DEF ReleaseScheduler, WorldType
    <2>2. QED BY <1>11, <2>1 DEF ReleaseScheduler, TypeOK
  <1>12. CASE StartSources
    <2>1. world' = SetCurrentState(world, "WAKEUP_VALIDATION") /\ world.wakeupEvents \subseteq Source
      BY <1>12, <1>w DEF StartSources, WorldType
    <2>2. QED BY <1>12, <2>1, <1>s DEF StartSources, TypeOK, State
  <1>13. CASE StartValidation
    <2> DEFINE longest == Longest({0} \cup {ValidationTime[s] : s \in wMask \ NoValidation})
    <2>1. longest \in Nat
      BY LongestTime DEF TypeOK
    <2>2. world' = [world EXCEPT !.validationTimer = longest,
                                 !.validEvents = @ \cup (wMask \cap NoValidation)]
      BY <1>13 DEF StartValidation
    <2> HIDE DEF longest
    <2>3. wMask \cap NoValidation \subseteq Source
      BY DEF TypeOK
    <2>4. /\ world' \in WorldType /\ world'.requests = world.requests
          /\ world'.current_state = world.current_state
      BY <2>1, <2>2, <2>3, <1>w DEF WorldType
    <2>5. QED BY <1>13, <2>4 DEF StartValidation, TypeOK
  <1>14. CASE WakeupValidation
    <2> DEFINE w == [world EXCEPT !.validationTimer = Less(@)]
    <2>1. /\ w \in WorldType /\ w.requests = world.requests
          /\ w.current_state = "WAKEUP_VALIDATION"
      <3>1. Less(world.validationTimer) \in Nat
        BY <1>w DEF WorldType, Less
      <3>2. QED BY <1>14, <1>w, <3>1 DEF WakeupValidation, Called, WorldType
    <2>2. \/ world' = SetCurrentState(w, "WAKEUP_REACTION") /\ pendingWkupMask' = {}
          \/ world' = w /\ UNCHANGED pendingWkupMask
      BY <1>14 DEF WakeupValidation
    <2> HIDE DEF w
    <2>3. /\ world' \in WorldType /\ world'.requests = world.requests
          /\ world'.current_state \in {"WAKEUP_VALIDATION", "WAKEUP_REACTION"}
      BY <2>1, <2>2, SetKeepsWorld DEF State
    <2>4. QED BY <1>14, <2>2, <2>3 DEF WakeupValidation, Called, TypeOK
  <1>15. CASE WakeupReaction
    <2>1. world' = SetCurrentState(world, "GO_SLEEP") \/ world' = SetCurrentState(world, "WAKEUP_TWO")
      BY <1>15 DEF WakeupReaction
    <2>2. QED BY <1>15, <2>1, <1>s DEF WakeupReaction, Called, Unbroken, TypeOK, State
  <1>16. CASE WakeupTwo
    BY <1>16, <1>s DEF WakeupTwo, Called, Unbroken, TypeOK, State
  <1>17. QED
    BY <1>1, <1>2, <1>3, <1>4, <1>5, <1>6, <1>7, <1>8, <1>9, <1>10, <1>11, <1>12,
       <1>13, <1>14, <1>15, <1>16
    DEF MainFunction

-----------------------------------------------------------------------------
(* Everybody else.                                                         *)

LEMMA ServicesKeep ==
    ASSUME EcuInv, Services
    PROVE  /\ TypeOK' /\ Ordered'
           /\ UNCHANGED <<at, starting>>
           /\ world'.current_state = world.current_state
           /\ world'.run_state_timeout = world.run_state_timeout
  <1> USE DEF EcuInv, Ordered, TypeOK
  <1>0. \A r \in Asked : Callers[r] \subseteq User
    BY EcuAssumption
  <1>w. world.requests \in [Asked -> SUBSET User]
    BY DEF WorldType
  <1>1. ASSUME NEW r \in Asked, NEW u \in User,
               Request(r, u) \/ Release(r, u) \/ LoadRequest(r, u) \/ LoadRelease(r, u)
        PROVE  /\ world' \in WorldType /\ update' \in UpdateType \cup {None}
               /\ UNCHANGED <<at, wMask, pendingWkupMask, locked, starting>>
               /\ world'.current_state = world.current_state
               /\ world'.run_state_timeout = world.run_state_timeout
    <2>1. /\ Released(r, u) \in WorldType
          /\ Released(r, u).current_state = world.current_state
          /\ Released(r, u).run_state_timeout = world.run_state_timeout
      BY <1>w DEF Released, WorldType
    <2>2. /\ Requested(r, u) \in WorldType
          /\ Requested(r, u).current_state = world.current_state
          /\ Requested(r, u).run_state_timeout = world.run_state_timeout
      <3>1. world.requests[r] \cup {u} \in SUBSET User
        BY <1>w
      <3>2. QED BY <1>w, <3>1 DEF Requested, WorldType
    <2>3. \A w \in WorldType :
             [asked |-> r, loaded |-> world.requests[r], stored |-> w.requests[r]] \in UpdateType
      BY <1>w DEF WorldType, UpdateType
    <2>4. QED BY <1>1, <2>1, <2>2, <2>3 DEF Request, Release, LoadRequest, LoadRelease, Load
  <1>2. CASE Store
    <2>1. update \in UpdateType
      BY <1>2 DEF Store
    <2>2. /\ world' \in WorldType
          /\ world'.current_state = world.current_state
          /\ world'.run_state_timeout = world.run_state_timeout
      BY <1>2, <2>1, <1>w DEF Store, WorldType, UpdateType
    <2>3. QED BY <1>2, <2>2 DEF Store
  <1>3. CASE KillAllRUNRequests
    <2>1. [r \in Asked |-> {}] \in [Asked -> SUBSET User]
      OBVIOUS
    <2>2. /\ world' \in WorldType
          /\ world'.current_state = world.current_state
          /\ world'.run_state_timeout = world.run_state_timeout
      BY <1>3, <2>1 DEF KillAllRUNRequests, WorldType
    <2>3. QED BY <1>3, <2>2 DEF KillAllRUNRequests
  <1>4. ASSUME NEW target \in Target, SelectShutdownTarget(target)
        PROVE  /\ world' \in WorldType
               /\ world'.current_state = world.current_state
               /\ world'.run_state_timeout = world.run_state_timeout
               /\ UNCHANGED <<at, wMask, pendingWkupMask, locked, starting, update>>
    BY <1>4 DEF SelectShutdownTarget, WorldType
  <1>5. CASE \E r \in Asked : \E u \in Callers[r] :
                Request(r, u) \/ Release(r, u) \/ LoadRequest(r, u) \/ LoadRelease(r, u)
    BY <1>0, <1>1, <1>5
  <1>6. CASE \E target \in Selected : SelectShutdownTarget(target)
    BY <1>4, <1>6, EcuAssumption
  <1>7. QED BY <1>2, <1>3, <1>5, <1>6 DEF Services

\* Start-up hands over to the main function.
LEMMA StartupKeeps ==
    ASSUME EcuInv, Startup
    PROVE  /\ TypeOK' /\ Ordered'
           /\ world'.requests = world.requests
           /\ world'.current_state = "APP_RUN" /\ starting' # "run" =>
                 world'.run_state_timeout = RunMinimum
           /\ UNCHANGED at
           /\ world.current_state = "APP_RUN" => world'.current_state = "APP_RUN"
           /\ world'.current_state \notin {"APP_POST_RUN", "PREP_SHUTDOWN"} \/ UNCHANGED world.current_state
  <1> USE DEF EcuInv, Ordered, TypeOK
  <1>n. RunMinimum \in 0..RunMinimum
    BY EcuAssumption
  <1>1. CASE StartupTwo
    <2>1. /\ world' \in WorldType /\ world'.requests = world.requests
          /\ world'.current_state = "STARTUP_TWO"
      BY <1>1, SetKeepsWorld DEF StartupTwo, State
    <2>2. QED BY <1>1, <2>1 DEF StartupTwo
  <1>2. CASE StartupRun
    <2>1. /\ world' \in WorldType /\ world'.requests = world.requests
          /\ world'.current_state = "APP_RUN"
      BY <1>2 DEF StartupRun, WorldType, State
    <2>2. QED BY <1>2, <2>1 DEF StartupRun
  <1>3. CASE StartupEnds
    <2>1. /\ world' \in WorldType /\ world'.requests = world.requests
          /\ world'.current_state = world.current_state
          /\ world'.run_state_timeout = RunMinimum
      BY <1>3, <1>n DEF StartupEnds, WorldType
    <2>2. QED BY <1>3, <2>1 DEF StartupEnds
  <1>4. QED BY <1>1, <1>2, <1>3 DEF Startup

LEMMA InterruptsKeep ==
    ASSUME EcuInv, Interrupts \/ Wakes
    PROVE  /\ TypeOK' /\ Ordered'
           /\ UNCHANGED starting
           /\ at' # at => at' = "awake"
           /\ world'.requests = world.requests
           /\ world'.current_state = world.current_state
           /\ world'.run_state_timeout = world.run_state_timeout
  <1> USE DEF EcuInv, Ordered, TypeOK
  <1>1. ASSUME NEW s \in Source, SetWakeupEvent(s)
        PROVE  /\ world' \in WorldType /\ world'.requests = world.requests
               /\ world'.current_state = world.current_state
               /\ world'.run_state_timeout = world.run_state_timeout
               /\ Interrupt /\ UNCHANGED <<wMask, pendingWkupMask, locked, starting, update>>
    BY <1>1 DEF SetWakeupEvent, WorldType
  <1>2. ASSUME NEW s \in Source, ValidateWakeupEvent(s)
        PROVE  /\ world' \in WorldType /\ world'.requests = world.requests
               /\ world'.current_state = world.current_state
               /\ world'.run_state_timeout = world.run_state_timeout
               /\ Interrupt /\ UNCHANGED <<wMask, pendingWkupMask, locked, starting, update>>
    BY <1>2 DEF ValidateWakeupEvent, WorldType
  <1>3. CASE Wakes
    BY <1>3 DEF Wakes
  <1>4. CASE Interrupts
    BY <1>1, <1>2, <1>4 DEF Interrupts, Interrupt
  <1>5. QED BY <1>3, <1>4

LEMMA ResetKeeps ==
    ASSUME EcuInv, PerformReset
    PROVE  TypeOK' /\ Ordered' /\ world'.current_state = "STARTUP_ONE"
                   /\ world.current_state = "GO_OFF_TWO" /\ at' = "idle"
  <1>1. /\ world' = AfterInit /\ at = "off" /\ at' = "idle" /\ starting' = "not"
        /\ wMask' = {} /\ pendingWkupMask' = {} /\ locked' = FALSE /\ update' = None
    BY DEF PerformReset
  <1>2. world' \in WorldType /\ world'.current_state = "STARTUP_ONE"
    BY <1>1, ResetTyped DEF AfterInit
  <1>3. QED BY <1>1, <1>2 DEF EcuInv, Ordered, TypeOK

-----------------------------------------------------------------------------
(* RUN is kept.                                                            *)

\* What a change of the requests does to their holders, it does to the record too.
LEMMA HoldersRecorded ==
    \A before, after :
        granted \subseteq before => Granted("RUN", before, after) \subseteq after
  BY DEF Granted

LEMMA StepKeepsRun == EcuInv /\ [ObservedNext]_observedVars => EcuInv'
  <1> SUFFICES ASSUME EcuInv, [ObservedNext]_observedVars PROVE EcuInv'
    OBVIOUS
  <1> USE DEF RunHeld
  <1>n. RunMinimum \in Nat /\ world.run_state_timeout \in 0..RunMinimum /\ ran \in 0..RunMinimum
    BY EcuAssumption DEF EcuInv, TypeOK, WorldType
  <1>1. CASE ObserveMain
    <2>1. MainFunction /\ UNCHANGED <<granted, torn>>
          /\ ran' = IF {world.current_state, world'.current_state} # {"APP_RUN"} THEN 0
                    ELSE IF ran < RunMinimum THEN ran + 1 ELSE ran
      BY <1>1 DEF ObserveMain
    <2>2. ran' \in 0..RunMinimum
      BY <2>1, <1>n
    <2>3. world'.current_state = "APP_RUN" /\ starting' # "run" =>
             ran' + world'.run_state_timeout >= RunMinimum
      <3> SUFFICES ASSUME world'.current_state = "APP_RUN", starting' # "run"
                   PROVE  ran' + world'.run_state_timeout >= RunMinimum
        OBVIOUS
      <3>1. CASE world.current_state = "APP_RUN"
        <4>1. /\ world'.run_state_timeout = Less(world.run_state_timeout) /\ starting # "run"
          BY <2>1, <3>1, MainKeeps
        <4>2. ran + world.run_state_timeout >= RunMinimum
          BY <3>1, <4>1 DEF EcuInv
        <4>3. ran' = IF ran < RunMinimum THEN ran + 1 ELSE ran
          BY <2>1, <3>1
        <4>4. QED BY <4>1, <4>2, <4>3, <1>n DEF Less
      <3>2. CASE world.current_state # "APP_RUN"
        BY <2>1, <2>2, <3>2, <1>n, MainKeeps
      <3>3. QED BY <3>1, <3>2
    <2>4. TypeOK' /\ Ordered' /\ world'.requests = world.requests
      BY <2>1, MainKeeps DEF KeepsRequests
    <2>5. ~torn' => granted' \subseteq world'.requests["RUN"]
      BY <2>1, <2>4 DEF EcuInv
    <2>6. at' = "leavingRun" => early' \/ ran' >= RunMinimum
      <3> SUFFICES ASSUME at' = "leavingRun", starting # "run" PROVE ran' >= RunMinimum
        BY <1>1 DEF ObserveMain
      <3>1. world'.current_state = "APP_RUN" /\ world.current_state = "APP_RUN"
        BY <2>1, <2>4, MainKeeps DEF TypeOK
      <3>2. Less(world.run_state_timeout) = 0 /\ ran + world.run_state_timeout >= RunMinimum
        BY <2>1, <3>1, MainKeeps DEF EcuInv
      <3>3. ran' = IF ran < RunMinimum THEN ran + 1 ELSE ran
        BY <2>1, <3>1
      <3>4. QED BY <3>2, <3>3, <1>n DEF Less
    <2>7. at' \in Leaving => torn' \/ granted' \subseteq late'
      <3>1. at' \in Leaving => late' = late
        BY <1>1 DEF ObserveMain
      <3>2. at' \in Leaving => at \in Leaving \/ world.requests["RUN"] = {}
        BY <2>1, MainKeeps
      <3>3. ASSUME at' \in Leaving PROVE torn \/ granted \subseteq late
        BY <3>2, <3>3 DEF EcuInv, LeavesRun, RunHeld
      <3>4. QED BY <2>1, <3>1, <3>3
    <2>8. LeavesRun'
      BY <2>6, <2>7 DEF LeavesRun
    <2>9. QED BY <2>2, <2>3, <2>4, <2>5, <2>8 DEF EcuInv
  <1>2. CASE ObserveServices
    <2>1. /\ TypeOK' /\ Ordered' /\ UNCHANGED <<at, starting, ran, early>>
          /\ world'.current_state = world.current_state
          /\ world'.run_state_timeout = world.run_state_timeout
      BY <1>2, ServicesKeep DEF ObserveServices
    <2>2. ASSUME ~torn' PROVE granted' \subseteq world'.requests["RUN"]
      <3>1. CASE Store /\ ~Tears /\ granted' = Granted(update.asked, update.loaded, update.stored)
                 /\ UNCHANGED torn
        <4>1. /\ update \in UpdateType /\ update.loaded = world.requests[update.asked]
              /\ world' = [world EXCEPT !.requests[update.asked] = update.stored]
          BY <3>1 DEF Store, Tears, EcuInv, TypeOK
        <4>2. granted \subseteq world.requests["RUN"] /\ update.asked \in Asked
          BY <2>2, <3>1, <4>1 DEF EcuInv, UpdateType
        <4>3. world.requests \in [Asked -> SUBSET User] /\ "RUN" \in Asked
          BY DEF EcuInv, TypeOK, WorldType, Asked
        <4>4. world'.requests = [world.requests EXCEPT ![update.asked] = update.stored]
          BY <4>1, <4>3 DEF EcuInv, TypeOK, WorldType
        <4>5. CASE update.asked = "RUN"
          BY <3>1, <4>1, <4>2, <4>3, <4>4, <4>5 DEF Granted
        <4>6. CASE update.asked # "RUN"
          BY <3>1, <4>2, <4>3, <4>4, <4>6 DEF Granted
        <4>7. QED BY <4>5, <4>6
      <3>2. CASE ~Store /\ UNCHANGED torn
                 /\ granted' = IF torn THEN {}
                               ELSE Granted("RUN", world.requests["RUN"], world'.requests["RUN"])
        <4>1. ~torn
          BY <2>2, <3>2
        <4>2. granted \subseteq world.requests["RUN"]
          BY <4>1 DEF EcuInv
        <4>3. QED BY <3>2, <4>1, <4>2, HoldersRecorded DEF Asked
      <3>3. CASE torn' = TRUE
        BY <2>2, <3>3
      <3>4. QED BY <1>2, <3>1, <3>2, <3>3 DEF ObserveServices
    <2>3. ASSUME at' \in Leaving PROVE torn' \/ granted' \subseteq late'
      <3>1. torn => torn'
        BY <1>2 DEF ObserveServices
      <3>2. late' = granted' \ (granted \ late)
        BY <1>2, <2>1, <2>3 DEF ObserveServices
      <3>3. torn \/ granted \subseteq late
        BY <2>1, <2>3 DEF EcuInv, LeavesRun
      <3>4. QED BY <3>1, <3>2, <3>3
    <2>4. at' = "leavingRun" => early' \/ ran' >= RunMinimum
      BY <2>1 DEF EcuInv, LeavesRun
    <2>5. ran' \in 0..RunMinimum
      BY <2>1, <1>n
    <2>6. LeavesRun'
      BY <2>3, <2>4 DEF LeavesRun
    <2>7. QED BY <2>1, <2>2, <2>5, <2>6 DEF EcuInv
  <1>3. CASE ObserveStartup
    <2>1. /\ TypeOK' /\ Ordered' /\ world'.requests = world.requests
          /\ world'.current_state = "APP_RUN" /\ starting' # "run" =>
                world'.run_state_timeout = RunMinimum
          /\ UNCHANGED <<at, observer>>
      BY <1>3, StartupKeeps DEF ObserveStartup
    <2>2. ~torn' => granted' \subseteq world'.requests["RUN"]
      BY <2>1 DEF EcuInv, observer
    <2>3. LeavesRun'
      BY <2>1 DEF EcuInv, observer, LeavesRun
    <2>4. QED BY <2>1, <2>2, <2>3, <1>n DEF EcuInv, observer
  <1>4. ASSUME Interrupts \/ Wakes, UNCHANGED observer PROVE EcuInv'
    <2>1. /\ TypeOK' /\ Ordered' /\ UNCHANGED starting
          /\ at' # at => at' = "awake"
          /\ world'.requests = world.requests
          /\ world'.current_state = world.current_state
          /\ world'.run_state_timeout = world.run_state_timeout
      BY <1>4, InterruptsKeep
    <2>2. ~torn' => granted' \subseteq world'.requests["RUN"]
      BY <1>4, <2>1 DEF EcuInv, observer
    <2>3. LeavesRun'
      BY <1>4, <2>1 DEF EcuInv, observer, LeavesRun, Leaving
    <2>4. QED BY <1>4, <2>1, <2>2, <2>3 DEF EcuInv, observer
  <1>5. ASSUME PerformReset, granted' = {}, ran' = 0, torn' = FALSE PROVE EcuInv'
    BY <1>5, <1>n, ResetKeeps DEF EcuInv, LeavesRun, Leaving
  <1>6. CASE UNCHANGED observedVars
    BY <1>6 DEF observedVars, observer, ecuVars, EcuInv, TypeOK, Ordered, LeavesRun
  <1>7. QED
    BY <1>1, <1>2, <1>3, <1>4, <1>5, <1>6 DEF ObservedNext

LEMMA RunInvariant == ObservedSpec => []EcuInv
  <1>1. ObservedInit => EcuInv
    <2> SUFFICES ASSUME ObservedInit PROVE EcuInv
      OBVIOUS
    <2>1. /\ world = AfterInit /\ world \in WorldType /\ starting = "not" /\ at = "idle"
          /\ world.current_state = "STARTUP_ONE"
      BY ResetTyped DEF ObservedInit, Init, AfterInit
    <2>2. TypeOK
      BY <2>1 DEF ObservedInit, Init, TypeOK
    <2>3. QED BY <2>1, <2>2, EcuAssumption DEF ObservedInit, EcuInv, Ordered, RunHeld, LeavesRun
  <1>2. QED
    BY <1>1, StepKeepsRun, PTL DEF ObservedSpec

\* The state manager keeps its types, and its call that sleeps, wakes and starts
\* validation is always in the state it means to be in.
THEOREM EcuTyped == ObservedSpec => []TypeOK
  <1>1. EcuInv => TypeOK
    BY DEF EcuInv
  <1>2. QED
    BY <1>1, RunInvariant, PTL

\* RUN lasts for its minimum time, and neither it nor POST_RUN is left downwards
\* against a request that the main function could have seen
\* (EcuM_Main.c:190-219, 458-498, EcuM_Fixed.c:132-190), for any users and times.
THEOREM RunLasts == ObservedSpec => RunKept
  <1> DEFINE Left == /\ world.current_state = "APP_RUN" /\ world'.current_state # "APP_RUN" =>
                           early \/ ran >= RunMinimum
                     /\ Becomes("APP_POST_RUN") \/ Becomes("PREP_SHUTDOWN") =>
                           torn \/ granted \subseteq late
  <1>1. EcuInv /\ [ObservedNext]_observedVars => [Left]_observedVars
    <2> SUFFICES ASSUME EcuInv, ObservedNext PROVE Left
      OBVIOUS
    <2>1. CASE MainFunction
      <3>1. /\ world.current_state = "APP_RUN" /\ world'.current_state # "APP_RUN" =>
                 at = "leavingRun"
            /\ Becomes("APP_POST_RUN") \/ Becomes("PREP_SHUTDOWN") => at \in Leaving
        BY <2>1, MainKeeps
      <3>2. LeavesRun
        BY DEF EcuInv
      <3>3. QED BY <3>1, <3>2 DEF LeavesRun
    <2>2. CASE ~MainFunction
      <3>1. /\ world.current_state = "APP_RUN" => world'.current_state = "APP_RUN"
            /\ ~Becomes("APP_POST_RUN") /\ ~Becomes("PREP_SHUTDOWN")
        BY <2>2, ServicesKeep, StartupKeeps, InterruptsKeep, ResetKeeps
        DEF ObservedNext, ObserveMain, ObserveServices, ObserveStartup, Becomes
      <3>2. QED BY <3>1
    <2>3. QED BY <2>1, <2>2
  <1>2. QED
    BY <1>1, RunInvariant, PTL DEF ObservedSpec, RunKept
=============================================================================
