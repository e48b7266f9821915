-------------------------- MODULE NodeSafetyProofs --------------------------
(***************************************************************************)
(* Proofs of the two safety invariants of the polling server that the      *)
(* node_safety run checks: AperiodicAccounted (every spawned aperiodic    *)
(* task is in exactly one place) and CapacityConserved (the fuel charged  *)
(* to a task adds up to the capacity it was spawned with).                *)
(***************************************************************************)
EXTENDS NodeRefinementProofs

USE KernelAssumption, NodeAssumption

(* Nothing is lost: every aperiodic task is queued, in service or served, *)
(* and only aperiodic tasks are served.                                    *)
Complete ==
    /\ \A t \in Tasks : IsAperiodic(t) => InQueue(t) \/ InService(t) \/ t \in served
    /\ \A t \in served : IsAperiodic(t)

(* A free slot has been charged nothing, so the task hf_spawn puts there  *)
(* starts its account from zero.                                           *)
FreshAccount == \A t \in Tasks : IsIdleSlot(t) => given[t] = 0

(* The inductive invariant of both theorems.                               *)
AInv == RInv /\ Complete /\ FreshAccount /\ CapacityConserved

-----------------------------------------------------------------------------
(* main() spawns no aperiodic task and charges nothing.                    *)
LEMMA AInvInit == Init => AInv
<1> SUFFICES ASSUME Init PROVE AInv
  OBVIOUS
<1>1. RInv
  BY RInvInit
<1>2. \A t \in Tasks : ~IsAperiodic(t)
  <2>1. /\ Idle \in Tasks /\ Server \in Tasks /\ Generator \in Tasks /\ App \in Tasks
        /\ Idle # Server /\ Idle # Generator /\ Idle # App
        /\ Server # Generator /\ Server # App /\ Generator # App
    BY DEF Idle, Server, Generator, App, Tasks
  <2>2. QED
    BY <2>1 DEF Init, IsAperiodic, ClearedState, ClearedField
<1>3. served = {} /\ given = [t \in Tasks |-> 0]
  BY DEF Init
<1>4. QED
  BY <1>1, <1>2, <1>3 DEF AInv, Complete, FreshAccount, CapacityConserved

(* A step that keeps every slot, class, the queue, the popped task, the   *)
(* served set and the accounts, and neither enters nor leaves the charge, *)
(* keeps the three new conjuncts.                                          *)
LEMMA AQuiet ==
    ASSUME AInv, RInv', KeepSlots,
           UNCHANGED <<period, capacity, apQueue, served, next, given>>,
           (spc' = "charge") <=> (spc = "charge")
    PROVE  AInv'
<1>1. \A t \in Tasks : IsAperiodic(t)' <=> IsAperiodic(t)
  BY SameClass DEF KeepSlots
<1>2. \A t \in Tasks : /\ InQueue(t)' <=> InQueue(t)
                       /\ InService(t)' <=> InService(t)
                       /\ IsIdleSlot(t)' <=> IsIdleSlot(t)
  BY DEF InQueue, InService, IsIdleSlot, KeepSlots
<1>3. served \subseteq Tasks
  BY DEF AInv, RInv, TypeInv, TypeOK
<1>4. Complete'
  BY <1>1, <1>2, <1>3 DEF AInv, Complete
<1>5. FreshAccount'
  BY <1>2 DEF AInv, FreshAccount
<1>6. CapacityConserved'
  BY <1>1 DEF AInv, CapacityConserved
<1>7. QED
  BY <1>4, <1>5, <1>6 DEF AInv

(* The pop of line 133 moves the head of the queue into service: a task  *)
(* that was queued is still queued or is the one now in service.          *)
LEMMA APop ==
    ASSUME AInv, ServerPop
    PROVE  AInv'
<1>0. TypeOK /\ RInv
  BY DEF AInv, RInv, TypeInv
<1>1. /\ Len(apQueue) > 0 /\ spc = "top"
      /\ next' = Head(apQueue) /\ apQueue' = Tail(apQueue) /\ spc' = "charge"
      /\ UNCHANGED <<tstate, period, capacity, served, given>>
  BY DEF ServerPop, PollingServerScheduler
<1>2. /\ Len(Tail(apQueue)) = Len(apQueue) - 1
      /\ \A i \in 1 .. Len(apQueue) - 1 : Tail(apQueue)[i] = apQueue[i + 1]
      /\ Head(apQueue) = apQueue[1]
      /\ Len(apQueue) \in Nat
  BY <1>0, <1>1, HeadTailProperties DEF TypeOK
<1>3. \A t \in Tasks : IsAperiodic(t)' <=> IsAperiodic(t)
  BY <1>1 DEF IsAperiodic
<1>4. \A t \in Tasks : InQueue(t) => InQueue(t)' \/ InService(t)'
  <2> SUFFICES ASSUME NEW t \in Tasks, NEW i \in 1 .. Len(apQueue), apQueue[i] = t
               PROVE  InQueue(t)' \/ InService(t)'
    BY DEF InQueue
  <2>1. CASE i = 1
    BY <2>1, <1>1, <1>2 DEF InService
  <2>2. CASE i # 1
    <3>1. i - 1 \in 1 .. Len(apQueue) - 1 /\ apQueue'[i - 1] = t
      BY <2>2, <1>1, <1>2
    <3>2. QED
      BY <3>1, <1>1, <1>2 DEF InQueue
  <2>3. QED
    BY <2>1, <2>2
<1>5. Complete'
  <2>1. \A t \in Tasks : ~InService(t)
    BY <1>1 DEF InService
  <2>2. served \subseteq Tasks
    BY <1>0 DEF TypeOK
  <2>3. QED
    BY <1>1, <1>3, <1>4, <2>1, <2>2 DEF AInv, Complete
<1>6. RInv'
  BY <1>0, PopStep
<1>7. QED
  BY <1>1, <1>3, <1>5, <1>6 DEF AInv, FreshAccount, CapacityConserved, IsIdleSlot

(* Enough fuel: the task in service is served, and the fuel charged to it *)
(* (line 136) is the rest of its capacity.                                 *)
LEMMA AChargeFull ==
    ASSUME AInv, ChargeFull
    PROVE  AInv'
<1>0. /\ RInv /\ TypeOK /\ next \in Tasks /\ IsAperiodic(next) /\ next \notin served
  BY ChargeFacts DEF AInv, ChargeFull
<1>1. /\ current = Server /\ spc = "charge" /\ HandOver /\ spc' = "dispatch"
      /\ served' = served \cup {next}
      /\ given' = [given EXCEPT ![next] = @ + capacity[next]]
      /\ UNCHANGED <<period, capacity, apQueue, next>>
  BY DEF ChargeFull
<1>2. KeepSlots
  BY <1>0, <1>1, HandOverSlots
<1>3. \A t \in Tasks : /\ IsAperiodic(t)' <=> IsAperiodic(t)
                       /\ IsIdleSlot(t)' <=> IsIdleSlot(t)
                       /\ InQueue(t)' <=> InQueue(t)
  BY <1>1, <1>2, SameClass DEF KeepSlots, IsIdleSlot, InQueue
<1>4. Complete'
  <2>1. served \subseteq Tasks
    BY <1>0 DEF TypeOK
  <2>2. \A t \in Tasks : InService(t) => t \in served'
    BY <1>1 DEF InService
  <2>3. QED
    BY <1>0, <1>1, <1>3, <2>1, <2>2 DEF AInv, Complete
<1>5. FreshAccount'
  BY <1>0, <1>1, <1>3 DEF AInv, FreshAccount, RInv, IsIdleSlot, TypeOK
<1>6. CapacityConserved'
  <2> SUFFICES ASSUME NEW t \in Tasks, IsAperiodic(t)'
               PROVE  IF t \in served' THEN given'[t] = ApCapacity
                                       ELSE given'[t] + capacity'[t] = ApCapacity
    BY DEF CapacityConserved
  <2>1. CASE t = next
    <3>1. given[next] + capacity[next] = ApCapacity
      BY <1>0 DEF AInv, CapacityConserved
    <3>2. QED
      BY <2>1, <3>1, <1>0, <1>1 DEF TypeOK
  <2>2. CASE t # next
    BY <2>2, <1>0, <1>1, <1>3 DEF AInv, CapacityConserved, TypeOK
  <2>3. QED
    BY <2>1, <2>2
<1>7. RInv'
  BY <1>0, ChargeFullStep
<1>8. QED
  BY <1>4, <1>5, <1>6, <1>7 DEF AInv

(* Not enough fuel: the fuel charged (line 140) is exactly what the      *)
(* task's capacity loses (line 139), and the task goes back to the tail   *)
(* (line 141) of a queue that has room, so it is queued again.            *)
LEMMA AChargePartial ==
    ASSUME AInv, ChargePartial
    PROVE  AInv'
<1>0. /\ RInv /\ TypeOK /\ next \in Tasks /\ IsAperiodic(next) /\ next \notin served
      /\ fuel \in 1 .. ServerCapacity /\ capacity[next] \in Nat \ {0}
  BY ChargeFacts DEF AInv, ChargePartial
<1>1. /\ current = Server /\ spc = "charge" /\ HandOver /\ spc' = "dispatch"
      /\ fuel < capacity[next]
      /\ capacity' = [capacity EXCEPT ![next] = @ - fuel]
      /\ given' = [given EXCEPT ![next] = @ + fuel]
      /\ apQueue' = AddTail(apQueue, next)
      /\ UNCHANGED <<period, next, served>>
  BY DEF ChargePartial
<1>2. KeepSlots
  BY <1>0, <1>1, HandOverSlots
<1>3. RInv'
  BY <1>0, ChargePartialStep
<1>4. /\ apQueue' = Append(apQueue, next)
      /\ Len(apQueue) \in Nat
      /\ Len(apQueue') = Len(apQueue) + 1
      /\ \A i \in 1 .. Len(apQueue) : apQueue'[i] = apQueue[i]
      /\ apQueue'[Len(apQueue) + 1] = next
  <2>1. Len(apQueue) < MaxTasks
    BY <1>0, QueueShort
  <2>2. apQueue' = Append(apQueue, next)
    BY <2>1, <1>1 DEF AddTail
  <2>3. QED
    BY <2>2, <1>0, AppendProperties DEF TypeOK
<1>5. \A t \in Tasks : /\ IsAperiodic(t)' <=> IsAperiodic(t)
                       /\ IsIdleSlot(t)' <=> IsIdleSlot(t)
                       /\ InQueue(t) => InQueue(t)'
  <2> SUFFICES ASSUME NEW t \in Tasks
               PROVE  /\ IsAperiodic(t)' <=> IsAperiodic(t)
                      /\ IsIdleSlot(t)' <=> IsIdleSlot(t)
                      /\ InQueue(t) => InQueue(t)'
    OBVIOUS
  <2>1. IsAperiodic(t)' <=> IsAperiodic(t)
    <3>1. CASE t = next
      <4>1. capacity'[t] > 0 /\ capacity[t] > 0
        BY <3>1, <1>0, <1>1 DEF TypeOK
      <4>2. QED
        BY <4>1, <1>1, <1>2 DEF IsAperiodic, KeepSlots
    <3>2. CASE t # next
      BY <3>2, <1>0, <1>1, <1>2, SameClass DEF KeepSlots, TypeOK
    <3>3. QED
      BY <3>1, <3>2
  <2>2. IsIdleSlot(t)' <=> IsIdleSlot(t)
    BY <1>2 DEF KeepSlots, IsIdleSlot
  <2>3. InQueue(t) => InQueue(t)'
    BY <1>4 DEF InQueue
  <2>4. QED
    BY <2>1, <2>2, <2>3
<1>6. Complete'
  <2>1. InQueue(next)'
    BY <1>1, <1>4 DEF InQueue
  <2>2. \A t \in Tasks : InService(t) => t = next
    BY DEF InService
  <2>3. served \subseteq Tasks
    BY <1>0 DEF TypeOK
  <2>4. QED
    BY <1>1, <1>5, <2>1, <2>2, <2>3 DEF AInv, Complete
<1>7. FreshAccount'
  BY <1>0, <1>1, <1>5 DEF AInv, FreshAccount, RInv, IsIdleSlot, TypeOK
<1>8. CapacityConserved'
  <2> SUFFICES ASSUME NEW t \in Tasks, IsAperiodic(t)'
               PROVE  IF t \in served' THEN given'[t] = ApCapacity
                                       ELSE given'[t] + capacity'[t] = ApCapacity
    BY DEF CapacityConserved
  <2>1. CASE t = next
    <3>1. given[next] + capacity[next] = ApCapacity
      BY <1>0 DEF AInv, CapacityConserved
    <3>2. given[next] \in Nat
      BY <1>0 DEF TypeOK
    <3>3. QED
      BY <2>1, <3>1, <3>2, <1>0, <1>1 DEF TypeOK
  <2>2. CASE t # next
    BY <2>2, <1>0, <1>1, <1>5 DEF AInv, CapacityConserved, TypeOK
  <2>3. QED
    BY <2>1, <2>2
<1>9. QED
  BY <1>3, <1>6, <1>7, <1>8 DEF AInv

(* A successful hf_spawn puts a new aperiodic task, with the full        *)
(* capacity, in a free slot, whose account is empty, and at the tail of   *)
(* the queue.                                                              *)
LEMMA ASpawn ==
    ASSUME AInv, GenSpawn, ~SpawnFails(0, ApCapacity)
    PROVE  AInv'
<1>0. RInv /\ TypeOK
  BY DEF AInv, RInv, TypeInv
<1>1. PICK s \in FreeSlots :
        /\ tstate' = [tstate EXCEPT ![s] = "ready"]
        /\ period' = [period EXCEPT ![s] = 0]
        /\ capacity' = [capacity EXCEPT ![s] = ApCapacity]
        /\ apQueue' = Append(apQueue, s)
  BY DEF GenSpawn, Spawn
<1>2. UNCHANGED <<spc, next, served, given>>
  BY DEF GenSpawn
<1>3. RInv'
  BY <1>0, SpawnStep
<1>4. /\ s \in Tasks /\ IsIdleSlot(s) /\ s \notin served /\ given[s] = 0
      /\ Len(apQueue) \in Nat
  BY <1>0 DEF FreeSlots, IsIdleSlot, RInv, AInv, FreshAccount, TypeOK
<1>5. /\ Len(apQueue') = Len(apQueue) + 1
      /\ \A i \in 1 .. Len(apQueue) : apQueue'[i] = apQueue[i]
      /\ apQueue'[Len(apQueue) + 1] = s
  BY <1>0, <1>1, <1>4, AppendProperties DEF TypeOK
<1>6. \A t \in Tasks \ {s} : /\ IsAperiodic(t)' <=> IsAperiodic(t)
                             /\ IsIdleSlot(t)' <=> IsIdleSlot(t)
                             /\ capacity'[t] = capacity[t]
  BY <1>0, <1>1 DEF IsAperiodic, IsIdleSlot, TypeOK
<1>7. /\ IsAperiodic(s)' /\ ~IsIdleSlot(s)' /\ capacity'[s] = ApCapacity
  BY <1>0, <1>1, <1>4 DEF IsAperiodic, IsIdleSlot, TypeOK
<1>8. \A t \in Tasks : /\ InQueue(t) => InQueue(t)'
                       /\ InService(t) => InService(t)'
  BY <1>2, <1>5 DEF InQueue, InService
<1>9. Complete'
  <2>1. InQueue(s)'
    BY <1>4, <1>5 DEF InQueue
  <2>2. served \subseteq Tasks \ {s}
    BY <1>0, <1>4 DEF TypeOK
  <2>3. QED
    BY <1>2, <1>6, <1>8, <2>1, <2>2 DEF AInv, Complete
<1>10. FreshAccount'
  BY <1>2, <1>6, <1>7 DEF AInv, FreshAccount
<1>11. CapacityConserved'
  <2> SUFFICES ASSUME NEW t \in Tasks, IsAperiodic(t)'
               PROVE  IF t \in served' THEN given'[t] = ApCapacity
                                       ELSE given'[t] + capacity'[t] = ApCapacity
    BY DEF CapacityConserved
  <2>1. CASE t = s
    BY <2>1, <1>2, <1>4, <1>7
  <2>2. CASE t # s
    BY <2>2, <1>2, <1>6 DEF AInv, CapacityConserved
  <2>3. QED
    BY <2>1, <2>2
<1>12. QED
  BY <1>3, <1>9, <1>10, <1>11 DEF AInv

-----------------------------------------------------------------------------
(* AInv is inductive.                                                      *)
LEMMA AInvNext == AInv /\ [Next]_vars => AInv'
<1> SUFFICES ASSUME AInv, [Next]_vars PROVE AInv'
  OBVIOUS
<1>0. RInv /\ RInv' /\ TypeOK
  BY RInvNext DEF AInv, RInv, TypeInv
<1>1. CASE DispatchTick
  <2>1. KeepSlots /\ UNCHANGED <<period, capacity, apQueue, served, next, spc>>
    BY <1>0, <1>1, TickSlots
  <2>2. UNCHANGED given
    BY <1>1 DEF DispatchTick
  <2>3. QED
    BY <1>0, <2>1, <2>2, AQuiet
<1>2. CASE IdleUnlock
  BY <1>2, <1>0, AQuiet DEF IdleUnlock, nvars, KeepSlots
<1>3. CASE ServerYield
  <2>1. /\ Dispatch(Preempt(tstate), capRem)
        /\ UNCHANGED <<period, capacity, apQueue, served, next, spc, given>>
    BY <1>3 DEF ServerYield, Yield
  <2>2. Preempt(tstate) \in [Tasks -> States]
        /\ \A t \in Tasks : Preempt(tstate)[t] = "idle" <=> tstate[t] = "idle"
    BY <1>0, PreemptType, PreemptSlots
  <2>3. KeepSlots
    BY <2>1, <2>2, DispatchSlots DEF KeepSlots
  <2>4. QED
    BY <1>0, <2>1, <2>3, AQuiet
<1>4. CASE ServerPop
  BY <1>4, APop
<1>5. CASE ChargeFull
  BY <1>5, AChargeFull
<1>6. CASE ChargePartial
  BY <1>6, AChargePartial
<1>7. CASE ServerDispatch
  <2>1. /\ spc = "dispatch" /\ spc' = "top"
        /\ UNCHANGED <<tstate, period, capacity, apQueue, served, next, given>>
    BY <1>7 DEF ServerDispatch
  <2>2. QED
    BY <1>0, <2>1, AQuiet DEF KeepSlots
<1>8. CASE GenSpawn /\ ~SpawnFails(0, ApCapacity)
  BY <1>8, ASpawn
<1>9. CASE GenSpawn /\ SpawnFails(0, ApCapacity)
  <2>1. UNCHANGED <<tstate, period, capacity, apQueue, served, next, spc, given>>
    BY <1>9 DEF GenSpawn, Spawn
  <2>2. QED
    BY <1>0, <2>1, AQuiet DEF KeepSlots
<1>10. CASE GenDelay
  <2>1. /\ Dispatch([tstate EXCEPT ![current] = "delayed"], capRem)
        /\ UNCHANGED <<period, capacity, apQueue, served, next, spc, given>>
    BY <1>10 DEF GenDelay, DelayMs
  <2>2. /\ [tstate EXCEPT ![current] = "delayed"] \in [Tasks -> States]
        /\ \A t \in Tasks : [tstate EXCEPT ![current] = "delayed"][t] = "idle"
                               <=> tstate[t] = "idle"
    BY <1>0 DEF RInv, TypeOK, States, IsIdleSlot
  <2>3. KeepSlots
    BY <2>1, <2>2, DispatchSlots DEF KeepSlots
  <2>4. QED
    BY <1>0, <2>1, <2>3, AQuiet
<1>11. CASE UNCHANGED vars
  BY <1>11, <1>0, AQuiet DEF vars, kvars, nvars, KeepSlots
<1>12. QED
  BY <1>1, <1>2, <1>3, <1>4, <1>5, <1>6, <1>7, <1>8, <1>9, <1>10, <1>11
  DEF Next, ServerStep, GenStep

(* AInv gives the accounting of AperiodicAccounted: the queue has no      *)
(* duplicates (RInv), a queued task is neither in service nor served, the *)
(* task in service is not served, and the three places hold exactly the   *)
(* aperiodic tasks.                                                        *)
LEMMA AInvAccounted == AInv => AperiodicAccounted
<1> SUFFICES ASSUME AInv PROVE AperiodicAccounted
  OBVIOUS
<1>1. \A i, j \in 1 .. Len(apQueue) : i # j => apQueue[i] # apQueue[j]
  BY DEF AInv, RInv
<1>2. \A t \in Tasks : InQueue(t) => IsAperiodic(t) /\ t \notin served /\ ~InService(t)
  BY DEF AInv, RInv, InQueue, InService
<1>3. \A t \in Tasks : InService(t) => IsAperiodic(t) /\ t \notin served
  BY DEF AInv, RInv, InService
<1>4. \A t \in Tasks : t \in served => IsAperiodic(t)
  BY DEF AInv, Complete
<1>5. \A t \in Tasks : IsAperiodic(t) => InQueue(t) \/ InService(t) \/ t \in served
  BY DEF AInv, Complete
<1>6. QED
  BY <1>1, <1>2, <1>3, <1>4, <1>5 DEF AperiodicAccounted

(* Every aperiodic task main.c's generator spawns is always in exactly    *)
(* one place: queued once, popped and being charged by the polling        *)
(* server, or served; the requeue of line 141 never loses a task, for any *)
(* number of TCB slots, capacities and periods.                           *)
THEOREM Accounted == Spec => []AperiodicAccounted
<1>1. Init => AInv
  BY AInvInit
<1>2. AInv /\ [Next]_vars => AInv'
  BY AInvNext
<1>3. AInv => AperiodicAccounted
  BY AInvAccounted
<1>4. QED
  BY <1>1, <1>2, <1>3, PTL DEF Spec

(* The fuel the polling server charges to an aperiodic task (lines 136   *)
(* and 140) always adds up, with the capacity the task has left (line    *)
(* 139), to the capacity it was spawned with; a served task was charged   *)
(* exactly that capacity.                                                  *)
THEOREM Conserved == Spec => []CapacityConserved
<1>1. Init => AInv
  BY AInvInit
<1>2. AInv /\ [Next]_vars => AInv'
  BY AInvNext
<1>3. AInv => CapacityConserved
  BY DEF AInv
<1>4. QED
  BY <1>1, <1>2, <1>3, PTL DEF Spec

-----------------------------------------------------------------------------
(* The charges of lines 136 and 139-140 touch only the popped task, which *)
(* is not served, and hf_spawn only a free slot, which no served task      *)
(* holds; every other step leaves accounts, capacities and served alone.  *)
LEMMA ServedStep == AInv /\ [Next]_vars => ServedUntouched
<1> SUFFICES ASSUME AInv, [Next]_vars PROVE ServedUntouched
  OBVIOUS
<1>0. /\ TypeOK /\ \A t \in served : ~IsIdleSlot(t)
      /\ spc = "charge" => next \notin served
  BY DEF AInv, RInv, TypeInv
<1>1. CASE UNCHANGED <<served, given, capacity>>
  BY <1>1 DEF ServedUntouched
<1>2. CASE ChargeFull
  <2>1. /\ spc = "charge"
        /\ served' = served \cup {next}
        /\ given' = [given EXCEPT ![next] = @ + capacity[next]]
        /\ UNCHANGED capacity
    BY <1>2 DEF ChargeFull
  <2>2. QED
    BY <2>1, <1>0 DEF ServedUntouched, TypeOK
<1>3. CASE ChargePartial
  <2>1. /\ spc = "charge"
        /\ UNCHANGED served
        /\ given' = [given EXCEPT ![next] = @ + fuel]
        /\ capacity' = [capacity EXCEPT ![next] = @ - fuel]
    BY <1>3 DEF ChargePartial
  <2>2. QED
    BY <2>1, <1>0 DEF ServedUntouched, TypeOK
<1>4. CASE GenSpawn /\ ~SpawnFails(0, ApCapacity)
  <2>1. PICK s \in FreeSlots : capacity' = [capacity EXCEPT ![s] = ApCapacity]
    BY <1>4 DEF GenSpawn, Spawn
  <2>2. UNCHANGED <<served, given>> /\ s \notin served
    BY <1>4, <1>0 DEF GenSpawn, FreeSlots, IsIdleSlot
  <2>3. QED
    BY <2>1, <2>2, <1>0 DEF ServedUntouched, TypeOK
<1>5. QED
  <2>1. CASE GenSpawn /\ SpawnFails(0, ApCapacity)
    BY <2>1, <1>1 DEF GenSpawn, Spawn
  <2>2. QED
    BY <1>1, <1>2, <1>3, <1>4, <2>1
    DEF Next, ServerStep, GenStep, DispatchTick, Tick, IdleUnlock, ServerYield,
        Yield, ServerPop, ServerDispatch, GenDelay, DelayMs, vars, kvars, nvars

(* A task main.c's polling server has charged in full is never charged    *)
(* again and stays served: no later pop (line 133) hands it back to the   *)
(* charge of lines 135-141.                                                *)
THEOREM ServedStable == Spec => ServedFinal
<1>1. Init => AInv
  BY AInvInit
<1>2. AInv /\ [Next]_vars => AInv'
  BY AInvNext
<1>3. AInv /\ [Next]_vars => [ServedUntouched]_vars
  BY ServedStep
<1>4. QED
  BY <1>1, <1>2, <1>3, PTL DEF Spec, ServedFinal

-----------------------------------------------------------------------------
(* The invariant of the abstract server, read through the refinement      *)
(* mapping of Node.                                                        *)
AP == INSTANCE ApServerProofs WITH Slots <- Tasks, Budget <- ServerCapacity,
          Work <- ApCapacity, queue <- AbsQueue, work <- AbsWork, done <- served

(* The FIFO main.c's polling server serves (the aperiodic queue with the  *)
(* popped task at its head) never holds a task twice or a served task,    *)
(* and every task in it still needs between 1 and the 18 units hf_spawn   *)
(* gave it: the refinement carries ApServer's invariant to the node.      *)
THEOREM ServesInv == Spec => []AbsServerInv
<1>1. AP!WorkAssumption
  BY DEF AP!WorkAssumption
<1>2. AP!SafeSpec => []AP!ServerInv
  BY <1>1, AP!ServerSafe
<1>3. Spec => AP!SafeSpec
  <2>1. Abs!Init <=> AP!Init
    BY DEF Abs!Init, AP!Init
  <2>2. [Abs!Next]_Abs!avars <=> [AP!Next]_AP!avars
    BY DEF Abs!Next, AP!Next, Abs!avars, AP!avars, Abs!Arrive, AP!Arrive,
           Abs!Serve, AP!Serve, Abs!Finish, AP!Finish, Abs!Grant, AP!Grant,
           Abs!Pending, AP!Pending
  <2>3. QED
    BY Refinement, <2>1, <2>2, PTL DEF ServesSafely, Abs!SafeSpec, AP!SafeSpec
<1>4. QED
  BY <1>2, <1>3 DEF AbsServerInv, Abs!ServerInv, AP!ServerInv


-----------------------------------------------------------------------------
(* The task the server has popped owes between 1 and ApCapacity units: it *)
(* heads the abstract queue, whose entries all still need work.            *)
LEMMA ChargeWork ==
    ASSUME AInv, AbsServerInv, spc = "charge"
    PROVE  capacity[next] \in 1 .. ApCapacity
<1>1. IsAperiodic(next) /\ next \notin served /\ next \in Tasks
      /\ apQueue \in Seq(Tasks)
  BY DEF AInv, RInv, TypeInv, TypeOK
<1>2. AbsQueue = <<next>> \o apQueue
  BY DEF AbsQueue
<1>3. 1 \in 1 .. Len(AbsQueue) /\ AbsQueue[1] = next
  BY <1>1, <1>2
<1>4. AbsWork[next] \in 1 .. ApCapacity
  BY <1>3 DEF AbsServerInv, Abs!ServerInv
<1>5. QED
  BY <1>1, <1>4 DEF AbsWork

-----------------------------------------------------------------------------
(* AperiodicViaServer is not inductive alone: between the charge and the  *)
(* jump of lines 146-155 the server is at "dispatch" and must already     *)
(* have burned fuel for next, or the jump would break the invariant.       *)
DInv == AperiodicViaServer /\ (spc = "dispatch" => fuel < ServerCapacity)

(* None of the four tasks main() spawns is aperiodic.                      *)
LEMMA BootNotAperiodic ==
    ASSUME BootTasksKept
    PROVE  /\ ~IsAperiodic(Idle) /\ ~IsAperiodic(Server)
           /\ ~IsAperiodic(Generator) /\ ~IsAperiodic(App)
BY DEF BootTasksKept, IsAperiodic

(* The dispatcher picks an RT or a best-effort task, never an aperiodic   *)
(* one, when the step keeps every task's class fields.                     *)
LEMMA DispatchNotAperiodic ==
    ASSUME NEW st, NEW cr, Dispatch(st, cr), UNCHANGED <<period, capacity>>
    PROVE  ~IsAperiodic(current)'
<1>1. PICK n \in Candidates(st, cr) : current' = n
  BY DEF Dispatch
<1>2. period[n] > 0 \/ capacity[n] = 0
  BY <1>1 DEF Candidates, RTEligible, IsRT, IsBE
<1>3. QED
  BY <1>1, <1>2 DEF IsAperiodic

LEMMA DInvInit == Init => DInv
<1> SUFFICES ASSUME Init PROVE DInv
  OBVIOUS
<1>1. BootTasksKept /\ current = Idle /\ spc = "top"
  BY RInvInit DEF Init, RInv
<1>2. QED
  BY <1>1, BootNotAperiodic DEF DInv, AperiodicViaServer

(* Every step keeps DInv: the dispatcher and the server's yield and the   *)
(* generator's delay jump into RT or BE tasks, the server and generator   *)
(* steps leave a boot task current, a charge leaves the fuel below the    *)
(* capacity, and the jump into next happens only after it.                 *)
LEMMA DInvNext ==
    AInv /\ AbsServerInv /\ DInv /\ [Next]_vars => DInv'
<1> SUFFICES ASSUME AInv, AbsServerInv, DInv, [Next]_vars PROVE DInv'
  OBVIOUS
<1>0. RInv /\ RInv' /\ TypeOK /\ BootTasksKept'
  BY RInvNext DEF AInv, RInv, TypeInv
(* A step that leaves a boot task current and spc off "dispatch".          *)
<1>a. ASSUME current' \in {Idle, Server, Generator, App},
             spc' = "dispatch" => fuel' < ServerCapacity
      PROVE  DInv'
  BY <1>0, <1>a DEF DInv, AperiodicViaServer, BootTasksKept, IsAperiodic
<1>1. CASE DispatchTick
  <2>1. UNCHANGED <<period, capacity, fuel, spc, next>>
    BY <1>1 DEF DispatchTick, Tick
  <2>2. CASE schedlock
    <3>1. UNCHANGED current /\ tstate' = Wake(tstate)
      BY <1>1, <2>2 DEF DispatchTick, Tick
    <3>2. IsAperiodic(current)' => IsAperiodic(current)
      BY <1>0, <2>1, <3>1, WakeSlots DEF IsAperiodic, TypeOK, RInv
    <3>3. QED
      BY <2>1, <3>1, <3>2 DEF DInv, AperiodicViaServer
  <2>3. CASE ~schedlock
    <3>1. Dispatch(Wake(Preempt(tstate)), NewCapRem)
      BY <1>1, <2>3 DEF DispatchTick, Tick
    <3>2. QED
      BY <2>1, <3>1, DispatchNotAperiodic DEF DInv, AperiodicViaServer
  <2>4. QED
    BY <2>2, <2>3
<1>2. CASE IdleUnlock
  BY <1>2, <1>a DEF IdleUnlock, nvars, DInv
<1>3. CASE ServerYield
  <2>1. /\ Dispatch(Preempt(tstate), capRem) /\ UNCHANGED <<period, capacity>>
        /\ spc' = "top"
    BY <1>3 DEF ServerYield, Yield
  <2>2. QED
    BY <2>1, DispatchNotAperiodic DEF DInv, AperiodicViaServer
<1>4. CASE ServerPop
  BY <1>4, <1>a, <1>0 DEF ServerPop, BootTasksKept
<1>5. CASE ChargeFull
  <2>1. /\ current' = Server /\ spc = "charge"
        /\ fuel' = fuel - capacity[next]
    BY <1>5 DEF ChargeFull
  <2>2. capacity[next] \in 1 .. ApCapacity
    BY <2>1, ChargeWork
  <2>3. fuel' < ServerCapacity
    <3>1. fuel \in 0 .. ServerCapacity /\ ServerCapacity \in Nat
      BY <1>0, NodeAssumption DEF TypeOK
    <3>2. QED
      BY <2>1, <2>2, <3>1, ApCapacity \in Nat
  <2>4. QED
    BY <2>1, <2>3, <1>a
<1>6. CASE ChargePartial
  <2>1. current' = Server /\ fuel' = 0
    BY <1>6 DEF ChargePartial
  <2>2. QED
    BY <2>1, <1>a, NodeAssumption
<1>7. CASE ServerDispatch
  BY <1>7 DEF ServerDispatch, DInv, AperiodicViaServer
<1>8. CASE GenSpawn
  BY <1>8, <1>a DEF GenSpawn, DInv
<1>9. CASE GenDelay
  <2>1. /\ \E d \in DelayTicks : DelayMs(d)
        /\ UNCHANGED <<spc, fuel>>
    BY <1>9 DEF GenDelay
  <2>2. PICK d \in DelayTicks : DelayMs(d)
    BY <2>1
  <2>3. Dispatch([tstate EXCEPT ![current] = "delayed"], capRem)
        /\ UNCHANGED <<period, capacity>>
    BY <2>2 DEF DelayMs
  <2>4. QED
    BY <2>1, <2>3, DispatchNotAperiodic DEF DInv, AperiodicViaServer
<1>10. CASE UNCHANGED vars
  BY <1>10 DEF vars, kvars, nvars, DInv, AperiodicViaServer, IsAperiodic
<1>11. QED
  BY <1>1, <1>2, <1>3, <1>4, <1>5, <1>6, <1>7, <1>8, <1>9, <1>10
  DEF Next, ServerStep, GenStep

(* An aperiodic task holds the processor only through the polling server  *)
(* of main.c: the dispatcher never picks one (spec 4.5), and the server   *)
(* jumps into next (lines 146-155) only after charging it (lines 134-140), *)
(* so the running aperiodic task is next, the server is back at its loop   *)
(* top and its fuel is below its capacity.                                 *)
THEOREM ViaServer == Spec => []AperiodicViaServer
<1>1. Spec => []AInv
  BY AInvInit, AInvNext, PTL DEF Spec
<1>2. Spec => []AbsServerInv
  BY ServesInv
<1>3. AInv /\ AbsServerInv /\ DInv /\ [Next]_vars => DInv'
  BY DInvNext
<1>4. Spec => []DInv
  BY <1>1, <1>2, <1>3, DInvInit, PTL DEF Spec
<1>5. QED
  BY <1>4, PTL DEF DInv

=============================================================================
